# A verification of secret-agent

TLA+ modules, model-checking runs and machine-checked proofs about
`secret_agent/`, the agent runtime of this repository: a synchronous loop that
sends a conversation to a language model, runs the tools the model asks for and
keeps the conversation inside the context window.

Run TLC with `tlc -config <Run>.cfg <Module>`, for example
`tlc -config ToolCalls.cfg MCToolCalls`; check the proofs of a module with
`tlapm <Module>_proofs.tla`.

## 1. The system

| component | state | operations | what it talks to |
|---|---|---|---|
| agent loop (`agent.py`) | iteration, parse failures, emitted steps | `run(task)` | context manager, LLM client, parser, registry, tracer callback |
| conversation (`conversation.py`) | the list of messages | `add_*`, `turns`, `to_wire` | read and rewritten by the context manager |
| context manager (`context.py`) | `.spill/`, compaction history, token cache | `ensure_fits`, `trim_tool_result` | rewrites the conversation, may call the LLM client |
| LLM clients (`llm.py`) | call counter, call log | `complete`, `count_tokens` | Ollama or an OpenAI-compatible provider |
| parser (`parsing.py`) | process-wide `STATS` | `parse_tool_calls`, `parse_native_tool_calls` | none |
| registry, tool base, permissions | tools by name, audit log | `register`, `execute`, `check` | the user at the prompt, every tool |
| file tools, sandbox | the project tree | `read_file`, `write_file`, `list_dir`, `grep` | the file system |
| bash tool, executor | a subprocess, or an HTTP request to another node | `run`, `execute`, `run_command` | executor service |
| MCP client, adapter (`mcp/`) | subprocess, request counter, inbox, reader threads | `connect`, `close`, `list_tools`, `call_tool` | an external MCP server over pipes |
| retrieval (`rag/`) | one shared index, a vector store, an embedding cache file | `get_index`, `search`, `embed` | Ollama, Qdrant, Chroma, other processes |
| tracer (`observability/`) | records of a run | `on_step`, `dump_summary` | called back by the loop |
| REPL and command line (`cli.py`), HTTP server (`server.py`) | one agent per session, or one per request | tasks in, answers and failures out | the agent loop, the tracer |

The hard behaviour, component by component, and what makes it correct:

* **Loop and context manager.** Two components write one list. Compaction
  replaces the front of the history between two model calls; runs that failed in
  the middle leave their messages behind for the next run; nudges and markers are
  user messages and count as turns. Correct means that what is sent is always
  acceptable to the provider (every result follows the call it answers), has no
  gap in the middle, still holds the task, and fits or cannot be made to fit.
  Every run ends, and ends the way its callers were told it can.
* **Front ends, tracer.** Three ways to give a task, each with its own list of
  exceptions it catches; a tracer that outlives the runs of a session. Correct
  means that an answer is told with the truth about how it came to be, that a run
  that failed is shown whole, and that the trace accounts for what was executed.
* **LLM clients.** Failures, retries and a call log. Correct means retries
  are bounded and justified, each call is logged once, callers meet one kind of
  exception.
* **MCP client.** Three threads, a queue that outlives its producer, answers
  that come late, out of order or never. Correct means that an answer is never
  taken for another request's, that the handshake comes first, and that a request
  ends within its timeout.
* **Parser.** Two hand-written scanners over what a model wrote, which disagree
  on where a quote means something. Correct means that a call the model closed is
  found whole whatever prose surrounds it, that spans are apart, that closing a
  cut completion balances it, and that repairs are counted.
* **Registry, permissions, sandbox.** Lookup, validation, approval and execution
  in this order, for one call after the other. Correct means that whatever a tool
  got to was allowed for this very call, that no path gets out of the project or
  to a credential file through a link, `..` or a flag that is read as it is meant,
  and that the model is told what happened.
* **Bash, executor.** Two timeouts on two nodes, commands that outlive the
  connection, nodes that die and come back. Correct means no local fallback,
  no slow command called unreachable, no silent overlap of two commands.
* **Retrieval.** A lazily built index shared by threads; a collection and a
  cache file shared by processes, half-written files, failing batches. Correct
  means that vectors are there when they are used, that an index that is
  searched is whole, and that a lock is never left behind.
* **Chunking.** A loop over positions with two ways to stop making progress.
  Correct means no lost text, no chunk over its size, no short fact cut in two.

## 2. Modules

| module | models |
|---|---|
| `Conversation` | messages, turns and the pairing of calls with results that hosted providers enforce |
| `Context` | the decisions of the context manager as operators: threshold, cut points, marker, trimming, spilling |
| `AgentLoop` | `Agent.run` driven by the REPL, over `Context` |
| `RunContract` | what a run promises, without any history: the abstract specification of `AgentLoop` |
| `Frontends` | the REPL, the one-shot command line, a request of the HTTP server, and the tracer; over `AgentLoop` |
| `MCAgentLoop`, `MCFrontends` | finite cost and size sets for TLC |
| `LLMClient` | `complete` of both clients |
| `McpClient`, `MCMcpClient` | `MCPStdioClient`, its reader threads and the servers it spawns |
| `Scanner` | `balanced_spans` and `_close_unbalanced`, character by character |
| `Parsing` | the repair ladder, `normalize_call`, `parse_tool_calls`, `parse_native_tool_calls`, `STATS` |
| `Sandbox` | `safe_resolve`, `looks_secret`, `looks_like_path`, `embedded_paths`, `confine_paths` over paths with links |
| `Dispatch` | `Registry.execute`, `Permissions.check`, the file tools, the MCP adapter; over `Parsing` and `Sandbox` |
| `Executor` | the bash tool, `ExecutorClient`, the service and `run_command`; over `Dispatch` |
| `ToolCalls`, `MCToolCalls` | from a completion to the results of its calls: composes `Scanner` and `Executor` |
| `Chunking` | `split_text` |
| `Rag`, `MCRag` | `search_docs`: index, embedder with its cache file, stores; over `Chunking` |
| `AgentLoop_proofs`, `Turns_proofs`, `LLMClient_proofs`, `McpClient_proofs`, `Frontends_proofs`, `Scanner_proofs`, `ToolCalls_proofs`, `Rag_proofs` | theorems about the module they are named after; `Turns_proofs` is about `AgentLoop`, too, and `ToolCalls_proofs` continues `Scanner_proofs` |

Three compositions stand next to each other: `Frontends` over `AgentLoop` with
`Context` and `Conversation` (what the loop does with results of any size, whatever
tools do, and who is told what),
`ToolCalls` (what happens between a completion and its results, in the places
where `AgentLoop` is in `tools`), and `Rag` (what is below one tool,
`search_docs`).

### AgentLoop

`messages` is `conversation.messages`; a message keeps its role, what kind of
message it is, who wrote it when (`run`, `at`), what it costs, and the call ids
it asks for or answers. Texts are left out, and one unit of `cost` stands for
characters and tokens. `pc` names the places where `run()` can be: `repl`
(waiting for a task), `fit` (top of the loop), `model` (about to call the model),
`tools` (between two tool executions), `exited`.

| code | action |
|---|---|
| `add_user(task)`, entering the loop (agent.py:170-175) | `BeginRun` |
| `ensure_fits` (context.py:245-286), which raises for a strategy it does not know | `Fits`, `CannotFit`, `Compact` |
| `complete` raises an `LLMError` or something else, or the parser raises (agent.py:186, 199-200, cli.py:167) | `ModelFails` |
| no call, no problem (agent.py:238-246) | `Answer` |
| problems only (agent.py:209-236) | `Nudge`, `GiveUpParsing` |
| calls (agent.py:248-270) | `RequestTools`; the shape `mixed` is a completion that also had unusable calls |
| `execute`, `trim_tool_result`, `add_tool_result` for one call (agent.py:281-289) | `RunTool` |
| `dict(call.arguments)` raises (registry.py:82) | `ToolEscapes` |
| the loop runs out (agent.py:291-296) | `LoopExhausted` |
| `/quit`, end of input | `Quit` |

`CannotFit` is the compaction that drops nothing, for which `ensure_fits` returns
True all the same: the step counts as compacted and the history is what it was.

What the model answers, what a tool returns, whether the spill is written, and
what a summary costs are nondeterministic. A summary request cannot raise
(context.py:368-375), so only the cost of its text remains of it. Call ids are
fresh: `new_call_id()` draws them and providers send distinct ones.

`RunContract` has five variables (phase, runs, completions dealt with, length of
the streak of unparseable ones, verdict). `AgentLoop!Contract` maps them to
`pc`, `run`, the number of emitted steps, the streak of garbage at the end of the
emitted steps, and `outcome`.

### Frontends

`front` is who gives the task. `records` is `Tracer.records` added up the way
`summary()` does it, `reply` what the run that ended last came to for who asked,
`summary` the run summary that was shown. `ran` counts the results that came into
the conversation and is observation only.

| code | action |
|---|---|
| a step of `Agent.run`, with the callback of `_emit` (agent.py:405-411, trace.py:65-92) | `Running` |
| a task from the REPL, the command line or a request, which builds its agent | `Begin` |
| no key, a bad key, a body that is no `RunRequest` (server.py:45-61) | `Refuse` |
| `run()` returned or raised: `run_once`, `repl`, the server's `run` | `Respond`, `Told` |
| `/quit`, end of input | `Leave` |

### LLMClient

One action per way an attempt can go. What a request meets is nondeterministic
(`Met`); `Caught` says which of it the client of `Provider` turns into
`LLMError`, `Retryable` which of that is worth another attempt, `Escaping` what
leaves `complete()` unchanged. The length of a delay is left out; that a sleep ends
is the fairness of `Retry`.

### McpClient

The requesting thread is sequential (`pc` is `idle` or `waiting`); each server
has a reader (`Pump`) that moves lines from the server's pipe (`out`) to the one
`inbox`, even after `close()`. `skipped` is `deadline_msgs`, put back by
`Finish`. Time is counted in ticks while `get()` has nothing to return: `quiet`
since this `get()` began, `waited` since the request was sent (`waited` is
observation only). Servers are external: they answer any request they have
read, in any order, with a result or an error, send notifications and requests of
their own, and die at any time. A server whose program is not there never starts
(`ConnectFails`), and the next `connect()` tries again.

### Scanner and Parsing

A text is a sequence over the characters the scanners tell apart; the comma and
the colon also stand for all others. `Feed` is one turn of the loop of
`balanced_spans` on the record of its locals, so the scanner is an automaton:
`ToolCalls` feeds it one character per step, and its invariants are checked for
every prefix of every text. `Close` is `_close_unbalanced` as an operator on the
rest of the text. `Quoted`, `Balanced` and `Whole` say what the scanners are
for without a scanner, by splitting a text in every way.

`Parsing` begins where a span is found. What the span holds is open: `rung` is
the rung of `loads_forgiving` that loads it, or on which it raises; an object is the
record of what `normalize_call` tells apart (names under other keys, a wrapper, the
form of its arguments, left-over keys, schema keys among the arguments). JSON itself,
fences and markers, and the words of problems are left out. A call carries `repairs`,
which the code records, and `altered`, the parts in which it differs from what was
written; `altered` is observation only, and `RepairsCounted` compares the two.

| code | definition |
|---|---|
| `balanced_spans` (parsing.py:170-223) | `Fresh`, `Char`, `Feed`, `Spans`; actions `Read`, `EndOfText` |
| `_close_unbalanced` (parsing.py:282-313) | `Stack`, `Strip`, `Close` |
| `loads_forgiving`, and what its `literal_eval` raises | `Rungs`, `Raises`, `RaisedResult` |
| `normalize_call`, `_looks_deliberate` | `Shape`, `NormalizeRepairs`, `LooksDeliberate`, `Kept`, `ToolCall` |
| `parse_tool_calls`, `STATS` | `Calls`, `IsProblem`, `NeedsRepair`, `Counted`, `ParseResult`; action `Parse` |
| `parse_native_tool_calls` | `NativeCall`, `NativeResult`; action `ParseNative` |

### Sandbox

A path is a sequence of names, `Links` maps links to what they stand for. `Walk`
is how the operating system opens a path, name by name; `Resolved` is
`Path.resolve`, which does the same. That the two agree is what `Confined`
is about for one part: its mutant removes `..` before it follows links. Spelling is
reduced to what the checks see: absolute or relative, percent signs (`odd`).

The other part is how a path hides in a word. `Opens` is what a program or a server
takes a word for, whatever the checker does; `EmbeddedPaths` is what
`embedded_paths` reads out of it. They agree on a bare word, on what follows a `=`
and on `-xpath`. Of bundled flags (`-xypath`) the code cuts off two characters and
checks what is left as a relative path (`Glued`); a word after `--` without `=` it
does not check at all (`run-on`). The effects of a tool are made from `Opens` and
keep the form of the word, so these two forms do leave the project in the model,
as they do in the program, and `Confined` says of which forms it speaks.

### Dispatch, Executor and ToolCalls

One call after the other (`pc`: `call`, `asking`, `run`, `bash`). A `session` is how
a process was set up: configured policies, the default policy of MCP tools,
`auto_approve`, a terminal or none, an executor or none and whether its key is
right. `approved`, `audit` and `effects` are kept with the number of the call;
`approved` and `effects` are observation only, `audit` is `Permissions.log`.

| code | action |
|---|---|
| unknown tool (registry.py) | `Unknown` |
| `dict(call.arguments)` raises | `Escape` |
| missing arguments, a bare string that binds to nothing | `Invalid` |
| `Permissions.check` | `Allowed`, `Disabled`, `AutoApproved`, `Ask`, `Approve`, `Decline` |
| `read_file`, `list_dir`, `grep`, `write_file` (tools/fs.py) | `Refuse`, `CannotDo`, `ReadPath`, `WriteFile` |
| `_MCPTool.run` (mcp/adapter.py) | `RefuseForward`, `Forward`; the server opens any of the words it is given |
| `run_command` in this process | `RefuseHere`, `NotFoundHere`, `SpawnHere`, then `Exit` or `Kill`, `Hear` |
| `ExecutorClient.execute` | `Unreachable`, `Rejected` (no key, or a command that is no `ExecRequest`), `Post`, then `Hear`, `Broken` or `GiveUp` |
| the service: a worker thread takes the request, runs the command, answers | `Begin`, `Exit`, `Kill` |
| the node dies, comes back, the connection breaks | `Crash`, `Restart`, `LoseConnection` |

A job is a command that was posted or spawned. It goes on when the client gave
up. `Tick` is time passing for whoever waits; what is due happens before.

### Chunking and Rag

`Chunking` is the loop of `split_text`: one action per exit (`SizesRefused`,
`NothingToSplit`, `StripDocument`) and `Window`. A document is a function from
positions to characters that are spaces, line breaks, the ladder's full stop and
comma, or other. A chunk is where its window started and what is left of it after
`strip`, so that coverage is about positions.

In `Rag` a thread has a place `at` and the set `todo` of keys its `embed` still
has to ask for; a process has the lock, `_index`, `_mem` and its own store; the
cache file and the server's collection are shared by all processes. A key stands
for the text it is the hash of: chunk numbers, and 0 for the query.

| code | action |
|---|---|
| `search`, `get_index`, `_index_lock` (rag/retrieve.py) | `Search`, `GetIndex` |
| `load_corpus`, `Embedder.__init__`, the store's constructor | `Loaded`, `LoadCorpus`, `CollectionExists`, `DeleteCollection`, `CreateCollection` |
| `embed`: the missing keys, `_call` by batches (rag/embed.py) | `FindMissing`, `EmbedBatch` |
| `_save_disk_cache`: the file is truncated, then written | `BeginSave`, `EndSave` |
| `store.add`, `_index = ...` | `Add` |
| `store.search` | `Hits` |
| anything remote raises, done or not | `RemoteFails` |
| a process dies | `Crash` |

## 3. Runs

| run | question | bounds |
|---|---|---|
| `AgentLoop` | is what the model is shown right? `TypeOK`, `WireOK`, `KeptIsSuffix`, `FitsOrMinimal`, `SpillReadable` | 2 tasks, 2 iterations, 1 or 2 calls each, 2 turns kept, threshold 6, results of 1 or 9, summaries of 1 or 3 |
| `AgentRuns` | do runs go, end and get reported as promised? `TaskInView`, `TraceAccounts`, `ReplyTrue`, `FailureShown`, `RunEnds`, `ContractHolds` | 3 front ends, 2 tasks, 3 iterations, 1 or 2 calls each, truncation |
| `AgentMarker` | is the truncation marker's number right? no | 2 iterations, several tasks |
| `AgentMixed` | is every unusable call fed back? no | 1 task |
| `LLMClient` | `TypeOK`, `RetriesJustified`, `LoggedOnce`, `CallEnds` | 3 calls, 3 attempts, Ollama |
| `LLMEscapes` | do callers only meet `LLMError`? no | 1 call |
| `McpClient` | `TypeOK`, `AnswerIsOurs`, `HandshakeFirst`, `RequestEnds` | 2 servers, 4 requests, 1 unasked message, timeout of 1 tick |
| `McpDeadline` | does a request end within its timeout? no | 1 server, 2 unasked messages |
| `McpReconnect` | does the handshake come first when `connect()` is called again after it raised? no | 1 server |
| `ToolCalls` | is a completion read and executed right? the scanners: `SpansApart`, `CallFound`, `CloseBalances`; the parser: `RepairsCounted`; the calls: `TypeOK`, `Approved`, `Confined`, `ToldTrue`, `NoLocalFallback`, `SlowIsNotLost`, `OneAtATime`, `BatchEnds` | texts of 5 characters, 2 calls, 4 sessions, a command's timeout of 1 tick below a client's of 2 |
| `Rag` | is everything chunked, embedded, stored? `TypeOK`, `Bounded`, `Covered`, `FactsWhole`, `VectorsReady`, `IndexWhole`, `SplitEnds`, `SearchEnds` | documents of 7 characters over a space, a line break and a letter, sizes 3 and 5, overlaps 0, 3 and 4; 2 threads of one process and 1 of another, 2 chunks in batches of 1, 1 search each, 1 crash |
| `RagShared` | does a process find the corpus in a collection it shares? no | as `Rag` |

Why these bounds are enough to see the interesting cases:

* `AgentLoop`: a batch of two calls with one large result passes the threshold,
  so a compaction happens in the second iteration or at the start of the second
  task, after any way the first can have ended; a nudge opens a third turn, so a
  history can be cut inside a run; a summary can be large enough that
  the compacted history is still over the threshold; a spilled result can be
  dropped, kept or followed by a failed spill. One message costs at least 1, so
  with the threshold 6 both outcomes of every comparison occur.
* `AgentRuns`: two tasks, with the nudges of three iterations, let the marker itself
  be dropped by a later compaction; three iterations let a failed parse be followed
  by a recovery or by the failure that exhausts the retries, and let a step with
  calls come before another one and the answer; the second task finds the tracer as
  the first one left it.
* `McpClient`: two servers and four requests allow two requests on each side of a
  reconnection, so a late answer of the old server meets the first request of the
  new one; one request can time out and be answered during the next.
* `LLMClient`: three attempts give a first, a middle and a last one; three calls
  let a log line be compared with the one before.
* `ToolCalls`: five characters give a bracket in a bracket, a string with an
  escape in a bracket, a quote in prose before a bracket, a key cut before its
  value, and two spans. What a completion says is tied to a text only through
  which spans are closed, so longer texts add nothing to the calls. Two
  calls let the first leave a job behind for the second, or write a file that the
  second reads. The project has a credential file, a link to it, a link out of
  the project and a path that leaves through the link and `..`. The four
  sessions are a user at a terminal, one that approves all in advance with an
  executor, one without a terminal and with a denied tool, and an executor with
  the wrong key. One tick is enough for a command to be killed, two for a client to
  give up on one that waited.
* `Rag`: seven characters give three windows, breaks inside and outside of the last
  third, blank windows, and overlaps above and below two thirds of the size (an
  overlap of 3 or 4 is also refused for size 3). Two threads of a process meet at the
  lock; the other process has a collection or cache to share with them; two batches
  can succeed and fail one after the other; after a crash the process starts with
  whatever file it left.

`MaxRuns`, `MaxCalls`, `MaxServers`, `MaxRequests`, `MaxNoise`, `MaxText`,
`MaxParts`, `MaxSearches` and `MaxCrashes` bound the models only, as do the
`Sessions`, `Documents` and shapes of spans given to TLC; every other constant is a
parameter of the program.

### What the violations show

* `AgentMarker`: the marker says how many messages *this* compaction dropped. The
  previous marker is one of them, and what it stood for is not counted: in the
  trace the first marker says 2, and the second says 4 where the first five
  messages of the conversation are gone.
* `AgentMixed`: `problems` are read only when no call parsed.
* `LLMEscapes`: `httpx.ReadError`, `WriteTimeout`, `RemoteProtocolError` and a
  body that is not JSON leave `OllamaClient.complete` as they are.
* `McpDeadline`: the timeout is that of one `get()`, and every skipped message
  starts another.
* `McpReconnect`: a failed handshake leaves `_proc` set, and the next `connect()`
  returns at once.
* `RagShared`: a collection is meant to survive restarts and to serve a second
  process (store_qdrant.py:13-15), but each process creates its store with
  `reset=True` on its first search and deletes the collection. In the trace a thread
  that has its index asks the server after another process's build deleted it.

### Hypotheses worth knowing

* `TaskInView` holds while the run has sent fewer nudges than
  `keep_recent_turns`. With the defaults (4 turns kept, 2 retries, a counter that
  a good call resets) a run can send more, and then the task is dropped.
* `AnswerIsOurs` assumes that servers number their own requests apart from ours.
  `_await_response` looks at the id alone.
* `HandshakeFirst` (in run `McpClient`) assumes a caller that gives up when
  `connect()` raises, which is what `cli.py` does (`CallerRetries = FALSE`).
* `CallFound` speaks of the first object and of prose without brackets before it.
* `CloseBalances` leaves out completions cut right after a backslash, and regions
  on whose depth the two scanners disagree: one ignores the kind of a closing
  bracket, the other does not.
* `RunEnds` assumes that the tool of a step returns; `ToolCalls!BatchEnds` says
  which tools do.
* `RequestEnds` has `MaxNoise` unasked messages: a server that sends them for ever
  puts off the end of a request for ever, as `McpDeadline` begins to show.
* `RepairsCounted` compares what a call differs in with what was counted, and
  leaves out by name (`Unrecorded`) the two changes for which the code records no
  repair, although parsing.py:22 says "Every repair is recorded on the ToolCall and
  counted in STATS": `title` and `$schema` taken out of the arguments
  (parsing.py:401-402), and a native call's string that `loads_forgiving` repaired
  (parsing.py:542). Native calls do not go through `normalize_call`.
* `OneAtATime` lets a command the model was told it lost run on beside the next
  call: that is what the code does, and weaker than the comment at agent.py:278-280.
* `BatchEnds` ends, too, at a search or an MCP call that is running (`Unbounded`):
  fs.py:166-184 calls its screening of patterns "mitigation, not elimination".
* `Confined` takes the directory of the executor for the same tree as the
  agent's, links that do not change between the check and the use, and
  links that end. It speaks of the words a tool is given, in the forms of
  `ReadAsMeant`: not of bundled short flags, of words after `--` without `=`, of the
  program's own name, nor of paths a program makes up itself. The theorem also asks that links lead to something
  (`LinksLead`): to `confine_paths` a lone name whose link leads nowhere does not
  exist. `list_dir` shows names of credential files, not what is in them.
* `SlowIsNotLost` needs the command's timeout, 30 s (core.py:79), below the
  client's, 35 s (client.py:25); a request that waits for a thread of the service
  for the difference can still be lost, and the property says so.
* `FactsWhole` needs an overlap of at most two thirds of the size. Above it, a window
  that ends early, at a break, can end less than an overlap after the next one
  begins, and a fact can be cut.
* `IndexWhole` speaks of the process's own store, or of the collection it
  created until another process replaces it. Nothing keeps another process from
  replacing it.
* The corpus does not change while the processes run, so it is split once for all
  of them.

### Fairness

* `AgentLoop`: `WF(RunStep)`. A run is a sequential program and keeps taking steps.
  Its model calls have a timeout (`request_timeout`), and so do commands (30 s).
  That the other tools return is assumed here: Python cannot time out a regular
  expression, and `MCPStdioClient.timeout` is restarted by every message. Nothing
  obliges the user to type: `BeginRun` and `Quit` are not fair.
* `Frontends`: `WF(Running)`, the same.
* `LLMClient`: `WF(Work)`. Requests time out and sleeps end.
* `McpClient`: `WF(Wait)`. The waiting thread runs and time passes. Readers and
  servers are not fair: a request must end without their help.
* `ToolCalls`: `WF(Agent /\ ~Unbounded)`, `WF(Tick)`, `WF` of `Kill`. The agent's
  thread does not stop by itself but in a search or in a call to an MCP server, time
  passes, `subprocess.run` kills at its timeout. The user's answer is not fair, so
  `BatchEnds` ends in a result, at the question, or at such a tool. Neither
  the service taking a request nor a command's exit is fair: a client ends without.
* `Rag`: `WF` of each thread's `Step`, and of splitting. Requests to the embedding
  service and the server have timeouts, after which they raise. A thread at the
  lock only waits for another that is fair. Searches begin and processes
  crash or not.

Deadlock is checked in every run. The stuttering actions `Exited`, `Over`, `Rest`, `Done`
and `Finished` are the states in which the program may really do nothing for ever.

## 4. Proofs

Eight modules hold theorems. `tlapm <Module>.tla` checks each one to the last
leaf. The theorems hold for every value of the constants that satisfies the named
assumptions of the modules (`ContextAssumption`, `AgentAssumption`,
`LLMAssumption`, `McpAssumption`, `SandboxAssumption`, `DispatchAssumption`,
`ExecutorAssumption`, `ToolCallsAssumption`, `ChunkingAssumption`,
`RagAssumption`): types of constants and, where the code needs it, that a batch
or a timeout is not zero. Two say more. `SandboxAssumption` takes the root for
canonical, without `..` and with no link on the way to it, which `resolve()` makes it
(config.py:194, sandbox.py:80). `ToolCallsAssumption` gives the objects that spans
may hold the shapes that `normalize_call` tells apart, and arguments that are words.

| theorem | states |
|---|---|
| `AgentLoop_proofs!TypeCorrect`, `WirePairing`, `SuffixKept`, `SpillsStayReadable` | `TypeOK`, `WireOK`, `KeptIsSuffix`, `SpillReadable` of `AgentLoop` |
| `Turns_proofs!AlwaysFitsOrMinimal`, `TaskStaysInView` | `FitsOrMinimal`, `TaskInView` of `AgentLoop` |
| `LLMClient_proofs!ClientTypeCorrect`, `RetriesAlwaysJustified`, `CallsLoggedOnce` | `TypeOK`, `RetriesJustified`, `LoggedOnce` |
| `McpClient_proofs!McpTypeCorrect`, `AnswersAreOurs`, `HandshakeAlwaysFirst` | `TypeOK`; `AnswerIsOurs` if `ServerIds` are apart from ours; `HandshakeFirst` if `CallerRetries` is FALSE |
| `Frontends_proofs!TraceAlwaysAccounts`, `RepliesAreTrue`, `FailuresAreShown` | `TraceAccounts` (which adds the open step and one in which something was raised), `ReplyTrue`, `FailureShown` |
| `Frontends_proofs!ContractKept`, `FrontendsDriveLoop` | the safety part of the refinement `ContractHolds`: the loop implements `RunContract!Safety`; under every front end it takes steps of `AgentLoop` only |
| `Scanner_proofs!SpansAlwaysApart`, `CallAlwaysFound`, `AlwaysBalances` | `SpansApart`, `CallFound`, `CloseBalances` for texts of any length |
| `ToolCalls_proofs!AlwaysApproved`, `ToldTheTruth`, `NeverLocal`, `SlowNeverLost`, `AlwaysOneAtATime` | `Approved`, `ToldTrue`, `NoLocalFallback`, `SlowIsNotLost`, `OneAtATime` |
| `ToolCalls_proofs!AlwaysTyped`, `RepairsAlwaysCounted` | `TypeOK`, `RepairsCounted` of `ToolCalls`, for any spans and objects |
| `ToolCalls_proofs!AlwaysConfined` | `Confined`, for any words of the forms it speaks of and any file system in which every link leads to something (`LinksLead`) |
| `Rag_proofs!ChunksBounded`, `NothingLost`, `NoFactCut` | `Bounded`, `Covered`, `FactsWhole` for every document, size and overlap |
| `Rag_proofs!RagTypeCorrect`, `VectorsAlwaysReady`, `IndexAlwaysWhole` | `TypeOK`, `VectorsReady`, `IndexWhole` for any threads, processes, batches and crashes; `IndexWhole` leaves out a collection that another process replaced |

### AgentLoop

`WireOK` is not inductive: it speaks of the moment of a model call, and says
nothing while a batch of calls is half executed or of the cut a compaction will
make. The invariant `IInv` adds

* `Fresh`: when the model is called, no tool of this iteration has run;
* the first message is the system prompt;
* `Paired`: every tool message answers the call it must (`Asked`), what follows a
  message with calls is its results in order (`Matched`), and no message has an
  unanswered call (`AnsweredAt`), except, in `tools`, the one in flight: its calls
  are those of the step, exactly `step.results` of them have been answered, and
  there is one left.

The heart of the argument is `RebuildPaired`: a cut point is the start of a turn,
hence a user message or the second message of the history, and no tool message
can be separated from its call by a cut at a user message, because everything
between a call and its last result is a tool message. Each action has a lemma
(`BeginRunKeeps`, ..., `RunToolKeeps`); the appends share `AppendPlain`,
`AppendCalls` and `AppendResult`. `SuffixKept` uses `Invariance`, a lemma for
appends and one for rebuilding (`SuffixAppend`, `SuffixRebuild`): what a
compaction keeps keeps its distance from the end. `SpillsStayReadable` rests on
`ReadableStays`: a later spill under the same name has the same id, hence the
same content.

`Turns_proofs` is about numbers of turns. That there is a turn with exactly `k`
turns from it to the end (`TurnFromTheEnd`) is found with the least number with a
property (`LeastNat`), which the library gives for sets. `FromRebuilt` and
`FromAppended` say how the turns after a given one are counted in a history that
was compacted or grew. `FitsOrMinimal` follows: a compaction cuts at the turn with
`keep_recent_turns` turns from it, so that no cut is left. For `TaskInView` the
invariant is `TaskNear`: from the task on there are at most one turn more than the
run has sent nudges, as long as these are fewer than the turns kept; a compaction
then keeps the task.

### Frontends

`RunInv` ties the counters of a run to its steps: `iter` is one more than the number
of steps, and `failures` is the streak of garbage at their end (`StreakAppend` says
what one more step makes of it). With it every action of the loop is a step of
`RunContract` or changes none of the variables it is mapped to (`ContractStep`).

`FrontInv` says what was executed: outside of a step that escaped, the results of
this run are the calls its steps asked for and those of the open step, a session of
one run has the records of its steps, and a reply that tells an answer tells the
run's own numbers. Calls are counted as a set of pairs of a
step and a position (`CallsIn`), which grows with a step that is appended. `FrontendsDriveLoop` is what lets
`AgentLoop_proofs!IInv` be used under a front end: a step of `Frontends` is one of
`AgentLoop` or leaves its variables alone.

### LLMClient, McpClient

`CallInv` adds to the three invariants what holds while a call is under way
(`UnderWay`): every attempt so far was worth another, one is left, and the log is
about earlier calls.

`ClientInv` says that messages are honest wherever they are, in a pipe, the inbox
or put back: each carries the id of the request it answers, or an id of the
server's own, and the request being waited for is known to the server it was sent
to and no other. Ids are never used twice, since `close()` does not reset the
counter; that is all that protects a new connection from the old one's leftovers.

### Scanner, ToolCalls

`HasRead(t, s)` relates the locals of the scanner to the text it has read; one
lemma (`FeedReads`) takes it across a character.

`CallFound` compares the scanner with `Balanced`, a recursive definition over
texts. That a recursive function satisfies its own equation is proved, not assumed:
`RecursionHolds` says that a definition whose calls are all on something smaller has
a solution, and the library's `CHOOSE` then picks one (`BalancedHolds`,
`EscapesHold`). `NatSet` is induction over the numbers in a set, so that no
operator has to be passed to a theorem. `ReadSoFar` gives the scanner a history, its
locals after every prefix. `Level(s, r)` says that the scanner got from `s` to `r`
and is back in the brackets it was in; it does so across a quoted string
(`QuotedPassed`), and by induction on its length across every text that `Balanced`
accepts (`BalancedPassed`). A whole object
therefore ends at depth 0 for the first time at its closing bracket, and spans that
were recorded stay recorded.

`CloseBalances` goes the other way, from a scanner to `Balanced`. `FoldRuns` unfolds
`FoldLeft` into a history of the repair's locals, one per character. Where a history
has no bracket closed out of turn (`Tidy`), all that lies between two places of the
same height, and not below it, is balanced (`AboveBalanced`, by induction on its
length: up to the first return to that height, and the rest). Appending the brackets that are due
continues the history until its height is 0, so it is this one lemma that shows the
text to be whole (`ReadyCloses`). What is dropped does not matter: a dangling comma
or key lies between two places of the same height, outside of strings (`KeyPassed`
reads the characters from the end backwards). `Follows` compares the repair with the
scan that found the text unclosed: the repair has as many more brackets open as were
closed out of turn, and if there are none at the end there never were (`RawTidy`).

`CallsInv` says where the current call is and what is known of those before it:
grants last (`GrantsLast`); an effect belongs to a call that was granted and, if
it is not over, is a command; a job's state says what it may still do
(`JobInv`: queued means untouched, running means spawned); a call's result says
what its job can be (`ResultInv`). Actions are grouped by what they do to this:
steps that only permit (`PermitStep`), end a call (`EndStep`), report a job
(`ReportStep`), start one (`LaunchStep`) or move one (`JobStep`).

`BatchInv` is about what waits: the calls are well-formed, no more than the bound
with the results, and if one of them differs from what the model was asked to write
in what a repair stands for, it says which repairs it took and `needing_repair` counts
them. `ParsedCall` takes the ways of `normalize_call` one by one; `FlattenTyped` says of what the parser's
concatenations consist. `StepKinds` reduces all other steps to what they do to the
calls: nothing, take the first, or drop all. `Bounds` adds the rest of `TypeOK`.

`Confined` needs to know where a path leads. `Walk` need not end, as links can
form a circle; `LastStepHolds` shows that a definition whose only call is its last
step has a solution all the same, so that `Walk` obeys its equation (`WalkHolds`).
From there `WalkToRoot`: below a canonical root, a path leads to the root first.
`LetThrough` is the argument for the one case in which the sandbox checks nothing, a
word that does not look like a path: it is a lone name, so it leads to a name in the
root, or through a link to something that exists, and then it does look like a path.
`WordOpened` and `ServerOpened` say what is opened for a word; that what is opened was
checked is `WordsSecured`, for the forms in which `EmbeddedPaths` is the path meant.
The invariant `Confinement` adds that nothing of the initial file system goes away
and that a job keeps the arguments it was posted with, which are checked only when
the node gets to it.

### Chunking, Rag

`FactsPassed` is the loop invariant: every short fact that begins before `pos` is
whole in a chunk. It is kept because a window ends after its last third begins and
at most `size` after its start (`WindowBounds`), and the next one begins an
overlap before that end or one character further than this one.

`RagInv` says that who builds has the lock and no index, that who asks has the
index, and which keys are in memory or still on the list at each place.
`Keeps(w)` is what a step of a thread leaves alone; `StepKeeps` shows once that the
invariant of all other threads and processes survives it, so that the lemma of
an action is only about its own thread.

### Only model-checked

* Liveness: `RunEnds`, `CallEnds`, `RequestEnds`, `BatchEnds`,
  `SplitEnds`, `SearchEnds`. The prover does not handle fairness.
* The liveness part of the refinement `ContractHolds`, for the same reason.

Every invariant that a passing run checks is stated by a theorem. `CollectionServes`
and the properties of the other violated runs are of no theorem, as they do not hold.

## 5. Not modelled

`PROJECT.json` lists the components with their status. What is left out:

* **Texts.** JSON, fences, markers, prompts, hints, tracebacks, what files
  hold (windows of lines, matches, listings), the wording of problems.
* **Tokens.** A message has a cost; estimation, the exact counter with its cache
  and `compare_strategies` are left out. `trim_tool_result` is a cost, too.
* **Ranking.** Embeddings are what they are the embeddings of. Filters, headings
  and the Chroma client are left out; a Chroma store counts as one in the process.
* **Evaluation, scripts, configuration.** They measure or load; no state of theirs
  is read by the parts above.
* **Timings and tokens** in traces and replies, and what the front ends print
  besides answers, failures and summaries. Requests beside each other share the
  project tree, and `STATS`, which nothing of the server reads.
* **Undefined file-system changes.** Links that change between the check and the
  use; programs that `bash` runs and what they do to files.

Behaviours of the code that a reader should know of and no property covers:

* with `max_iterations` of 0 or less the exhaustion message reads `steps[-1]` of an
  empty list (agent.py:293); `LoopExhausted` lets that escape, but no run of TLC has
  such a limit;
* with a limit of 0, the tail slice `content[-limit // 2:]` of `trim_tool_result` is
  the whole result (context.py:399);
* cli.py:120 says "a failed run still gets its trace summary": for an
  `AgentFailure` that is the line for the terminal, without the JSON record that an
  answer gets; for an `LLMError` there is none (cli.py:127-129). The REPL never shows
  one, and its runs share a tracer and a `run_id`;
* `LLMError` leaves the server's `run` and becomes a status 500; without a key the
  server starts and answers each request with 503 (server.py:58-59);
* a step in which a tool raises is not traced, nor are the tools of the same step that
  ran before it (agent.py:281-289), which `TraceAccounts` leaves out;
* the advice for a file over the size limit, to read a part of it, cannot be
  followed, as the size is checked before the part is looked at (tools/fs.py:66-71);
* the OpenAI SDK retries inside each attempt (llm.py:293);
* `_await_response` takes a message of the server's own with our id for the
  answer, raises on a JSON line that is not an object, keeps skipped messages for
  ever, and writes without a timeout (mcp/client.py:221-262);
* the trailing-comma repair also changes strings that look like it, a list as
  arguments runs the tool with none, an `"action"` span that does not parse is not
  reported, and lone names are not checked by `confine_paths` unless they exist;
* a batch that fails loses the embeddings of those before it when the process
  ends, since the cache is saved at the end (rag/embed.py:113-131);
* `ensure_fits` returns True, and the step is traced as compacted, when it dropped
  nothing (context.py:286, `AgentLoop!CannotFit`);
* a run leaves `Agent.run` with an exception of its own for an unknown strategy
  (context.py:265), for a `TypeError` of `literal_eval` (parsing.py:277) and for
  native arguments that `dict()` refuses (registry.py:82);
* a cache file that is torn or overwritten by another process costs embedding again,
  and nothing else (rag/embed.py:99-111);
* `Chunk.start` is an offset in the stripped text, not "in the original"
  (rag/chunking.py:79);
* an overlap below 0 skips text, and one above two thirds of the size can cut
  facts.

## 6. Plan

Built: everything in the table of section 2. What could follow, in this order:

1. `trim_tool_result`'s slices and `read_file`'s window of lines over small numbers,
   and a run of `AgentLoop` with `max_iterations` of 0.
2. `ToolCalls` as the detailed form of `AgentLoop`'s `RunTool`, by a refinement
   that forgets all but the number of results and the way a batch ends.
3. `count_tokens` and the exact counter with its cache. No part of the program turns
   the exact mode on.
