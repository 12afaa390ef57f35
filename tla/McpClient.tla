----------------------------- MODULE McpClient -----------------------------
(***************************************************************************)
(* MCPStdioClient (mcp/client.py): JSON-RPC over the pipes of a spawned    *)
(* server.  One thread makes requests, one at a time; a reader thread per  *)
(* server moves what the server writes into one inbox, which outlives the  *)
(* server: close() and a later connect() keep the inbox and the id         *)
(* counter.  The servers are external: they answer late, out of order, with*)
(* errors or never, they send messages of their own, and they die.         *)
(***************************************************************************)
EXTENDS Integers, Sequences, SequencesExt

CONSTANTS
    Timeout,        \* self.timeout, in ticks of the clock
    ServerIds,      \* the ids servers put on requests of their own
    CallerRetries,  \* whether a caller goes on after connect() raised
    MaxServers,     \* bound: servers spawned
    MaxRequests,    \* bound: requests made
    MaxNoise        \* bound: messages servers send unasked

ASSUME McpAssumption ==
    /\ Timeout \in Nat \ {0}
    /\ ServerIds \subseteq Nat \ {0}
    /\ CallerRetries \in BOOLEAN
    /\ MaxServers \in Nat \ {0}
    /\ MaxRequests \in Nat
    /\ MaxNoise \in Nat

VARIABLES
    proc,       \* _proc: which server, or 0 for None
    spawned,    \* how many servers were spawned
    id,         \* _id
    inbox,      \* _inbox
    pc,         \* "idle", or "waiting" in _await_response
    method,     \* of the request being waited for
    skipped,    \* deadline_msgs
    quiet,      \* ticks since this get() began
    waited,     \* ticks since this request was sent
    usable,     \* the last connect() returned
    last,       \* how the last request ended
    server,     \* each server and its pipes
    noise       \* messages sent unasked so far

client == <<proc, spawned, id, pc, method, skipped, quiet, waited, usable, last>>
vars == <<client, inbox, server, noise>>

Servers == 1..MaxServers

\* A line a server wrote: the id it carries (0: none, a notification), the
\* request it answers (0: none), whether it is an error, and its writer.
Message == [id: Nat, answers: Nat, error: BOOLEAN, from: Servers]

\* What is known of a server: it runs, it was told "initialized", the requests
\* it has read or will read, and what is in its stdout pipe.
Server == [alive: BOOLEAN, ready: BOOLEAN,
           requests: SUBSET (1..MaxRequests), out: Seq(Message)]

NewServer == [alive |-> TRUE, ready |-> FALSE, requests |-> {}, out |-> <<>>]

NoMessage == [id |-> 0, answers |-> 0, error |-> FALSE, from |-> 1]

Ends == {"none", "result", "error", "timeout", "unsent"}

TypeOK ==
    /\ proc \in 0..MaxServers
    /\ spawned \in 0..MaxServers
    /\ id \in 0..MaxRequests
    /\ inbox \in Seq(Message)
    /\ pc \in {"idle", "waiting"}
    /\ method \in {"initialize", "call"}
    /\ skipped \in Seq(Message)
    /\ quiet \in 0..Timeout
    /\ waited \in Nat
    /\ usable \in BOOLEAN
    /\ last \in [end: Ends, id: 0..MaxRequests, from: 0..MaxServers, got: Message]
    /\ server \in [Servers -> Server]
    /\ noise \in 0..MaxNoise

Init ==
    /\ proc = 0
    /\ spawned = 0
    /\ id = 0
    /\ inbox = <<>>
    /\ pc = "idle"
    /\ method = "call"
    /\ skipped = <<>>
    /\ quiet = 0
    /\ waited = 0
    /\ usable = FALSE
    /\ last = [end |-> "none", id |-> 0, from |-> 0, got |-> NoMessage]
    /\ server = [s \in Servers |-> [NewServer EXCEPT !.alive = FALSE]]
    /\ noise = 0

-----------------------------------------------------------------------------
(***************************************************************************)
(* The thread that makes requests.                                         *)
(***************************************************************************)

\* Mutant: connect() starts the ids again.
NextIdPerServer == IF proc = 0 THEN 1 ELSE id + 1

\* _next_id: the counter is the client's, not the connection's.
NextId == id + 1

\* _send and the first get() of _await_response, to server s in the state
\* `servers` describes.  A dead server's pipe is broken and nothing is sent.
Request(m, s, servers) ==
    /\ id < MaxRequests
    /\ id' = NextId
    /\ method' = m
    /\ IF s # 0 /\ servers[s].alive
       THEN /\ server' = [servers EXCEPT ![s].requests = @ \union {NextId}]
            /\ pc' = "waiting"
            /\ skipped' = <<>>
            /\ quiet' = 0
            /\ waited' = 0
            /\ UNCHANGED last
       ELSE /\ server' = servers
            /\ last' = [end |-> "unsent", id |-> NextId, from |-> s,
                        got |-> NoMessage]
            /\ UNCHANGED <<pc, skipped, quiet, waited>>

\* connect() spawns a server, starts its reader and sends "initialize".
Connect ==
    /\ pc = "idle"
    /\ proc = 0
    /\ spawned < MaxServers
    /\ spawned' = spawned + 1
    /\ proc' = spawned'
    /\ usable' = FALSE
    /\ Request("initialize", proc', [server EXCEPT ![proc'] = NewServer])
    /\ UNCHANGED <<inbox, noise>>

\* connect() does not find the server's program: MCPError, and no process.
ConnectFails ==
    /\ pc = "idle"
    /\ proc = 0
    /\ usable' = FALSE
    /\ UNCHANGED <<proc, spawned, id, pc, method, skipped, quiet, waited, last,
                   inbox, server, noise>>

\* connect() on a client that has a process returns at once.
ConnectAgain ==
    /\ pc = "idle"
    /\ proc # 0
    /\ usable \/ CallerRetries
    /\ usable' = TRUE
    /\ UNCHANGED <<proc, spawned, id, pc, method, skipped, quiet, waited, last,
                   inbox, server, noise>>

\* list_tools() or call_tool(), by a caller whose connect() returned.
Call ==
    /\ pc = "idle"
    /\ usable
    /\ Request("call", proc, server)
    /\ UNCHANGED <<proc, spawned, usable, inbox, noise>>

\* close(): the server is terminated, its pipe is left to its reader.  The
\* tools made from the client stay registered and may still be called.
Close ==
    /\ pc = "idle"
    /\ proc # 0
    /\ proc' = 0
    /\ server' = [server EXCEPT ![proc].alive = FALSE]
    /\ UNCHANGED <<spawned, id, pc, method, skipped, quiet, waited, usable, last,
                   inbox, noise>>

\* _await_response ends: what was skipped goes back to the end of the inbox.
Finish(end, got, rest) ==
    /\ pc' = "idle"
    /\ inbox' = rest \o skipped
    /\ skipped' = <<>>
    /\ quiet' = 0
    /\ waited' = 0
    /\ last' = [end |-> end, id |-> id, from |-> proc, got |-> got]
    /\ UNCHANGED <<proc, spawned, id, method, noise>>

Waiting == pc = "waiting"

\* get() returned something that is not the answer.
Skip ==
    /\ Waiting
    /\ inbox # <<>>
    /\ Head(inbox).id # id
    /\ skipped' = Append(skipped, Head(inbox))
    /\ inbox' = Tail(inbox)
    /\ quiet' = 0
    /\ UNCHANGED <<proc, spawned, id, pc, method, waited, usable, last, server,
                   noise>>

\* Mutant: the handshake ends without notifications/initialized.
TakeResultUntold ==
    /\ Waiting
    /\ inbox # <<>>
    /\ Head(inbox).id = id
    /\ ~Head(inbox).error
    /\ Finish("result", Head(inbox), Tail(inbox))
    /\ usable' = (usable \/ method = "initialize")
    /\ UNCHANGED server

\* get() returned the answer.  _handshake goes on to notify the server, which
\* fails if the server has died.
TakeResult ==
    /\ Waiting
    /\ inbox # <<>>
    /\ Head(inbox).id = id
    /\ ~Head(inbox).error
    /\ Finish("result", Head(inbox), Tail(inbox))
    /\ IF method = "initialize"
       THEN LET told == server[proc].alive
            IN  /\ usable' = told
                /\ server' = [server EXCEPT ![proc].ready = told]
       ELSE UNCHANGED <<usable, server>>

\* The answer is an error: MCPError.
TakeError ==
    /\ Waiting
    /\ inbox # <<>>
    /\ Head(inbox).id = id
    /\ Head(inbox).error
    /\ Finish("error", Head(inbox), Tail(inbox))
    /\ UNCHANGED <<usable, server>>

\* Mutant: get() is given no timeout.
TickUncounted ==
    /\ Waiting
    /\ inbox = <<>>
    /\ UNCHANGED vars

\* Mutant: off by one, the timeout passes and get() still waits.
TickTooLong ==
    /\ Waiting
    /\ inbox = <<>>
    /\ quiet <= Timeout
    /\ quiet' = quiet + 1
    /\ waited' = waited + 1
    /\ UNCHANGED <<proc, spawned, id, pc, method, skipped, usable, last, inbox,
                   server, noise>>

\* Time passes while get() has nothing to return.
Tick ==
    /\ Waiting
    /\ inbox = <<>>
    /\ quiet < Timeout
    /\ quiet' = quiet + 1
    /\ waited' = waited + 1
    /\ UNCHANGED <<proc, spawned, id, pc, method, skipped, usable, last, inbox,
                   server, noise>>

\* get() raises queue.Empty: MCPError.
GiveUp ==
    /\ Waiting
    /\ inbox = <<>>
    /\ quiet = Timeout
    /\ Finish("timeout", NoMessage, <<>>)
    /\ UNCHANGED <<usable, server>>

-----------------------------------------------------------------------------
(***************************************************************************)
(* Reader threads and servers.                                             *)
(***************************************************************************)

\* The reader of server s moves a line to the inbox, even when s is closed.
Pump(s) ==
    /\ server[s].out # <<>>
    /\ inbox' = Append(inbox, Head(server[s].out))
    /\ server' = [server EXCEPT ![s].out = Tail(@)]
    /\ UNCHANGED <<client, noise>>

Write(s, m) ==
    /\ server[s].alive
    /\ server' = [server EXCEPT ![s].out = Append(@, m),
                                ![s].requests = @ \ {m.answers}]

\* The server answers one of its requests, not always the oldest.
Respond(s) ==
    /\ \E r \in server[s].requests, e \in BOOLEAN :
        Write(s, [id |-> r, answers |-> r, error |-> e, from |-> s])
    /\ UNCHANGED <<client, inbox, noise>>

\* The server sends a notification or a request of its own.
Chatter(s) ==
    /\ noise < MaxNoise
    /\ noise' = noise + 1
    /\ \E i \in {0} \union ServerIds :
        Write(s, [id |-> i, answers |-> 0, error |-> FALSE, from |-> s])
    /\ UNCHANGED <<client, inbox>>

\* The server dies: nobody is told before the next write to it.
Die(s) ==
    /\ server[s].alive
    /\ server' = [server EXCEPT ![s].alive = FALSE]
    /\ UNCHANGED <<client, inbox, noise>>

Wait == Skip \/ TakeResult \/ TakeError \/ Tick \/ GiveUp

\* A caller may make no further call.
Rest == pc = "idle" /\ UNCHANGED vars

Next ==
    \/ Connect \/ ConnectFails \/ ConnectAgain \/ Call \/ Close \/ Wait \/ Rest
    \/ \E s \in Servers : Pump(s) \/ Respond(s) \/ Chatter(s) \/ Die(s)

\* The waiting thread runs and time passes.  Servers owe nothing.
Spec == Init /\ [][Next]_vars /\ WF_vars(Wait)

-----------------------------------------------------------------------------
(***************************************************************************)
(* Properties.                                                             *)
(***************************************************************************)

\* A request is answered with the answer to that request, from the server it
\* was sent to: never with a late answer to a request that timed out, nor with
\* what a closed server still had in its pipe (client.py:80-85, 155-171,
\* 236-263).  Servers number their own requests apart from ours.
AnswerIsOurs ==
    last.end \in {"result", "error"} =>
        /\ last.got.answers = last.id
        /\ last.got.from = last.from

\* No tool is listed or called on a server before it was told "initialized"
\* (client.py:18-23).
HandshakeFirst ==
    pc = "waiting" /\ method = "call" => server[proc].ready

\* A request ends, however the server behaves, once servers fall silent
\* (client.py:241-248).
RequestEnds == pc = "waiting" ~> pc = "idle"

\* A request is given up when its answer does not come within the timeout.
\* The code restarts the timeout at every message it skips.
DeadlineKept == waited <= Timeout
=============================================================================
