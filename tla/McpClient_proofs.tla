-------------------------- MODULE McpClient_proofs --------------------------
(***************************************************************************)
(* Proofs about MCPStdioClient (mcp/client.py), for every timeout, number  *)
(* of servers and requests, and servers that do what they like.  An answer *)
(* carries the id of what it answers, wherever it is: in a pipe, in the    *)
(* inbox or skipped.  Ids are never used twice, so that the only server    *)
(* that can answer the request being waited for is the one it was sent to. *)
(***************************************************************************)
EXTENDS McpClient, TLAPS

\* A message, wherever it is: an answer to a request that was made, under its
\* id, or one of the server's own.
Honest(m) ==
    /\ m.answers \in 0..id
    /\ m.answers = 0 => m.id = 0 \/ m.id \in ServerIds
    /\ m.answers # 0 => m.id = m.answers
    /\ pc = "waiting" /\ m.answers = id => m.from = proc

\* A server only knows requests that were made, and only the one it was sent to
\* knows the one being waited for.
Known(s) ==
    /\ \A r \in server[s].requests : r \in 1..id /\ (pc = "waiting" /\ r = id => s = proc)
    /\ \A i \in DOMAIN server[s].out :
        Honest(server[s].out[i]) /\ server[s].out[i].from = s

MessagesHonest ==
    /\ \A i \in DOMAIN inbox : Honest(inbox[i])
    /\ \A i \in DOMAIN skipped : Honest(skipped[i])
    /\ \A s \in Servers : Known(s)

\* Where the thread is.
WaitState ==
    /\ proc <= spawned
    /\ pc = "waiting" => id # 0 /\ proc # 0

ClientInv == TypeOK /\ WaitState /\ MessagesHonest

\* The part of the handshake: who may be called was told "initialized".
Handshaken ==
    /\ usable /\ proc # 0 => server[proc].ready
    /\ HandshakeFirst

-----------------------------------------------------------------------------
(***************************************************************************)
(* Types.                                                                  *)
(***************************************************************************)

LEMMA HeadTail ==
    ASSUME NEW S, NEW q \in Seq(S), q # <<>>
    PROVE  /\ Head(q) \in S /\ Tail(q) \in Seq(S)
           /\ Head(q) = q[1] /\ 1 \in DOMAIN q
           /\ \A i \in DOMAIN Tail(q) : i + 1 \in DOMAIN q /\ Tail(q)[i] = q[i + 1]
OBVIOUS

LEMMA NothingIsMessage == NoMessage \in Message
  BY McpAssumption DEF NoMessage, Message, Servers

LEMMA ServerFields ==
    ASSUME NEW v \in Server
    PROVE  /\ \A b \in BOOLEAN : /\ [v EXCEPT !.alive = b] \in Server
                                 /\ [v EXCEPT !.ready = b] \in Server
           /\ \A q \in Seq(Message) : [v EXCEPT !.out = q] \in Server
           /\ \A q \in Seq(Message), R \in SUBSET (1..MaxRequests) :
                  [v EXCEPT !.out = q, !.requests = R] \in Server
BY DEF Server

\* _send and the first get(), from any state of the servers.
LEMMA RequestTypes ==
    ASSUME TypeOK, NEW m \in {"initialize", "call"}, NEW s \in 0..MaxServers,
           NEW servers \in [Servers -> Server], Request(m, s, servers)
    PROVE  /\ id' = id + 1 /\ id' \in 0..MaxRequests /\ method' \in {"initialize", "call"}
           /\ pc' \in {"idle", "waiting"} /\ skipped' \in Seq(Message)
           /\ quiet' \in 0..Timeout /\ waited' \in Nat
           /\ server' \in [Servers -> Server]
           /\ last' \in [end: Ends, id: 0..MaxRequests, from: 0..MaxServers, got: Message]
PROOF
<1>1. id' = id + 1 /\ id' \in 1..MaxRequests /\ method' = m
  BY McpAssumption DEF Request, NextId, TypeOK
<1>2. CASE s # 0 /\ servers[s].alive
  <2>1. /\ server' = [servers EXCEPT ![s].requests = @ \union {NextId}]
        /\ pc' = "waiting" /\ skipped' = <<>> /\ quiet' = 0 /\ waited' = 0 /\ last' = last
    BY <1>2 DEF Request
  <2>2. s \in Servers /\ servers[s] \in Server /\ NextId \in 1..MaxRequests
    BY <1>1, <1>2, McpAssumption DEF Servers, NextId, Request
  <2>3. server' \in [Servers -> Server]
    BY <2>1, <2>2 DEF Server
  <2>. QED
    BY <1>1, <2>1, <2>3, McpAssumption DEF TypeOK
<1>3. CASE ~(s # 0 /\ servers[s].alive)
  <2>1. /\ server' = servers /\ pc' = pc /\ skipped' = skipped /\ quiet' = quiet
        /\ waited' = waited
        /\ last' = [end |-> "unsent", id |-> NextId, from |-> s, got |-> NoMessage]
    BY <1>3 DEF Request
  <2>. QED
    BY <1>1, <2>1, NothingIsMessage, McpAssumption DEF TypeOK, NextId, Ends
<1>. QED
  BY <1>2, <1>3

LEMMA TypesInitially == Init => TypeOK
PROOF
<1>. SUFFICES ASSUME Init PROVE TypeOK
  OBVIOUS
<1>1. server \in [Servers -> Server]
  <2>1. [NewServer EXCEPT !.alive = FALSE] \in Server
    <3>1. NewServer \in Server
      BY DEF Server, NewServer
    <3>. QED
      BY <3>1, ServerFields
  <2>. QED
    BY <2>1 DEF Init
<1>2. last \in [end: Ends, id: 0..MaxRequests, from: 0..MaxServers, got: Message]
  BY NothingIsMessage, McpAssumption DEF Init, Ends
<1>3. inbox \in Seq(Message) /\ skipped \in Seq(Message)
  BY DEF Init
<1>4. /\ proc \in 0..MaxServers /\ spawned \in 0..MaxServers /\ id \in 0..MaxRequests
      /\ pc \in {"idle", "waiting"} /\ method \in {"initialize", "call"}
      /\ quiet \in 0..Timeout /\ waited \in Nat /\ usable \in BOOLEAN
      /\ noise \in 0..MaxNoise
  <2>1. /\ proc = 0 /\ spawned = 0 /\ id = 0 /\ pc = "idle" /\ method = "call"
        /\ quiet = 0 /\ waited = 0 /\ noise = 0
    BY DEF Init
  <2>2. usable \in BOOLEAN
    BY DEF Init
  <2>. QED
    BY <2>1, <2>2, McpAssumption
<1>. QED
  BY <1>1, <1>2, <1>3, <1>4 DEF TypeOK

\* What Finish leaves.
LEMMA FinishTypes ==
    ASSUME TypeOK, NEW end \in Ends, NEW got \in Message, NEW rest \in Seq(Message),
           Finish(end, got, rest)
    PROVE  /\ UNCHANGED <<proc, spawned, id, method, noise>>
           /\ pc' = "idle" /\ inbox' \in Seq(Message) /\ skipped' \in Seq(Message)
           /\ quiet' \in 0..Timeout /\ waited' \in Nat
           /\ last' \in [end: Ends, id: 0..MaxRequests, from: 0..MaxServers, got: Message]
BY McpAssumption DEF Finish, TypeOK

\* The steps of the thread that makes requests.
LEMMA ThreadTypes ==
    ASSUME TypeOK, WaitState, Connect \/ ConnectFails \/ ConnectAgain \/ Call \/ Close \/ Wait \/ Rest
    PROVE  TypeOK'
PROOF
<1>1. CASE Connect
  <2>1. /\ spawned' \in 1..MaxServers /\ proc' = spawned' /\ usable' = FALSE
        /\ inbox' = inbox /\ noise' = noise
    BY <1>1, McpAssumption DEF Connect, TypeOK
  <2>2. [server EXCEPT ![proc'] = NewServer] \in [Servers -> Server]
    BY <2>1 DEF TypeOK, NewServer, Server, Servers
  <2>3. Request("initialize", proc', [server EXCEPT ![proc'] = NewServer])
    BY <1>1 DEF Connect
  <2>4. proc' \in 0..MaxServers
    BY <2>1, McpAssumption
  <2>. QED
    BY <2>1, <2>2, <2>3, <2>4, RequestTypes DEF TypeOK
<1>2. CASE ConnectFails \/ ConnectAgain
  BY <1>2 DEF ConnectFails, ConnectAgain, TypeOK
<1>3. CASE Call
  BY <1>3, RequestTypes DEF Call, TypeOK
<1>4. CASE Close
  <2>1. proc \in Servers /\ server[proc] \in Server
    BY <1>4, McpAssumption DEF Close, TypeOK, Servers
  <2>2. server' = [server EXCEPT ![proc] = [server[proc] EXCEPT !.alive = FALSE]]
    BY <1>4 DEF Close
  <2>3. server' \in [Servers -> Server]
    BY <2>1, <2>2, ServerFields DEF TypeOK
  <2>. QED
    BY <1>4, <2>3, McpAssumption DEF Close, TypeOK
<1>5. CASE Skip
  BY <1>5, HeadTail, McpAssumption DEF Skip, TypeOK
<1>6. CASE TakeResult
  <2>1. Head(inbox) \in Message /\ Tail(inbox) \in Seq(Message)
    BY <1>6, HeadTail DEF TakeResult, TypeOK
  <2>2. Finish("result", Head(inbox), Tail(inbox)) /\ "result" \in Ends
    BY <1>6 DEF TakeResult, Ends
  <2>3. server' \in [Servers -> Server] /\ usable' \in BOOLEAN
    <3>1. proc \in Servers /\ server[proc] \in Server /\ server[proc].alive \in BOOLEAN
      BY <1>6, McpAssumption DEF TakeResult, Waiting, WaitState, TypeOK, Server, Servers
    <3>2. CASE method = "initialize"
      <4>1. /\ server' = [server EXCEPT ![proc] =
                             [server[proc] EXCEPT !.ready = server[proc].alive]]
            /\ usable' = server[proc].alive
        BY <1>6, <3>2 DEF TakeResult
      <4>. QED
        BY <3>1, <4>1, ServerFields DEF TypeOK
    <3>3. CASE method # "initialize"
      BY <1>6, <3>3 DEF TakeResult, TypeOK
    <3>. QED
      BY <3>2, <3>3
  <2>. QED
    BY <2>1, <2>2, <2>3, FinishTypes DEF TypeOK
<1>7. CASE TakeError
  <2>1. Head(inbox) \in Message /\ Tail(inbox) \in Seq(Message)
    BY <1>7, HeadTail DEF TakeError, TypeOK
  <2>2. /\ Finish("error", Head(inbox), Tail(inbox)) /\ "error" \in Ends
        /\ UNCHANGED <<usable, server>>
    BY <1>7 DEF TakeError, Ends
  <2>. QED
    BY <2>1, <2>2, FinishTypes DEF TypeOK
<1>8. CASE Tick
  BY <1>8, McpAssumption DEF Tick, TypeOK
<1>9. CASE GiveUp
  <2>1. /\ Finish("timeout", NoMessage, <<>>) /\ "timeout" \in Ends
        /\ UNCHANGED <<usable, server>> /\ <<>> \in Seq(Message)
    BY <1>9 DEF GiveUp, Ends
  <2>. QED
    BY <2>1, NothingIsMessage, FinishTypes DEF TypeOK
<1>10. CASE Rest
  BY <1>10 DEF Rest, vars, client, TypeOK
<1>. QED
  BY <1>1, <1>2, <1>3, <1>4, <1>5, <1>6, <1>7, <1>8, <1>9, <1>10 DEF Wait

\* A server writes a line.
LEMMA WriteTypes ==
    ASSUME TypeOK, NEW s \in Servers, NEW m \in Message, Write(s, m)
    PROVE  server' \in [Servers -> Server]
PROOF
<1>1. /\ server[s] \in Server
      /\ Append(server[s].out, m) \in Seq(Message)
      /\ server[s].requests \ {m.answers} \in SUBSET (1..MaxRequests)
  BY DEF TypeOK, Server
<1>2. server' = [server EXCEPT ![s] =
           [server[s] EXCEPT !.out = Append(server[s].out, m),
                             !.requests = server[s].requests \ {m.answers}]]
  BY DEF Write, TypeOK
<1>3. [server[s] EXCEPT !.out = Append(server[s].out, m),
                        !.requests = server[s].requests \ {m.answers}] \in Server
  BY <1>1, ServerFields
<1>. QED
  BY <1>2, <1>3 DEF TypeOK

\* The steps of a server and its reader.
LEMMA ServerTypes ==
    ASSUME TypeOK, NEW s \in Servers, Pump(s) \/ Respond(s) \/ Chatter(s) \/ Die(s)
    PROVE  TypeOK'
PROOF
<1>0. server[s] \in Server
  BY DEF TypeOK
<1>1. CASE Pump(s)
  <2>1. Head(server[s].out) \in Message /\ Tail(server[s].out) \in Seq(Message)
    BY <1>0, <1>1, HeadTail DEF Pump, Server
  <2>2. /\ server' = [server EXCEPT ![s] = [server[s] EXCEPT !.out = Tail(server[s].out)]]
        /\ inbox' = Append(inbox, Head(server[s].out))
        /\ UNCHANGED <<client, noise>>
    BY <1>1 DEF Pump
  <2>3. server' \in [Servers -> Server] /\ inbox' \in Seq(Message)
    <3>1. [server[s] EXCEPT !.out = Tail(server[s].out)] \in Server
      BY <1>0, <2>1, ServerFields
    <3>. QED
      BY <2>1, <2>2, <3>1 DEF TypeOK
  <2>. QED
    BY <2>2, <2>3 DEF client, TypeOK
<1>2. CASE Respond(s)
  <2>1. PICK r \in server[s].requests, e \in BOOLEAN :
           Write(s, [id |-> r, answers |-> r, error |-> e, from |-> s])
    BY <1>2 DEF Respond
  <2>2. [id |-> r, answers |-> r, error |-> e, from |-> s] \in Message
    BY <1>0, <2>1, McpAssumption DEF Server, Message
  <2>. QED
    BY <1>2, <2>1, <2>2, WriteTypes DEF Respond, client, TypeOK
<1>3. CASE Chatter(s)
  <2>1. PICK i \in {0} \union ServerIds :
           Write(s, [id |-> i, answers |-> 0, error |-> FALSE, from |-> s])
    BY <1>3 DEF Chatter
  <2>2. [id |-> i, answers |-> 0, error |-> FALSE, from |-> s] \in Message
    BY <2>1, McpAssumption DEF Message
  <2>3. noise' \in 0..MaxNoise
    BY <1>3, McpAssumption DEF Chatter, TypeOK
  <2>. QED
    BY <1>3, <2>1, <2>2, <2>3, WriteTypes DEF Chatter, client, TypeOK
<1>4. CASE Die(s)
  BY <1>4 DEF Die, client, TypeOK, Server
<1>. QED
  BY <1>1, <1>2, <1>3, <1>4

-----------------------------------------------------------------------------
(***************************************************************************)
(* Messages carry the id of what they answer, and only the server a        *)
(* request was sent to answers it.                                         *)
(***************************************************************************)

\* What an honest message must stay true of when the thread goes on: as long
\* as no request is newly waited for.
LEMMA HonestStays ==
    ASSUME NEW m, Honest(m), UNCHANGED <<id, proc>>, pc' = "waiting" => pc = "waiting"
    PROVE  Honest(m)'
BY DEF Honest

\* Nothing answers a request that was just made.
LEMMA HonestWhenAsked ==
    ASSUME TypeOK, NEW m, Honest(m), id' = id + 1
    PROVE  Honest(m)'
BY McpAssumption DEF Honest, TypeOK

\* A request is sent to server s, in the state `servers` describes.
LEMMA RequestHonest ==
    ASSUME TypeOK, MessagesHonest, pc = "idle", NEW m \in {"initialize", "call"},
           NEW s \in 0..MaxServers, s = proc', inbox' = inbox,
           NEW servers \in [Servers -> Server],
           \A t \in Servers : /\ servers[t].requests \subseteq server[t].requests
                              /\ servers[t].out = server[t].out \/ servers[t].out = <<>>,
           Request(m, s, servers)
    PROVE  MessagesHonest'
PROOF
<1>1. id' = id + 1 /\ id \in Nat
  BY DEF Request, NextId, TypeOK
<1>2. \A x : Honest(x) => Honest(x)'
  BY <1>1, HonestWhenAsked
<1>3. (\A i \in DOMAIN skipped : Honest(skipped[i]))'
  <2>1. skipped' = skipped \/ skipped' = <<>>
    BY DEF Request
  <2>. QED
    BY <1>2, <2>1 DEF MessagesHonest
<1>4. ASSUME NEW t \in Servers
      PROVE  Known(t)'
  <2>1. servers[t] \in Server
    OBVIOUS
  <2>2. /\ server'[t].out = servers[t].out
        /\ \A r \in server'[t].requests : r \in servers[t].requests \/ (r = id' /\ t = s)
    BY <1>1, <2>1 DEF Request, NextId, Server
  <2>3. \A r \in server[t].requests : r \in 1..id
    BY DEF MessagesHonest, Known
  <2>4. \A r \in server'[t].requests : r \in 1..id' /\ (r = id' => t = proc')
    BY <1>1, <2>2, <2>3
  <2>5. (\A i \in DOMAIN server[t].out :
             Honest(server[t].out[i]) /\ server[t].out[i].from = t)'
    <3>1. CASE server'[t].out = server[t].out
      BY <1>2, <3>1 DEF MessagesHonest, Known
    <3>2. CASE server'[t].out = <<>>
      BY <3>2
    <3>. QED
      BY <2>2, <3>1, <3>2
  <2>6. (\A r \in server[t].requests : r \in 1..id /\ (pc = "waiting" /\ r = id => t = proc))'
    BY <2>4
  <2>. QED
    BY <2>5, <2>6 DEF Known
<1>. QED
  BY <1>2, <1>3, <1>4 DEF MessagesHonest

\* A wait that ends leaves honest messages, whatever else it does to servers
\* than touching their requests and pipes.
LEMMA FinishHonest ==
    ASSUME TypeOK, MessagesHonest, NEW end, NEW got, NEW rest \in Seq(Message),
           \A i \in DOMAIN rest : Honest(rest[i]),
           Finish(end, got, rest),
           \A s \in Servers : /\ server'[s].requests = server[s].requests
                              /\ server'[s].out = server[s].out
    PROVE  MessagesHonest'
PROOF
<1>1. /\ pc' = "idle" /\ id' = id /\ proc' = proc
      /\ inbox' = rest \o skipped /\ skipped' = <<>>
      /\ skipped \in Seq(Message)
  BY DEF Finish, TypeOK
<1>2. \A x : Honest(x) => Honest(x)'
  BY <1>1, HonestStays
<1>3. \A i \in DOMAIN inbox' : Honest(inbox'[i])
  BY <1>1 DEF MessagesHonest
<1>4. ASSUME NEW s \in Servers PROVE Known(s)'
  BY <1>1, <1>2 DEF MessagesHonest, Known
<1>. QED
  BY <1>1, <1>2, <1>3, <1>4 DEF MessagesHonest

LEMMA ThreadHonest ==
    ASSUME ClientInv, Connect \/ ConnectFails \/ ConnectAgain \/ Call \/ Close \/ Wait \/ Rest
    PROVE  MessagesHonest' /\ WaitState'
PROOF
<1>. USE DEF ClientInv
<1>1. CASE Connect
  <2>1. /\ spawned' = spawned + 1 /\ spawned' \in 1..MaxServers /\ proc' = spawned'
        /\ inbox' = inbox /\ pc = "idle"
    BY <1>1, McpAssumption DEF Connect, TypeOK
  <2> DEFINE servers == [server EXCEPT ![proc'] = NewServer]
  <2>2. servers \in [Servers -> Server]
    BY <2>1 DEF TypeOK, NewServer, Server, Servers
  <2>3. \A t \in Servers : /\ servers[t].requests \subseteq server[t].requests
                           /\ servers[t].out = server[t].out \/ servers[t].out = <<>>
    BY <2>1 DEF TypeOK, NewServer, Servers
  <2>4. Request("initialize", proc', servers)
    BY <1>1 DEF Connect
  <2>5. proc' \in 0..MaxServers
    BY <2>1, McpAssumption
  <2>. HIDE DEF servers
  <2>6. MessagesHonest'
    BY <2>1, <2>2, <2>3, <2>4, <2>5, RequestHonest
  <2>7. id' = id + 1 /\ id \in Nat
    BY <2>4 DEF Request, NextId, TypeOK
  <2>. QED
    BY <2>1, <2>6, <2>7 DEF WaitState, TypeOK
<1>2. CASE ConnectFails \/ ConnectAgain
  <2>1. UNCHANGED <<id, pc, proc, spawned, inbox, skipped, server>>
    BY <1>2 DEF ConnectFails, ConnectAgain
  <2>. QED
    BY <2>1 DEF MessagesHonest, Known, Honest, WaitState
<1>3. CASE Call
  <2>1. /\ UNCHANGED <<proc, spawned, inbox>> /\ pc = "idle"
        /\ Request("call", proc, server)
    BY <1>3 DEF Call
  <2>2. MessagesHonest'
    BY <2>1, RequestHonest DEF TypeOK
  <2>3. id' = id + 1 /\ id \in Nat /\ (pc' = "waiting" => proc # 0)
    BY <2>1 DEF Request, NextId, TypeOK
  <2>. QED
    BY <2>1, <2>2, <2>3 DEF WaitState
<1>4. CASE Close
  <2>1. /\ pc = "idle" /\ pc' = "idle" /\ proc' = 0 /\ UNCHANGED <<id, spawned, inbox, skipped>>
        /\ spawned \in Nat
    BY <1>4 DEF Close, TypeOK
  <2>2. \A s \in Servers : /\ server'[s].requests = server[s].requests
                           /\ server'[s].out = server[s].out
    BY <1>4 DEF Close, TypeOK, Server
  <2>3. \A x : Honest(x) => Honest(x)'
    BY <2>1 DEF Honest
  <2>4. \A s \in Servers : Known(s)'
    BY <2>1, <2>2, <2>3 DEF MessagesHonest, Known
  <2>. QED
    BY <2>1, <2>3, <2>4 DEF MessagesHonest, WaitState
<1>5. CASE Skip
  <2>1. /\ inbox \in Seq(Message) /\ inbox # <<>> /\ skipped \in Seq(Message)
        /\ skipped' = Append(skipped, Head(inbox)) /\ inbox' = Tail(inbox)
        /\ UNCHANGED <<id, pc, proc, spawned, server>>
    BY <1>5 DEF Skip, TypeOK
  <2>2. \A x : Honest(x) => Honest(x)'
    BY <2>1, HonestStays
  <2>3. Honest(Head(inbox)) /\ \A i \in DOMAIN Tail(inbox) : Honest(Tail(inbox)[i])
    BY <2>1, HeadTail DEF MessagesHonest
  <2>4. \A i \in DOMAIN skipped' : Honest(skipped'[i])
    BY <2>1, <2>3 DEF MessagesHonest
  <2>5. \A s \in Servers : Known(s)'
    BY <2>1, <2>2 DEF MessagesHonest, Known
  <2>. QED
    BY <2>1, <2>2, <2>3, <2>4, <2>5 DEF MessagesHonest, WaitState
<1>6. CASE TakeResult \/ TakeError
  <2>1. /\ inbox \in Seq(Message) /\ inbox # <<>> /\ pc = "waiting"
        /\ \E end \in Ends : Finish(end, Head(inbox), Tail(inbox))
    BY <1>6 DEF TakeResult, TakeError, Waiting, TypeOK, Ends
  <2>2. \A s \in Servers : /\ server'[s].requests = server[s].requests
                           /\ server'[s].out = server[s].out
    <3>1. \/ server' = server
          \/ server' = [server EXCEPT ![proc].ready = server[proc].alive]
      BY <1>6 DEF TakeResult, TakeError
    <3>2. \A s \in Servers : server[s] \in Server
      BY DEF TypeOK
    <3>3. ASSUME NEW s \in Servers
          PROVE  /\ server'[s].requests = server[s].requests
                 /\ server'[s].out = server[s].out
      <4>1. \/ server'[s] = server[s]
            \/ server'[s] = [server[s] EXCEPT !.ready = server[proc].alive]
        BY <3>1 DEF TypeOK
      <4>2. server[s] \in Server
        BY <3>2
      <4>. QED
        BY <4>1, <4>2 DEF Server
    <3>. QED
      BY <3>3
  <2>3. /\ \A i \in DOMAIN Tail(inbox) : Honest(Tail(inbox)[i])
        /\ Tail(inbox) \in Seq(Message)
    BY <2>1, HeadTail DEF MessagesHonest
  <2>4. MessagesHonest'
    BY <2>1, <2>2, <2>3, FinishHonest
  <2>. QED
    BY <2>1, <2>4 DEF Finish, WaitState
<1>7. CASE Tick
  <2>1. UNCHANGED <<id, pc, proc, spawned, inbox, skipped, server>>
    BY <1>7 DEF Tick
  <2>. QED
    BY <2>1 DEF MessagesHonest, Known, Honest, WaitState
<1>8. CASE GiveUp
  <2>1. /\ Finish("timeout", NoMessage, <<>>) /\ server' = server /\ <<>> \in Seq(Message)
        /\ \A i \in DOMAIN <<>> : Honest(<<>>[i])
    BY <1>8 DEF GiveUp
  <2>2. MessagesHonest'
    BY <2>1, FinishHonest
  <2>. QED
    BY <2>1, <2>2 DEF Finish, WaitState
<1>9. CASE Rest
  BY <1>9 DEF Rest, vars, client, MessagesHonest, Known, Honest, WaitState
<1>. QED
  BY <1>1, <1>2, <1>3, <1>4, <1>5, <1>6, <1>7, <1>8, <1>9 DEF Wait

\* Server s writes an honest line of its own.
LEMMA WriteHonest ==
    ASSUME TypeOK, MessagesHonest, NEW s \in Servers, NEW m \in Message, m.from = s,
           Honest(m), Write(s, m), UNCHANGED <<client, inbox>>
    PROVE  MessagesHonest'
PROOF
<1>1. UNCHANGED <<id, pc, proc, spawned, inbox, skipped>>
  BY DEF client
<1>2. \A x : Honest(x) => Honest(x)'
  BY <1>1, HonestStays
<1>3. server[s] \in Server
  BY DEF TypeOK
<1>4. /\ server'[s].out = Append(server[s].out, m)
      /\ server'[s].requests \subseteq server[s].requests
      /\ \A t \in Servers \ {s} : server'[t] = server[t]
  BY <1>3 DEF Write, TypeOK, Server
<1>5. server[s].out \in Seq(Message)
  BY <1>3 DEF Server
<1>6. \A i \in DOMAIN server'[s].out :
          Honest(server'[s].out[i]) /\ server'[s].out[i].from = s
  BY <1>4, <1>5 DEF MessagesHonest, Known
<1>7. Known(s)'
  BY <1>1, <1>2, <1>4, <1>6 DEF MessagesHonest, Known
<1>8. \A t \in Servers \ {s} : Known(t)'
  BY <1>1, <1>2, <1>4 DEF MessagesHonest, Known
<1>. QED
  BY <1>1, <1>2, <1>7, <1>8 DEF MessagesHonest

LEMMA ServerHonest ==
    ASSUME ClientInv, NEW s \in Servers, Pump(s) \/ Respond(s) \/ Chatter(s) \/ Die(s)
    PROVE  MessagesHonest' /\ WaitState'
PROOF
<1>. USE DEF ClientInv
<1>1. /\ UNCHANGED client /\ server[s] \in Server
      /\ (pc = "waiting" => id # 0) /\ id \in Nat
  BY DEF Pump, Respond, Chatter, Die, TypeOK, WaitState
<1>2. WaitState'
  BY <1>1 DEF WaitState, client
<1>3. CASE Pump(s)
  <2>1. /\ server[s].out \in Seq(Message) /\ server[s].out # <<>>
        /\ inbox \in Seq(Message) /\ inbox' = Append(inbox, Head(server[s].out))
        /\ server'[s].out = Tail(server[s].out)
        /\ server'[s].requests = server[s].requests
        /\ \A t \in Servers \ {s} : server'[t] = server[t]
    BY <1>1, <1>3 DEF Pump, TypeOK, Server
  <2>2. \A x : Honest(x) => Honest(x)'
    BY <1>1, HonestStays DEF client
  <2>3. /\ Honest(Head(server[s].out))
        /\ \A i \in DOMAIN Tail(server[s].out) :
               Honest(Tail(server[s].out)[i]) /\ Tail(server[s].out)[i].from = s
    BY <2>1, HeadTail DEF MessagesHonest, Known
  <2>4. \A i \in DOMAIN inbox' : Honest(inbox'[i])
    BY <2>1, <2>3 DEF MessagesHonest
  <2>5. Known(s)'
    BY <1>1, <2>1, <2>2, <2>3 DEF MessagesHonest, Known, client
  <2>6. \A t \in Servers \ {s} : Known(t)'
    BY <1>1, <2>1, <2>2 DEF MessagesHonest, Known, client
  <2>. QED
    BY <1>1, <1>2, <2>2, <2>4, <2>5, <2>6 DEF MessagesHonest, client
<1>4. CASE Respond(s)
  <2>1. PICK r \in server[s].requests, e \in BOOLEAN :
           Write(s, [id |-> r, answers |-> r, error |-> e, from |-> s])
    BY <1>4 DEF Respond
  <2> DEFINE m == [id |-> r, answers |-> r, error |-> e, from |-> s]
  <2>2. m \in Message /\ m.from = s
    BY <1>1, <2>1, McpAssumption DEF Server, Message
  <2>3. r \in 1..id /\ (pc = "waiting" /\ r = id => s = proc)
    BY <2>1 DEF MessagesHonest, Known
  <2>4. Honest(m)
    BY <1>1, <2>3 DEF Honest
  <2>5. Write(s, m) /\ UNCHANGED <<client, inbox>>
    BY <1>4, <2>1 DEF Respond
  <2>. HIDE DEF m
  <2>. QED
    BY <1>2, <2>2, <2>4, <2>5, WriteHonest
<1>5. CASE Chatter(s)
  <2>1. PICK i \in {0} \union ServerIds :
           Write(s, [id |-> i, answers |-> 0, error |-> FALSE, from |-> s])
    BY <1>5 DEF Chatter
  <2> DEFINE m == [id |-> i, answers |-> 0, error |-> FALSE, from |-> s]
  <2>2. m \in Message /\ m.from = s
    BY <2>1, McpAssumption DEF Message
  <2>3. Honest(m)
    BY <1>1, <2>1 DEF Honest
  <2>4. Write(s, m) /\ UNCHANGED <<client, inbox>>
    BY <1>5, <2>1 DEF Chatter
  <2>. HIDE DEF m
  <2>. QED
    BY <1>2, <2>2, <2>3, <2>4, WriteHonest
<1>6. CASE Die(s)
  <2>1. UNCHANGED <<client, inbox>>
    BY <1>6 DEF Die
  <2>2. \A t \in Servers : /\ server'[t].requests = server[t].requests
                           /\ server'[t].out = server[t].out
    BY <1>6 DEF Die, TypeOK, Server
  <2>3. \A x : Honest(x) => Honest(x)'
    BY <2>1, HonestStays DEF client
  <2>4. \A t \in Servers : Known(t)'
    BY <2>1, <2>2, <2>3 DEF MessagesHonest, Known, client
  <2>. QED
    BY <1>2, <2>1, <2>3, <2>4 DEF MessagesHonest, client
<1>. QED
  BY <1>3, <1>4, <1>5, <1>6

-----------------------------------------------------------------------------
(***************************************************************************)
(* The invariant, and what follows from it.                                *)
(***************************************************************************)

LEMMA ClientInitially == Init => ClientInv
PROOF
<1>. SUFFICES ASSUME Init PROVE ClientInv
  OBVIOUS
<1>1. inbox = <<>> /\ skipped = <<>> /\ proc = 0 /\ spawned = 0 /\ pc = "idle"
  BY DEF Init
<1>2. \A s \in Servers : server[s].requests = {} /\ server[s].out = <<>>
  BY DEF Init, NewServer
<1>3. MessagesHonest
  BY <1>1, <1>2 DEF MessagesHonest, Known
<1>. QED
  BY <1>1, <1>3, TypesInitially DEF ClientInv, WaitState

LEMMA ClientNext == ClientInv /\ [Next]_vars => ClientInv'
PROOF
<1>. SUFFICES ASSUME ClientInv, [Next]_vars PROVE ClientInv'
  OBVIOUS
<1>1. CASE Connect \/ ConnectFails \/ ConnectAgain \/ Call \/ Close \/ Wait \/ Rest
  BY <1>1, ThreadTypes, ThreadHonest DEF ClientInv
<1>2. CASE \E s \in Servers : Pump(s) \/ Respond(s) \/ Chatter(s) \/ Die(s)
  BY <1>2, ServerTypes, ServerHonest DEF ClientInv
<1>3. CASE UNCHANGED vars
  BY <1>3 DEF vars, client, ClientInv, TypeOK, WaitState, MessagesHonest, Known, Honest
<1>. QED
  BY <1>1, <1>2, <1>3 DEF Next

\* Whatever servers write and whenever they die, messages are answers to
\* requests that were made, under their ids, or the servers' own, and only the
\* server a request was sent to knows of it (client.py:155-171, 236-263).
THEOREM ClientInvariance == Spec => []ClientInv
  BY ClientInitially, ClientNext, PTL DEF Spec

\* The type invariant (client.py:55-85).
THEOREM McpTypeCorrect == Spec => []TypeOK
PROOF
<1>1. ClientInv => TypeOK
  BY DEF ClientInv
<1>. QED
  BY <1>1, ClientInvariance, PTL

\* The caller only ever takes the answer to its own request, from the server it
\* was sent to, if servers number their own requests apart from the client's
\* (client.py:80-85, 155-171, 236-263): late answers to requests that timed out
\* and what a closed server left in its pipe are never taken.
THEOREM AnswersAreOurs ==
    ASSUME ServerIds \intersect (1..MaxRequests) = {}
    PROVE  Spec => []AnswerIsOurs
PROOF
<1>1. Init => AnswerIsOurs
  BY DEF Init, AnswerIsOurs
<1>2. ClientInv /\ AnswerIsOurs /\ [Next]_vars => AnswerIsOurs'
  <2>. SUFFICES ASSUME ClientInv, AnswerIsOurs, [Next]_vars PROVE AnswerIsOurs'
    OBVIOUS
  <2>1. CASE last' = last
    BY <2>1 DEF AnswerIsOurs
  <2>2. CASE TakeResult \/ TakeError
    <3>1. /\ inbox \in Seq(Message) /\ inbox # <<>> /\ pc = "waiting" /\ id # 0
          /\ Head(inbox).id = id /\ id \in 1..MaxRequests
      BY <2>2 DEF TakeResult, TakeError, Waiting, ClientInv, WaitState, TypeOK
    <3>2. Honest(Head(inbox)) /\ Head(inbox) \in Message
      BY <3>1, HeadTail DEF ClientInv, MessagesHonest
    <3>3. Head(inbox).answers = id /\ Head(inbox).from = proc
      BY <3>1, <3>2 DEF Honest
    <3>4. last'.id = id /\ last'.from = proc /\ last'.got = Head(inbox)
      BY <2>2 DEF TakeResult, TakeError, Finish
    <3>. QED
      BY <3>3, <3>4 DEF AnswerIsOurs
  <2>3. CASE GiveUp
    BY <2>3 DEF GiveUp, Finish, AnswerIsOurs
  <2>4. CASE Connect \/ Call
    <3>1. last' = last \/ last'.end = "unsent"
      BY <2>4 DEF Connect, Call, Request
    <3>. QED
      BY <2>1, <3>1 DEF AnswerIsOurs
  <2>5. Connect \/ Call \/ TakeResult \/ TakeError \/ GiveUp \/ last' = last
    BY DEF Next, Wait, ConnectFails, ConnectAgain, Close, Skip, Tick, Rest, Pump, Respond, Chatter,
           Die, vars, client
  <2>. QED
    BY <2>1, <2>2, <2>3, <2>4, <2>5
<1>. QED
  BY <1>1, <1>2, ClientInvariance, PTL DEF Spec

-----------------------------------------------------------------------------
\* What makes the handshake hold of a step: nothing it speaks of has changed.
LEMMA HandshakenStays ==
    ASSUME TypeOK, WaitState, Handshaken, UNCHANGED <<proc, method>>,
           usable' => usable, pc' = "waiting" => pc = "waiting",
           \A s \in Servers : server[s].ready => server'[s].ready
    PROVE  Handshaken'
PROOF
<1>1. proc # 0 => proc \in Servers
  BY McpAssumption DEF TypeOK, Servers
<1>. QED
  BY <1>1 DEF Handshaken, HandshakeFirst, WaitState

LEMMA HandshakenNext ==
    ASSUME CallerRetries = FALSE, ClientInv, Handshaken, [Next]_vars
    PROVE  Handshaken'
PROOF
<1>. USE DEF ClientInv
<1>0. \A s \in Servers : server[s] \in Server
  BY DEF TypeOK
<1>1. CASE Connect
  BY <1>1 DEF Connect, Request, Handshaken, HandshakeFirst
<1>8. CASE ConnectFails
  BY <1>8 DEF ConnectFails, Handshaken, HandshakeFirst
<1>2. CASE ConnectAgain
  <2>1. usable /\ UNCHANGED <<proc, method, pc, server>>
    BY <1>2 DEF ConnectAgain
  <2>. QED
    BY <2>1 DEF Handshaken, HandshakeFirst
<1>3. CASE Call
  <2>1. /\ usable /\ UNCHANGED <<proc, usable>> /\ Request("call", proc, server) /\ pc = "idle"
    BY <1>3 DEF Call
  <2>2. \A s \in Servers : server'[s].ready = server[s].ready
    BY <1>0, <2>1 DEF Request, TypeOK, Server
  <2>3. pc' = "waiting" => proc # 0
    BY <2>1 DEF Request
  <2>4. proc # 0 => proc \in Servers
    BY McpAssumption DEF TypeOK, Servers
  <2>. QED
    BY <2>1, <2>2, <2>3, <2>4 DEF Handshaken, HandshakeFirst
<1>4. CASE Close
  BY <1>4 DEF Close, Handshaken, HandshakeFirst
<1>5. CASE TakeResult
  <2>1. proc \in Servers /\ pc' = "idle" /\ proc' = proc
    BY <1>5, McpAssumption DEF TakeResult, Finish, Waiting, WaitState, TypeOK, Servers
  <2>2. CASE method = "initialize"
    <3>1. /\ usable' = server[proc].alive
          /\ server' = [server EXCEPT ![proc].ready = server[proc].alive]
      BY <1>5, <2>2 DEF TakeResult
    <3>2. server'[proc].ready = server[proc].alive
      BY <1>0, <2>1, <3>1 DEF TypeOK, Server
    <3>. QED
      BY <2>1, <3>1, <3>2 DEF Handshaken, HandshakeFirst
  <2>3. CASE method # "initialize"
    BY <1>5, <2>1, <2>3 DEF TakeResult, Handshaken, HandshakeFirst
  <2>. QED
    BY <2>2, <2>3
<1>6. CASE Skip \/ TakeError \/ Tick \/ GiveUp \/ Rest \/ UNCHANGED vars
  <2>1. /\ UNCHANGED <<proc, method, usable, server>>
        /\ pc' = "waiting" => pc = "waiting"
    BY <1>6 DEF Skip, TakeError, Tick, GiveUp, Finish, Rest, vars, client
  <2>. QED
    BY <2>1, HandshakenStays
<1>7. ASSUME NEW s \in Servers, Pump(s) \/ Respond(s) \/ Chatter(s) \/ Die(s)
      PROVE  Handshaken'
  <2>1. UNCHANGED client
    BY <1>7 DEF Pump, Respond, Chatter, Die
  <2>2. \A t \in Servers : server'[t].ready = server[t].ready
    <3>1. CASE Pump(s) \/ Die(s)
      <4>1. \/ server' = [server EXCEPT ![s].out = Tail(server[s].out)]
            \/ server' = [server EXCEPT ![s].alive = FALSE]
        BY <3>1 DEF Pump, Die
      <4>2. ASSUME NEW t \in Servers PROVE server'[t].ready = server[t].ready
        <5>1. \/ server'[t] = server[t]
              \/ server'[t] = [server[t] EXCEPT !.out = Tail(server[s].out)]
              \/ server'[t] = [server[t] EXCEPT !.alive = FALSE]
          BY <4>1 DEF TypeOK
        <5>. QED
          BY <1>0, <5>1 DEF Server
      <4>. QED
        BY <4>2
    <3>2. CASE Respond(s) \/ Chatter(s)
      <4>1. PICK m : Write(s, m)
        BY <3>2 DEF Respond, Chatter
      <4>. QED
        BY <1>0, <4>1 DEF Write, TypeOK, Server
    <3>. QED
      BY <1>7, <3>1, <3>2
  <2>. QED
    BY <2>1, <2>2, HandshakenStays DEF client
<1>. QED
  BY <1>1, <1>2, <1>3, <1>4, <1>5, <1>6, <1>7, <1>8 DEF Next, Wait

\* No tool is listed or called on a server before it was told "initialized"
\* (client.py:18-23), if no caller goes on after a connect() that raised.
THEOREM HandshakeAlwaysFirst ==
    ASSUME CallerRetries = FALSE
    PROVE  Spec => []HandshakeFirst
PROOF
<1>1. Init => Handshaken
  BY DEF Init, Handshaken, HandshakeFirst
<1>2. ClientInv /\ Handshaken /\ [Next]_vars => Handshaken'
  BY HandshakenNext
<1>3. Handshaken => HandshakeFirst
  BY DEF Handshaken
<1>. QED
  BY <1>1, <1>2, <1>3, ClientInvariance, PTL DEF Spec
=============================================================================
