---------------------------- MODULE Conversation ----------------------------
(***************************************************************************)
(* The message history an agent sends with every model call                *)
(* (conversation.py).  A history is a sequence of messages whose first     *)
(* element is the system prompt: Conversation.__init__ inserts it at 0 and *)
(* nothing else ever adds a second one.  The text of a message is          *)
(* abstracted to its kind, the run of the agent that wrote it, its place   *)
(* in the order of arrival and what it costs of the context window.        *)
(***************************************************************************)
EXTENDS Naturals, Sequences, FiniteSets

\* A call id is fresh: new_call_id() draws a uuid, and a native provider sends
\* its own.  Run r, iteration i, k-th call of the completion names it here.
CallId == Nat \X Nat \X Nat
NoCall == <<0, 0, 0>>

Roles == {"system", "user", "assistant", "tool"}

\* task, nudge and marker are user messages; answer, garbage and calls are
\* assistant messages; whole, spilled and cut are tool results.
Kinds == {"prompt", "task", "nudge", "marker", "answer", "garbage", "calls",
          "whole", "spilled", "cut"}

Message ==
    [role: Roles, kind: Kinds, run: Nat, at: Nat, cost: Nat,
     calls: Seq(CallId), id: CallId, lost: Nat]

SystemMessage(cost) ==
    [role |-> "system", kind |-> "prompt", run |-> 0, at |-> 0, cost |-> cost,
     calls |-> <<>>, id |-> NoCall, lost |-> 0]

UserMessage(kind, run, at, cost) ==
    [role |-> "user", kind |-> kind, run |-> run, at |-> at, cost |-> cost,
     calls |-> <<>>, id |-> NoCall, lost |-> 0]

AssistantMessage(kind, run, at, cost, calls) ==
    [role |-> "assistant", kind |-> kind, run |-> run, at |-> at,
     cost |-> cost, calls |-> calls, id |-> NoCall, lost |-> 0]

ToolMessage(kind, run, at, cost, id) ==
    [role |-> "tool", kind |-> kind, run |-> run, at |-> at, cost |-> cost,
     calls |-> <<>>, id |-> id, lost |-> 0]

\* The message context.py leaves in the place of `lost` dropped messages.
MarkerMessage(lost, cost) ==
    [role |-> "user", kind |-> "marker", run |-> 0, at |-> 0, cost |-> cost,
     calls |-> <<>>, id |-> NoCall, lost |-> lost]

\* turns(): every user message opens a turn, and so does the first message
\* after the system prompt.  A turn is named by the index that opens it.
TurnStarts(h) == {i \in 2..Len(h) : h[i].role = "user" \/ i = 2}

-----------------------------------------------------------------------------
(***************************************************************************)
(* What a hosted provider accepts (Message.to_wire): a tool message        *)
(* answers a call of the assistant message before it, with nothing but     *)
(* tool messages in between, and every call of an assistant message is     *)
(* answered, in order.                                                     *)
(***************************************************************************)

\* Every tool message answers a call some assistant message asked for.
Asked(h) ==
    \A i \in DOMAIN h : h[i].role = "tool" =>
        \E j \in 1..(i - 1) :
            /\ (i - j) \in DOMAIN h[j].calls
            /\ h[i].id = h[j].calls[i - j]

\* The messages that follow an assistant message with calls are its results.
Matched(h) ==
    \A j \in DOMAIN h : \A k \in DOMAIN h[j].calls :
        (j + k) \in DOMAIN h =>
            /\ h[j + k].role = "tool"
            /\ h[j + k].id = h[j].calls[k]

\* No call of message j is left unanswered.
AnsweredAt(h, j) == j + Len(h[j].calls) <= Len(h)

WirePaired(h) ==
    /\ Asked(h)
    /\ Matched(h)
    /\ \A j \in DOMAIN h : AnsweredAt(h, j)
=============================================================================
