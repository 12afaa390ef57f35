------------------------------ MODULE Context ------------------------------
(***************************************************************************)
(* The decisions of the context manager (context.py): when a history is    *)
(* over its budget, where it may be cut, what replaces what is cut, and    *)
(* what a tool result becomes on its way into the history.  Costs are in   *)
(* one unit for characters and tokens.                                     *)
(***************************************************************************)
EXTENDS Conversation, Integers, Functions

CONSTANTS
    KeepRecentTurns,   \* cfg.keep_recent_turns
    Threshold,         \* int(history_budget * compaction_headroom)
    Strategy,          \* cfg.strategy, any name
    SummaryCosts,      \* what a summary, or its failure text, may cost
    ResultLimit,       \* cfg.max_tool_result_chars
    TrimNote           \* what the "... trimmed ..." line costs

\* history_budget is num_ctx - 1024 and may be negative, so Threshold is any
\* integer; keep_recent_turns is any integer too.
ASSUME ContextAssumption ==
    /\ KeepRecentTurns \in Int
    /\ Threshold \in Int
    /\ Strategy \in STRING
    /\ SummaryCosts \subseteq Nat
    /\ SummaryCosts # {}
    /\ ResultLimit \in Nat
    /\ TrimNote \in Nat

\* TokenCounter.count over a conversation.
Used(h) == SumFunction([i \in DOMAIN h |-> h[i].cost])

OverThreshold(h) == Used(h) > Threshold

KeepN == IF KeepRecentTurns > 1 THEN KeepRecentTurns ELSE 1

\* Mutant: keeps the last KeepN messages instead of the last KeepN turns.
CutPointsByMessage(h) == {c \in 3..Len(h) : Len(h) - c + 1 = KeepN}

\* Mutant: off by one, one turn more than configured is kept.
CutPointsKeepingMore(h) ==
    {c \in TurnStarts(h) :
        /\ c > 2
        /\ Cardinality({j \in TurnStarts(h) : j > c}) = KeepN}

\* Mutant: off by one, one turn less than configured is kept.
CutPointsKeepingLess(h) ==
    {c \in TurnStarts(h) :
        /\ c > 2
        /\ Cardinality({j \in TurnStarts(h) : j >= c}) = KeepN - 1}

\* _plan_drop: the turn at which a history is cut, when anything can be
\* dropped: the KeepN-th from the end, and not the first one.
CutPoints(h) ==
    {c \in TurnStarts(h) :
        /\ c > 2
        /\ Cardinality({j \in TurnStarts(h) : j >= c}) = KeepN}

KnownStrategy == Strategy \in {"truncate", "summarize"}

\* The truncation marker is one short line.
MarkerCosts == IF Strategy = "truncate" THEN {1} ELSE SummaryCosts

\* Mutant: the number of dropped messages is subtracted the wrong way round.
RebuildMiscounting(h, c, cost) ==
    <<h[1], MarkerMessage(2 - c, cost)>> \o SubSeq(h, c, Len(h))

\* Mutant: the marker of an earlier compaction is pinned like the system prompt.
RebuildStacking(h, c, cost) ==
    <<h[1]>> \o (IF h[2].kind = "marker" THEN <<h[2]>> ELSE <<>>)
             \o <<MarkerMessage(c - 2, cost)>> \o SubSeq(h, c, Len(h))

\* _rebuild, with the marker of _truncate or _summarize: system prompt,
\* marker, and the kept turns as they were.  The marker counts the messages
\* this compaction drops.
Rebuild(h, c, cost) ==
    <<h[1], MarkerMessage(c - 2, cost)>> \o SubSeq(h, c, Len(h))

\* trim_tool_result: head and tail of ResultLimit in all, and a note.
TrimmedCost(size) ==
    IF size <= ResultLimit THEN size ELSE ResultLimit + TrimNote

\* What becomes of a result of this size when its spill succeeds or fails.
ResultKind(size, saved) ==
    IF size <= ResultLimit THEN "whole"
    ELSE IF saved THEN "spilled" ELSE "cut"

\* Mutant: the file is named after the call's place in its completion.
SpillNameByPlace(id) == <<0, 0, id[3]>>

\* _spill names its file after the tool and the call.  The tool is left out:
\* the id alone tells files apart.
SpillName(id) == id

\* write_text replaces a file of the same name.
Spilled(files, id) ==
    {f \in files : f.name # SpillName(id)}
        \union {[name |-> SpillName(id), content |-> id]}
=============================================================================
