---------------------------- MODULE RunContract ----------------------------
(***************************************************************************)
(* What Agent.run promises its caller, whatever the history holds: a run   *)
(* asks the model at most MaxIterations times, it returns an answer only   *)
(* for a completion that was neither a call nor a failed attempt at one,   *)
(* it gives up on parsing only after more than MaxParseRetries failures    *)
(* with nothing usable in between, it is exhausted only when every         *)
(* iteration was used, and it ends.                                        *)
(***************************************************************************)
EXTENDS Integers

CONSTANTS MaxIterations, MaxParseRetries, MaxRuns

VARIABLES
    phase,     \* "waiting" for a task, "running" one, or "over"
    runs,      \* how many tasks were started
    asked,     \* completions this run has dealt with
    streak,    \* how many of the latest ones in a row could not be parsed
    verdict    \* how the last run ended

contract == <<phase, runs, asked, streak, verdict>>

Init ==
    /\ phase = "waiting"
    /\ runs = 0
    /\ asked = 0
    /\ streak = 0
    /\ verdict = "none"

Start ==
    /\ phase = "waiting"
    /\ runs < MaxRuns
    /\ phase' = "running"
    /\ runs' = runs + 1
    /\ asked' = 0
    /\ streak' = 0
    /\ verdict' = "none"

\* One more completion, dealt with.
Ask ==
    /\ phase = "running"
    /\ asked < MaxIterations
    /\ asked' = asked + 1
    /\ UNCHANGED runs

\* Its calls were executed.
ToolsUsed ==
    /\ Ask
    /\ streak' = 0
    /\ UNCHANGED <<phase, verdict>>

\* It could not be parsed, and the model was told so.
Retried ==
    /\ Ask
    /\ streak < MaxParseRetries
    /\ streak' = streak + 1
    /\ UNCHANGED <<phase, verdict>>

Finish(v) == phase' = "waiting" /\ verdict' = v

Answered == Ask /\ streak' = 0 /\ Finish("answer")

ParsingFailed ==
    /\ Ask
    /\ streak = MaxParseRetries
    /\ streak' = streak + 1
    /\ Finish("parse_retries")

Exhausted ==
    /\ phase = "running"
    /\ asked >= MaxIterations
    /\ Finish("loop_exhausted")
    /\ UNCHANGED <<runs, asked, streak>>

\* The model client or a tool raised, or the user left: the process ends.
Died ==
    /\ phase = "running"
    /\ phase' = "over"
    /\ verdict' \in {"llm_error", "escaped"}
    /\ UNCHANGED <<runs, asked, streak>>

Left ==
    /\ phase = "waiting"
    /\ phase' = "over"
    /\ UNCHANGED <<runs, asked, streak, verdict>>

Progress ==
    ToolsUsed \/ Retried \/ Answered \/ ParsingFailed \/ Exhausted \/ Died

\* What a run may do, without that it ends.
Safety == Init /\ [][Start \/ Left \/ Progress]_contract

Spec == Safety /\ WF_contract(Progress)
=============================================================================
