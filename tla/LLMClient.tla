----------------------------- MODULE LLMClient -----------------------------
(***************************************************************************)
(* complete() of OllamaClient and HostedClient (llm.py): one model call    *)
(* made of attempts, with a pause between them.  What an attempt meets is  *)
(* nondeterministic; what each client makes of it is not.                  *)
(***************************************************************************)
EXTENDS Integers, Sequences

CONSTANTS
    Provider,      \* which client: "ollama" or "hosted"
    MaxAttempts,   \* cfg.llm_max_attempts
    MaxCalls       \* bound: calls of complete()

ASSUME LLMAssumption ==
    /\ Provider \in {"ollama", "hosted"}
    /\ MaxAttempts \in Int
    /\ MaxCalls \in Nat

VARIABLES
    pc,      \* "caller", "sending" an attempt or sleeping in "backoff"
    calls,   \* self.calls
    tries,   \* what the attempts of this call met
    result,  \* how the last call ended
    log      \* the lines of _log_call

vars == <<pc, calls, tries, result, log>>

\* What one request meets: a completion, a refused connection, a read that
\* times out, any other failure of the transport, a status worth retrying (429
\* or 5xx), another status, or a 200 whose body is not what it should be.
Met == {"completion", "refused", "read_timeout", "transport", "busy",
        "rejected", "bad_body"}

\* _send_once of OllamaClient turns ConnectError, ReadTimeout and a bad status
\* into LLMError; of HostedClient, whatever the SDK raises, where the SDK tells
\* apart connection errors and statuses.
Caught ==
    IF Provider = "ollama"
    THEN {"refused", "read_timeout", "busy", "rejected"}
    ELSE {"refused", "read_timeout", "transport", "busy", "rejected"}

\* LLMError.retryable.
Retryable == Caught \ {"rejected"}

\* Everything else leaves complete() as the exception it was.
Escaping == Met \ (Caught \union {"completion"})

Attempts == IF MaxAttempts > 1 THEN MaxAttempts ELSE 1

Results == {"none", "completion", "LLMError", "escaped"}

Line == [call: Nat, retries: Nat, error: BOOLEAN]

TypeOK ==
    /\ pc \in {"caller", "sending", "backoff"}
    /\ calls \in Nat
    /\ tries \in Seq(Met)
    /\ result \in Results
    /\ log \in Seq(Line)

Init ==
    /\ pc = "caller"
    /\ calls = 0
    /\ tries = <<>>
    /\ result = "none"
    /\ log = <<>>

Complete ==
    /\ pc = "caller"
    /\ calls < MaxCalls
    /\ calls' = calls + 1
    /\ tries' = <<>>
    /\ result' = "none"
    /\ pc' = "sending"
    /\ UNCHANGED log

\* attempt, counted from 0, is the number of tries before this one.
Attempt == Len(tries)

\* Mutant: counts the retries left instead of the retries made.
EndCountingLeft(r) ==
    /\ log' = Append(log, [call |-> calls, retries |-> MaxAttempts - 2 - Attempt,
                           error |-> r # "completion"])
    /\ result' = r
    /\ pc' = "caller"

\* Mutant: only calls that succeed are logged.
EndUnlogged(r) ==
    /\ log' = IF r = "completion"
              THEN Append(log, [call |-> calls, retries |-> Attempt,
                                error |-> FALSE])
              ELSE log
    /\ result' = r
    /\ pc' = "caller"

\* _log_call and the end of the call.
End(r) ==
    /\ log' = Append(log, [call |-> calls, retries |-> Attempt,
                           error |-> r # "completion"])
    /\ result' = r
    /\ pc' = "caller"

Succeed ==
    /\ pc = "sending"
    /\ tries' = Append(tries, "completion")
    /\ End("completion")
    /\ UNCHANGED calls

\* Mutant: off by one, the last attempt is followed by another.
MayRetryOnceMore(m) == m \in Retryable /\ Attempt < Attempts

\* A retryable LLMError with an attempt left: sleep.
MayRetry(m) == m \in Retryable /\ Attempt < Attempts - 1

PauseAfterFailure ==
    /\ pc = "sending"
    /\ \E m \in Caught :
        /\ MayRetry(m)
        /\ tries' = Append(tries, m)
    /\ pc' = "backoff"
    /\ UNCHANGED <<calls, result, log>>

\* Mutant: the attempt is forgotten, so every attempt is the first.
RetryFromScratch ==
    /\ pc = "backoff"
    /\ pc' = "sending"
    /\ tries' = <<>>
    /\ UNCHANGED <<calls, result, log>>

\* The sleep ends and the next attempt begins.
Retry ==
    /\ pc = "backoff"
    /\ pc' = "sending"
    /\ UNCHANGED <<calls, tries, result, log>>

\* Any other LLMError is logged and raised.
Fail ==
    /\ pc = "sending"
    /\ \E m \in Caught :
        /\ ~MayRetry(m)
        /\ tries' = Append(tries, m)
    /\ End("LLMError")
    /\ UNCHANGED calls

\* What _send_once does not catch goes past the retry loop and the log.
Escape ==
    /\ pc = "sending"
    /\ \E m \in Escaping : tries' = Append(tries, m)
    /\ result' = "escaped"
    /\ pc' = "caller"
    /\ UNCHANGED <<calls, log>>

Rest == pc = "caller" /\ UNCHANGED vars

Work == Succeed \/ PauseAfterFailure \/ Retry \/ Fail \/ Escape

Next == Complete \/ Work \/ Rest

\* Requests time out and sleeps end.
Spec == Init /\ [][Next]_vars /\ WF_vars(Work)

-----------------------------------------------------------------------------
(***************************************************************************)
(* Properties.                                                             *)
(***************************************************************************)

\* Every attempt but the last failed in a way worth another attempt, there are
\* never more than the configured number, and LLMError is only raised for a
\* failure that is final or for the last attempt (llm.py:39-46, 183-196).
RetriesJustified ==
    /\ Len(tries) <= Attempts
    /\ \A i \in 1..(Len(tries) - 1) : tries[i] \in Retryable
    /\ result = "LLMError" =>
        tries[Len(tries)] \notin Retryable \/ Len(tries) = Attempts

\* The log has one line for each call that ended with a completion or an
\* LLMError, in order, with the number of retries it took (llm.py:78-112).
LoggedOnce ==
    /\ \A i, j \in DOMAIN log : i < j => log[i].call < log[j].call
    /\ result \in {"completion", "LLMError"} =>
        /\ log # <<>>
        /\ log[Len(log)] = [call |-> calls, retries |-> Len(tries) - 1,
                            error |-> result = "LLMError"]

\* Whatever the provider does, a call ends (llm.py:185-196).
CallEnds == pc = "sending" ~> pc = "caller"

\* Callers only ever have to handle LLMError.  The code does not keep this.
OnlyLLMError == result # "escaped"
=============================================================================
