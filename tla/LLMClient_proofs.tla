-------------------------- MODULE LLMClient_proofs --------------------------
(***************************************************************************)
(* Proofs about complete() (llm.py), for both providers and every number   *)
(* of attempts and calls.  While a call is under way every attempt so far  *)
(* was worth another, one is left, and the log is about earlier calls.     *)
(***************************************************************************)
EXTENDS LLMClient, TLAPS

\* A call under way.
UnderWay ==
    pc # "caller" =>
        /\ result = "none"
        /\ Len(tries) < Attempts
        /\ \A i \in DOMAIN tries : tries[i] \in Retryable
        /\ \A i \in DOMAIN log : log[i].call < calls

\* The log never speaks of a later call.
LogBehind == \A i \in DOMAIN log : log[i].call <= calls

CallInv == TypeOK /\ RetriesJustified /\ LoggedOnce /\ UnderWay /\ LogBehind

-----------------------------------------------------------------------------
LEMMA AttemptsPositive == Attempts \in Nat \ {0}
  BY LLMAssumption DEF Attempts

LEMMA RetryableMet == Caught \subseteq Met /\ Retryable \subseteq Met /\ Escaping \subseteq Met
  BY DEF Caught, Retryable, Escaping, Met

LEMMA CallsNumbered ==
    ASSUME TypeOK, NEW i \in DOMAIN log
    PROVE  log[i].call \in Nat
PROOF
<1>1. log[i] \in Line
  BY DEF TypeOK
<1>. QED
  BY <1>1 DEF Line

\* One more attempt was made.
LEMMA OneMoreTry ==
    ASSUME CallInv, pc = "sending", NEW m \in Met, tries' = Append(tries, m)
    PROVE  /\ tries' \in Seq(Met)
           /\ Len(tries') = Len(tries) + 1
           /\ Len(tries') <= Attempts
           /\ tries'[Len(tries')] = m
           /\ \A i \in 1..(Len(tries') - 1) : tries'[i] \in Retryable
BY AttemptsPositive DEF CallInv, TypeOK, UnderWay

\* A line is written at the end of a call.
LEMMA OneMoreLine ==
    ASSUME CallInv, pc = "sending", NEW line \in Line, line.call = calls,
           log' = Append(log, line), calls' = calls
    PROVE  /\ log' \in Seq(Line)
           /\ log' # <<>> /\ log'[Len(log')] = line
           /\ \A i, j \in DOMAIN log' : i < j => log'[i].call < log'[j].call
           /\ LogBehind'
PROOF
<1>1. /\ log \in Seq(Line) /\ calls \in Nat
      /\ \A i \in DOMAIN log : log[i].call < calls
      /\ \A i, j \in DOMAIN log : i < j => log[i].call < log[j].call
  BY DEF CallInv, TypeOK, UnderWay, LoggedOnce
<1>2. /\ log' \in Seq(Line) /\ Len(log') = Len(log) + 1
      /\ log'[Len(log')] = line
      /\ \A i \in DOMAIN log : log'[i] = log[i]
      /\ DOMAIN log' = DOMAIN log \union {Len(log')}
  BY <1>1
<1>3. \A i \in DOMAIN log : log[i].call \in Nat
  BY CallsNumbered DEF CallInv
<1>. QED
  BY <1>1, <1>2, <1>3 DEF LogBehind

\* complete() ends with the attempt that met m.
LEMMA CallEnded ==
    ASSUME CallInv, pc = "sending", NEW m \in Met, tries' = Append(tries, m),
           NEW r \in {"completion", "LLMError"}, End(r), UNCHANGED calls,
           r = "LLMError" => m \notin Retryable \/ Len(tries) + 1 = Attempts
    PROVE  CallInv'
PROOF
<1> DEFINE line == [call |-> calls, retries |-> Attempt, error |-> r # "completion"]
<1>1. line \in Line /\ line.call = calls
  BY DEF Line, Attempt, CallInv, TypeOK
<1>2. /\ log' = Append(log, line) /\ result' = r /\ pc' = "caller" /\ calls' = calls
  BY DEF End
<1>. HIDE DEF line
<1>3. /\ log' \in Seq(Line)
      /\ log' # <<>> /\ log'[Len(log')] = line
      /\ \A i, j \in DOMAIN log' : i < j => log'[i].call < log'[j].call
      /\ LogBehind'
  BY <1>1, <1>2, OneMoreLine
<1>4. /\ tries' \in Seq(Met)
      /\ Len(tries') = Len(tries) + 1
      /\ Len(tries') <= Attempts
      /\ tries'[Len(tries')] = m
      /\ \A i \in 1..(Len(tries') - 1) : tries'[i] \in Retryable
  BY OneMoreTry
<1>5. TypeOK'
  BY <1>2, <1>3, <1>4 DEF CallInv, TypeOK, Results
<1>6. RetriesJustified'
  BY <1>2, <1>4 DEF RetriesJustified
<1>7. line = [call |-> calls', retries |-> Len(tries') - 1, error |-> result' = "LLMError"]
  <2>1. Len(tries) \in Nat
    BY DEF CallInv, TypeOK
  <2>2. Attempt = Len(tries') - 1
    BY <1>4, <2>1 DEF Attempt
  <2>3. (r # "completion") = (result' = "LLMError")
    BY <1>2
  <2>. QED
    BY <1>2, <2>2, <2>3 DEF line
<1>8. LoggedOnce'
  BY <1>3, <1>7 DEF LoggedOnce
<1>9. UnderWay'
  BY <1>2 DEF UnderWay
<1>. QED
  BY <1>3, <1>5, <1>6, <1>8, <1>9 DEF CallInv

-----------------------------------------------------------------------------
LEMMA CallInitially == Init => CallInv
  BY AttemptsPositive
  DEF Init, CallInv, TypeOK, Results, RetriesJustified, LoggedOnce, UnderWay, LogBehind

LEMMA CallNext == CallInv /\ [Next]_vars => CallInv'
PROOF
<1>. SUFFICES ASSUME CallInv, [Next]_vars
              PROVE  CallInv'
  OBVIOUS
<1>1. CASE Complete
  <2>0. \A i \in DOMAIN log : log[i].call \in Nat /\ log[i].call < calls + 1
    BY CallsNumbered DEF CallInv, TypeOK, LogBehind
  <2>1. TypeOK' /\ LogBehind'
    BY <1>1, <2>0 DEF Complete, CallInv, TypeOK, Results, LogBehind
  <2>2. RetriesJustified'
    BY <1>1, AttemptsPositive DEF Complete, RetriesJustified
  <2>3. LoggedOnce'
    BY <1>1 DEF Complete, CallInv, LoggedOnce
  <2>4. UnderWay'
    BY <1>1, <2>0, AttemptsPositive DEF Complete, UnderWay
  <2>. QED
    BY <2>1, <2>2, <2>3, <2>4 DEF CallInv
<1>2. CASE Succeed
  BY <1>2, CallEnded DEF Succeed, Met
<1>3. CASE PauseAfterFailure
  <2>1. PICK m \in Caught : MayRetry(m) /\ tries' = Append(tries, m)
    BY <1>3 DEF PauseAfterFailure
  <2>2. m \in Met /\ m \in Retryable /\ Len(tries) < Attempts - 1
    BY <2>1, RetryableMet DEF MayRetry, Attempt
  <2>3. /\ tries' \in Seq(Met)
        /\ Len(tries') = Len(tries) + 1
        /\ Len(tries') <= Attempts
        /\ tries'[Len(tries')] = m
        /\ \A i \in 1..(Len(tries') - 1) : tries'[i] \in Retryable
    BY <1>3, <2>1, <2>2, OneMoreTry DEF PauseAfterFailure
  <2>4. pc' = "backoff" /\ calls' = calls /\ result' = result /\ log' = log
    BY <1>3 DEF PauseAfterFailure
  <2>5. result = "none"
    BY <1>3 DEF CallInv, UnderWay, PauseAfterFailure
  <2>6. UnderWay'
    <3>1. \A i \in DOMAIN tries' : tries'[i] \in Retryable
      BY <2>2, <2>3
    <3>2. Len(tries') < Attempts
      BY <2>2, <2>3, AttemptsPositive DEF CallInv, TypeOK
    <3>. QED
      BY <1>3, <2>4, <2>5, <3>1, <3>2 DEF CallInv, UnderWay, PauseAfterFailure
  <2>. QED
    BY <2>3, <2>4, <2>5, <2>6 DEF CallInv, TypeOK, RetriesJustified, LoggedOnce, LogBehind
<1>4. CASE Retry
  BY <1>4 DEF Retry, CallInv, TypeOK, RetriesJustified, LoggedOnce, UnderWay, LogBehind
<1>5. CASE Fail
  <2>1. PICK m \in Caught : ~MayRetry(m) /\ tries' = Append(tries, m)
    BY <1>5 DEF Fail
  <2>2. m \notin Retryable \/ Len(tries) + 1 = Attempts
    BY <1>5, <2>1, AttemptsPositive DEF MayRetry, Attempt, CallInv, UnderWay, TypeOK, Fail
  <2>. QED
    BY <1>5, <2>1, <2>2, RetryableMet, CallEnded DEF Fail
<1>6. CASE Escape
  <2>1. PICK m \in Escaping : tries' = Append(tries, m)
    BY <1>6 DEF Escape
  <2>2. /\ tries' \in Seq(Met)
        /\ Len(tries') = Len(tries) + 1
        /\ Len(tries') <= Attempts
        /\ \A i \in 1..(Len(tries') - 1) : tries'[i] \in Retryable
    BY <1>6, <2>1, RetryableMet, OneMoreTry DEF Escape
  <2>. QED
    BY <1>6, <2>2
    DEF Escape, CallInv, TypeOK, Results, RetriesJustified, LoggedOnce, UnderWay, LogBehind
<1>7. CASE UNCHANGED vars
  BY <1>7 DEF vars, CallInv, TypeOK, RetriesJustified, LoggedOnce, UnderWay, LogBehind, Attempt
<1>. QED
  BY <1>1, <1>2, <1>3, <1>4, <1>5, <1>6, <1>7 DEF Next, Work, Rest

-----------------------------------------------------------------------------
\* What complete() keeps, whatever the provider does (llm.py:165-196, 300-343).
THEOREM CallInvariance == Spec => []CallInv
  BY CallInitially, CallNext, PTL DEF Spec

\* Types (llm.py:78-112, 154-196).
THEOREM ClientTypeCorrect == Spec => []TypeOK
  BY CallInvariance, PTL DEF CallInv

\* Retries are bounded and only follow failures worth one, for every configured
\* number of attempts, zero and below included (llm.py:39-46, 183-196).
THEOREM RetriesAlwaysJustified == Spec => []RetriesJustified
  BY CallInvariance, PTL DEF CallInv

\* Every call that ends as it should has one line, with its retries
\* (llm.py:78-112).
THEOREM CallsLoggedOnce == Spec => []LoggedOnce
  BY CallInvariance, PTL DEF CallInv
=============================================================================
