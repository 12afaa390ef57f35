-------------------------- MODULE Frontends_proofs --------------------------
(***************************************************************************)
(* Proofs about how runs go, end and are reported, for every value of the  *)
(* constants: the loop keeps the contract of RunContract, whoever asked    *)
(* gets a true reply, and the trace accounts for every call.               *)
(***************************************************************************)
EXTENDS Frontends, AgentLoop_proofs, FiniteSetTheorems

-----------------------------------------------------------------------------
(***************************************************************************)
(* The contract of a run.                                                  *)
(***************************************************************************)

Active == pc \in {"fit", "model", "tools"}

\* Why the loop keeps the contract: an iteration is one completion more than
\* were dealt with, and parse_failures is how many of the latest ones in a row
\* could not be parsed.
RunInv ==
    /\ Active => iter = Len(steps) + 1 /\ outcome = "none"
    /\ pc \in {"fit", "model"} =>
            failures = Streak(steps) /\ failures <= MaxParseRetries
    /\ pc \in {"model", "tools"} => iter <= MaxIterations
    /\ pc = "model" => step.shape = "answer"
    /\ pc = "tools" => failures = 0 /\ step.shape # "garbage"
    /\ outcome = "escaped" => pc = "exited"
    /\ pc = "fit" /\ steps # <<>> => iter <= MaxIterations + 1
    /\ outcome = "parse_retries" => Len(steps) = iter
    /\ outcome = "loop_exhausted" => Len(steps) = MaxIterations

\* One more completion: one more in a row, or none in a row.
LEMMA StreakAppend ==
    ASSUME NEW ss \in Seq(Step), NEW s \in Step
    PROVE  /\ Streak(ss) \in Nat
           /\ Streak(<<>>) = 0
           /\ s.shape = "garbage" => Streak(Append(ss, s)) = Streak(ss) + 1
           /\ s.shape # "garbage" => Streak(Append(ss, s)) = 0
PROOF
<1>. DEFINE g == Append(ss, s)
            n == Len(ss)
            Tail_(h) == {i \in DOMAIN h : \A j \in i..Len(h) : h[j].shape = "garbage"}
<1>1. /\ n \in Nat /\ Len(g) = n + 1 /\ DOMAIN ss = 1..n /\ DOMAIN g = 1..(n + 1)
      /\ \A i \in 1..n : g[i] = ss[i]
      /\ g[n + 1] = s
  OBVIOUS
<1>2. IsFiniteSet(Tail_(ss)) /\ Cardinality(Tail_(ss)) \in Nat
  <2>1. Tail_(ss) \subseteq 1..n /\ IsFiniteSet(1..n)
    BY <1>1, FS_Interval
  <2>. QED
    BY <2>1, FS_Subset, FS_CardinalityType
<1>3. Tail_(<<>>) = {}
  OBVIOUS
<1>4. ASSUME s.shape = "garbage" PROVE Tail_(g) = Tail_(ss) \union {n + 1}
  <2>. HIDE DEF g
  <2>. QED
    BY <1>1, <1>4
<1>5. ASSUME s.shape # "garbage" PROVE Tail_(g) = {}
  <2>. HIDE DEF g
  <2>. QED
    BY <1>1, <1>5
<1>6. n + 1 \notin Tail_(ss)
  BY <1>1
<1>7. s.shape = "garbage" => Cardinality(Tail_(g)) = Cardinality(Tail_(ss)) + 1
  BY <1>2, <1>4, <1>6, FS_AddElement
<1>8. s.shape # "garbage" => Cardinality(Tail_(g)) = 0
  BY <1>5, FS_EmptySet
<1>. QED
  BY <1>2, <1>3, <1>7, <1>8, FS_EmptySet DEF Streak

LEMMA InitRuns == Init => RunInv
  BY DEF Init, RunInv, Active, NoStep

LEMMA StepKeepsRuns == IInv /\ RunInv /\ [Next]_vars => RunInv'
PROOF
<1>. SUFFICES ASSUME IInv, RunInv, [Next]_vars PROVE RunInv'
  OBVIOUS
<1>0. TypeOK /\ MaxParseRetries \in Nat /\ MaxIterations \in Int
  BY AgentAssumption DEF IInv
<1>1. CASE BeginRun
  <2>1. Streak(<<>>) = 0 /\ Len(<<>>) = 0
    <3>1. <<>> \in Seq(Step)
      OBVIOUS
    <3>. QED
      BY <3>1, NoStepTyped, StreakAppend
  <2>. QED
    BY <1>0, <1>1, <2>1 DEF BeginRun, RunInv, Active
<1>2. CASE Fits \/ CannotFit \/ Compact
  BY <1>0, <1>2 DEF Fits, CannotFit, Compact, Fitted, LoopTop, NoStep, RunInv, Active, TypeOK
<1>3. CASE Quit \/ ModelFails \/ Answer \/ ToolEscapes
  BY <1>3 DEF Quit, ModelFails, Answer, ToolEscapes, RunInv, Active
<1>8. CASE GiveUpParsing
  <2>1. Len(steps') = Len(steps) + 1
    BY <1>0, <1>8 DEF GiveUpParsing, Emit, TypeOK
  <2>. QED
    BY <1>0, <1>8, <2>1 DEF GiveUpParsing, RunInv, Active
<1>9. CASE LoopExhausted
  BY <1>0, <1>9 DEF LoopExhausted, RunInv, Active, TypeOK
<1>4. CASE Nudge
  <2>1. Garbage \in Step /\ Garbage.shape = "garbage"
    BY <1>0 DEF Garbage, TypeOK, Step, Shapes
  <2>2. Streak(steps') = Streak(steps) + 1 /\ Len(steps') = Len(steps) + 1
    BY <1>0, <1>4, <2>1, StreakAppend DEF Nudge, Emit, TypeOK
  <2>. QED
    BY <1>0, <1>4, <2>2 DEF Nudge, RunInv, Active, TypeOK
<1>5. CASE RequestTools
  BY <1>0, <1>5 DEF RequestTools, RunInv, Active, TypeOK, Step
<1>6. CASE RunTool
  <2>. DEFINE done == [step EXCEPT !.results = step.results + 1]
  <2>1. done \in Step /\ done.shape = step.shape
    <3>1. step \in Step /\ step.results + 1 \in Nat
      BY <1>0 DEF TypeOK, Step
    <3>. QED
      BY <3>1 DEF Step
  <2>2. CASE step.results + 1 = Len(step.calls)
    <3>1. steps' = Append(steps, done) /\ iter' = iter + 1 /\ pc' = "fit"
      BY <1>6, <2>2 DEF RunTool, Emit
    <3>2. Streak(steps') = 0 /\ Len(steps') = Len(steps) + 1
      <4>1. done.shape # "garbage" /\ steps \in Seq(Step)
        BY <1>0, <1>6, <2>1 DEF RunInv, RunTool, TypeOK
      <4>. HIDE DEF done
      <4>2. Streak(Append(steps, done)) = 0 /\ Len(Append(steps, done)) = Len(steps) + 1
        BY <2>1, <4>1, StreakAppend
      <4>. QED
        BY <3>1, <4>2
    <3>. QED
      BY <1>0, <1>6, <3>1, <3>2 DEF RunTool, RunInv, Active, TypeOK
  <2>3. CASE step.results + 1 # Len(step.calls)
    BY <1>0, <1>6, <2>1, <2>3 DEF RunTool, RunInv, Active, TypeOK
  <2>. QED
    BY <2>2, <2>3
<1>7. CASE Exited \/ UNCHANGED vars
  BY <1>7 DEF Exited, vars, RunInv, Active, Streak
<1>. QED
  BY <1>1, <1>2, <1>3, <1>4, <1>5, <1>6, <1>7, <1>8, <1>9 DEF Next, RunStep

\* A step of the loop is a step of the contract, or none.
ContractStep == [Contract!Start \/ Contract!Left \/ Contract!Progress]_(Contract!contract)

LEMMA StepKeepsContract == IInv /\ RunInv /\ [Next]_vars => ContractStep
PROOF
<1>. SUFFICES ASSUME IInv, RunInv, [Next]_vars PROVE ContractStep
  OBVIOUS
<1>. USE DEF ContractStep, Contract!Progress
<1>0. TypeOK /\ MaxParseRetries \in Nat /\ MaxIterations \in Int
  BY AgentAssumption DEF IInv
<1>1. CASE BeginRun
  <2>1. Streak(<<>>) = 0 /\ Len(<<>>) = 0
    <3>1. <<>> \in Seq(Step)
      OBVIOUS
    <3>. QED
      BY <3>1, NoStepTyped, StreakAppend
  <2>2. Contract!Start
    BY <1>1, <2>1 DEF BeginRun, Contract!Start
  <2>. QED
    BY <2>2
<1>2. CASE Fits \/ CannotFit \/ Compact
  BY <1>2 DEF Fits, CannotFit, Compact, Fitted, LoopTop, Contract!contract, Contract!Died, Streak
<1>3. CASE Quit
  BY <1>3 DEF Quit, Contract!Left, Streak
<1>4. CASE ModelFails \/ ToolEscapes
  BY <1>4 DEF ModelFails, ToolEscapes, Contract!Died, Streak
<1>5. CASE LoopExhausted
  <2>1. Len(steps) >= MaxIterations
    BY <1>0, <1>5 DEF LoopExhausted, RunInv, Active, TypeOK
  <2>. QED
    BY <1>5, <2>1 DEF LoopExhausted, Contract!Died, Contract!Exhausted, Contract!Finish, Streak
<1>6. ASSUME pc = "model" PROVE Len(steps) < MaxIterations
  BY <1>0, <1>6 DEF RunInv, Active, TypeOK
<1>7. CASE Answer
  <2>1. Streak(steps') = 0 /\ Len(steps') = Len(steps) + 1
    BY <1>0, <1>7, StreakAppend DEF Answer, Emit, RunInv, TypeOK
  <2>2. Contract!Answered
    BY <1>6, <1>7, <2>1 DEF Answer, Contract!Answered, Contract!Ask, Contract!Finish
  <2>. QED
    BY <2>2
<1>8. CASE Nudge \/ GiveUpParsing
  <2>1. Garbage \in Step /\ Garbage.shape = "garbage"
    BY <1>0 DEF Garbage, TypeOK, Step, Shapes
  <2>2. Streak(steps') = Streak(steps) + 1 /\ Len(steps') = Len(steps) + 1
    <3>1. steps' = Append(steps, Garbage) /\ steps \in Seq(Step)
      BY <1>0, <1>8 DEF Nudge, GiveUpParsing, Emit, TypeOK
    <3>2. Streak(Append(steps, Garbage)) = Streak(steps) + 1
      BY <2>1, <3>1, StreakAppend
    <3>. QED
      BY <2>1, <3>1, <3>2
  <2>3. failures = Streak(steps) /\ failures \in Nat /\ failures <= MaxParseRetries
    BY <1>0, <1>8 DEF Nudge, GiveUpParsing, RunInv, TypeOK
  <2>4. CASE Nudge
    <3>1. Contract!Retried
      BY <1>0, <1>6, <2>2, <2>3, <2>4 DEF Nudge, Contract!Retried, Contract!Ask
    <3>. QED
      BY <3>1
  <2>5. CASE GiveUpParsing
    <3>1. Contract!ParsingFailed
      BY <1>0, <1>6, <2>2, <2>3, <2>5
         DEF GiveUpParsing, Contract!ParsingFailed, Contract!Ask, Contract!Finish
    <3>. QED
      BY <3>1
  <2>. QED
    BY <1>8, <2>4, <2>5
<1>9. CASE RequestTools
  BY <1>9 DEF RequestTools, Contract!contract, Streak
<1>10. CASE RunTool
  <2>. DEFINE done == [step EXCEPT !.results = step.results + 1]
  <2>1. done \in Step /\ done.shape # "garbage"
    <3>1. step \in Step /\ step.results + 1 \in Nat /\ step.shape # "garbage"
      BY <1>0, <1>10 DEF TypeOK, Step, RunTool, RunInv
    <3>. QED
      BY <3>1 DEF Step
  <2>2. CASE step.results + 1 = Len(step.calls)
    <3>1. steps' = Append(steps, done) /\ pc' = "fit" /\ pc = "tools"
      BY <1>10, <2>2 DEF RunTool, Emit
    <3>. HIDE DEF done
    <3>2. Streak(steps') = 0 /\ Len(steps') = Len(steps) + 1
      BY <1>0, <2>1, <3>1, StreakAppend DEF TypeOK
    <3>3. Len(steps) < MaxIterations
      BY <1>0, <3>1 DEF RunInv, Active, TypeOK
    <3>4. Contract!ToolsUsed
      BY <1>10, <3>1, <3>2, <3>3 DEF RunTool, Contract!ToolsUsed, Contract!Ask
    <3>. QED
      BY <3>4
  <2>3. CASE step.results + 1 # Len(step.calls)
    BY <1>10, <2>3 DEF RunTool, Contract!contract, Streak
  <2>. QED
    BY <2>2, <2>3
<1>11. CASE Exited \/ UNCHANGED vars
  BY <1>11 DEF Exited, vars, Contract!contract, Streak
<1>. QED
  BY <1>1, <1>2, <1>3, <1>4, <1>5, <1>7, <1>8, <1>9, <1>10, <1>11 DEF Next, RunStep

\* The loop does what RunContract promises its callers, for any limits: an
\* answer only for a completion that was neither a call nor a failed attempt at
\* one, at most max_iterations completions, no failure before its reason
\* (agent.py:54-82, 175-296).  That a run ends is checked by TLC.
THEOREM ContractKept == Spec => Contract!Safety
PROOF
<1>1. Init => Contract!Init
  <2>1. Streak(<<>>) = 0 /\ Len(<<>>) = 0
    <3>1. <<>> \in Seq(Step)
      OBVIOUS
    <3>. QED
      BY <3>1, NoStepTyped, StreakAppend
  <2>. QED
    BY <2>1 DEF Init, Contract!Init
<1>2. Init => IInv /\ RunInv
  BY InitIInv, InitRuns
<1>3. IInv /\ RunInv /\ [Next]_vars => IInv' /\ RunInv' /\ ContractStep
  BY StepKeepsIInv, StepKeepsRuns, StepKeepsContract
<1>. QED
  BY <1>1, <1>2, <1>3, PTL DEF Spec, Contract!Safety, ContractStep

-----------------------------------------------------------------------------
(***************************************************************************)
(* What the front ends are told.                                           *)
(***************************************************************************)

CallsIn(ss) == UNION {{i} \X DOMAIN ss[i].calls : i \in DOMAIN ss}

\* One more step asks for as many calls more as it has.
LEMMA CallsAppend ==
    ASSUME NEW ss \in Seq(Step), IsFiniteSet(CallsIn(ss)), NEW s \in Step
    PROVE  /\ IsFiniteSet(CallsIn(Append(ss, s)))
           /\ Cardinality(CallsIn(ss)) \in Nat
           /\ Cardinality(CallsIn(Append(ss, s))) = Cardinality(CallsIn(ss)) + Len(s.calls)
PROOF
<1>. DEFINE g == Append(ss, s)
            n == Len(ss) + 1
            more == {n} \X DOMAIN s.calls
<1>1. /\ n \in Nat \ {0} /\ DOMAIN ss = 1..(n - 1) /\ DOMAIN g = 1..n
      /\ \A i \in 1..(n - 1) : g[i] = ss[i]
      /\ g[n] = s
  OBVIOUS
<1>2. CallsIn(g) = CallsIn(ss) \union more
  <2>. HIDE DEF g, n
  <2>1. 1..n = 1..(n - 1) \union {n}
    BY <1>1
  <2>. QED
    BY <1>1, <2>1 DEF CallsIn
<1>3. CallsIn(ss) \cap more = {}
  <2>. HIDE DEF n
  <2>. QED
    BY <1>1 DEF CallsIn
<1>4. IsFiniteSet(more) /\ Cardinality(more) = Len(s.calls)
  <2>1. s.calls \in Seq(CallId)
    BY DEF Step
  <2>2. DOMAIN s.calls = 1..Len(s.calls) /\ Len(s.calls) \in Nat
    BY <2>1
  <2>3. IsFiniteSet(DOMAIN s.calls) /\ Cardinality(DOMAIN s.calls) = Len(s.calls)
    BY <2>2, FS_Interval
  <2>4. IsFiniteSet({n}) /\ Cardinality({n}) = 1
    BY FS_Singleton
  <2>5. IsFiniteSet(more) /\ Cardinality(more) = 1 * Len(s.calls)
    BY <2>3, <2>4, FS_Product
  <2>. QED
    BY <2>2, <2>5
<1>5. Cardinality(CallsIn(ss)) \in Nat
  BY FS_CardinalityType
<1>6. /\ IsFiniteSet(CallsIn(ss) \union more)
      /\ Cardinality(CallsIn(ss) \union more)
            = Cardinality(CallsIn(ss)) + Cardinality(more) - Cardinality(CallsIn(ss) \cap more)
  BY <1>4, FS_Union
<1>7. Cardinality(CallsIn(ss) \cap more) = 0
  BY <1>3, FS_EmptySet
<1>. QED
  <2>1. Len(s.calls) \in Nat
    BY DEF Step
  <2>. HIDE DEF g, more
  <2>. QED
    BY <1>2, <1>4, <1>5, <1>6, <1>7, <2>1 DEF g

LEMMA NoCalls == IsFiniteSet(CallsIn(<<>>)) /\ Cardinality(CallsIn(<<>>)) = 0
PROOF
<1>1. CallsIn(<<>>) = {}
  BY DEF CallsIn
<1>. QED
  BY <1>1, FS_EmptySet

\* The calls this run asked for, up to the step that is open.
Dealt == Cardinality(CallsIn(steps))

FrontTypeOK ==
    /\ front \in {"repl", "once", "http"}
    /\ records \in [steps: Nat, calls: Nat, compactions: Nat]
    /\ ran \in [now: Nat, all: Nat]
    /\ IsFiniteSet(CallsIn(steps))

\* Results are counted where the steps they belong to are: what was executed in
\* this run is what its steps asked for, and what the step that is open has got.
CountInv ==
    /\ pc = "model" => step.calls = <<>>
    /\ pc = "fit" /\ steps = <<>> => step.results = 0
    /\ pc = "tools" => ran.now = Dealt + step.results
    /\ pc # "tools" /\ outcome # "escaped" => ran.now = Dealt

\* A session of one run only: its records are its steps.
OnceInv ==
    /\ Active => run > 0
    /\ run = 0 => records = NoRecords /\ ran.all = 0
    /\ front # "repl" => run <= 1
    /\ front = "once" => records.steps = Len(steps) /\ records.calls = Dealt

ReplyInv ==
    /\ Active => reply = NoReply
    /\ outcome = "answer" =>
            pc \in {"repl", "exited"} /\ messages[Len(messages)].kind = "answer"
    /\ reply.told = "answer" =>
            /\ outcome = "answer"
            /\ reply.iterations = Len(steps)
            /\ reply.calls = Dealt
            /\ front = "once" => summary = records
    /\ reply.told = "failed" =>
            /\ outcome \in {"parse_retries", "loop_exhausted"}
            /\ front = "once" => summary = records

FrontInv == FrontTypeOK /\ CountInv /\ OnceInv /\ ReplyInv /\ TraceAccounts

LEMMA InitFront == FrontInit => FrontInv
  BY NoCalls DEF FrontInit, Init, FrontInv, FrontTypeOK, CountInv, OnceInv, ReplyInv,
     TraceAccounts, Dealt, Active, NoRecords, NoReply, NoStep

\* What the proofs below need of the history while a run goes on.
Ready == IInv /\ RunInv

\* Counting and recording follow the conversation and the steps.
LEMMA NothingCounted ==
    ASSUME TypeOK, Running, NEW m, messages' = Append(messages, m), m.role # "tool"
    PROVE  ran' = ran
PROOF
<1>1. messages'[Len(messages')] = m
  BY DEF TypeOK
<1>. QED
  BY <1>1 DEF Running, Count

LEMMA NothingRecorded ==
    ASSUME Running, steps' = steps
    PROVE  records' = records
  BY DEF Running, OnStep

LEMMA StepRecorded ==
    ASSUME TypeOK, Running, NEW s \in Step, steps' = Append(steps, s), front # "http"
    PROVE  records' = Record(s)
PROOF
<1>1. Len(steps') > Len(steps) /\ steps'[Len(steps')] = s
  BY DEF TypeOK
<1>. QED
  BY <1>1 DEF Running, OnStep

\* A step of a run that emits nothing and executes nothing.
LEMMA QuietKeeps ==
    ASSUME Ready, FrontInv, Running,
           Fits \/ CannotFit \/ Compact \/ ModelFails \/ ToolEscapes \/ LoopExhausted
    PROVE  FrontInv'
PROOF
<1>1. steps' = steps /\ added' = added /\ added \in Nat
  BY DEF Ready, IInv, TypeOK, Fits, CannotFit, Compact, Fitted, ModelFails, ToolEscapes,
     LoopExhausted
<1>2. UNCHANGED <<records, ran, front, reply, summary>>
  BY <1>1, NothingRecorded DEF Running, Count
<1>3. UNCHANGED run /\ Dealt' = Dealt /\ FrontTypeOK'
  BY <1>1, <1>2 DEF Fits, CannotFit, Compact, Fitted, ModelFails, ToolEscapes, LoopExhausted,
     Dealt, FrontInv, FrontTypeOK
<1>4. CASE Fits \/ CannotFit \/ (Compact /\ KnownStrategy)
  BY <1>1, <1>2, <1>3, <1>4 DEF Fits, CannotFit, Compact, Fitted, LoopTop, NoStep, Ready,
     RunInv, Active, FrontInv, CountInv, OnceInv, ReplyInv, TraceAccounts, FrontTypeOK, NoReply
<1>5. CASE ModelFails \/ ToolEscapes \/ LoopExhausted
  BY <1>1, <1>2, <1>3, <1>5 DEF ModelFails, ToolEscapes, LoopExhausted, Ready, Fresh, IInv,
     RunInv, Active, FrontInv, CountInv, OnceInv, ReplyInv, TraceAccounts, FrontTypeOK, NoReply
<1>6. CASE Compact /\ ~KnownStrategy
  <2>1. step'.results = 0 /\ pc = "fit" /\ pc' = "exited" /\ outcome' = "escaped"
    BY <1>6 DEF Compact, LoopTop, NoStep
  <2>. QED
    BY <1>1, <1>2, <1>3, <2>1 DEF Ready, RunInv, Active, FrontInv, CountInv, OnceInv,
       ReplyInv, TraceAccounts, FrontTypeOK, NoReply
<1>. QED
  BY <1>4, <1>5, <1>6

LEMMA RequestKeeps ==
    ASSUME Ready, FrontInv, Running, RequestTools
    PROVE  FrontInv'
PROOF
<1>1. PICK calls : messages' = Append(messages, AssistantMessage("calls", run, added + 1, 1, calls))
  BY DEF RequestTools
<1>2. ran' = ran
  BY <1>1, NothingCounted DEF AssistantMessage, Ready, IInv
<1>3. UNCHANGED <<steps, run, records, front, reply, summary, outcome>>
  BY NothingRecorded DEF Running, RequestTools
<1>4. step.results = 0 /\ step'.results = 0 /\ pc = "model" /\ pc' = "tools"
  BY DEF Ready, IInv, Fresh, RequestTools, TypeOK, Step
<1>5. Dealt' = Dealt /\ FrontTypeOK'
  BY <1>2, <1>3 DEF Dealt, FrontInv, FrontTypeOK
<1>. QED
  BY <1>2, <1>3, <1>4, <1>5 DEF Ready, RunInv, Active, FrontInv, CountInv, OnceInv, ReplyInv,
     TraceAccounts, FrontTypeOK, NoReply

\* A completion without calls is dealt with: its step is emitted, and has none.
LEMMA EmitKeeps ==
    ASSUME Ready, FrontInv, Running, Answer \/ Nudge \/ GiveUpParsing
    PROVE  FrontInv'
PROOF
<1>0. TypeOK /\ pc = "model" /\ pc' # "tools" /\ step.calls = <<>> /\ step.results = 0
  BY DEF Ready, IInv, Fresh, FrontInv, CountInv, Answer, Nudge, GiveUpParsing
<1>1. PICK s \in Step : steps' = Append(steps, s) /\ s.calls = <<>> /\ s.results = 0
  <2>1. step \in Step /\ Garbage \in Step /\ Garbage.calls = <<>> /\ Garbage.results = 0
    BY <1>0 DEF TypeOK, Garbage, Step, Shapes
  <2>. QED
    BY <1>0, <2>1 DEF Answer, Nudge, GiveUpParsing, Emit
<1>2. ran' = ran
  <2>1. CASE Answer
    BY <1>0, <2>1, NothingCounted DEF Answer, AssistantMessage
  <2>2. CASE Nudge
    <3>. DEFINE a == AssistantMessage("garbage", run, added + 1, 1, <<>>)
                u == UserMessage("nudge", run, added + 2, 1)
    <3>1. messages' = messages \o <<a, u>> /\ messages \in Seq(Message)
      BY <1>0, <2>2 DEF Nudge, TypeOK
    <3>2. u.role = "user"
      BY DEF UserMessage
    <3>. HIDE DEF a, u
    <3>3. messages'[Len(messages')] = u
      BY <3>1
    <3>. QED
      BY <3>2, <3>3 DEF Running, Count
  <2>3. CASE GiveUpParsing
    BY <1>0, <2>3 DEF GiveUpParsing, Running, Count, TypeOK
  <2>. QED
    BY <2>1, <2>2, <2>3
<1>3. UNCHANGED <<run, step, front, reply, summary>>
  BY DEF Running, Answer, Nudge, GiveUpParsing
<1>4. Dealt' = Dealt /\ Dealt \in Nat /\ IsFiniteSet(CallsIn(steps))'
  <2>1. IsFiniteSet(CallsIn(steps)) /\ steps \in Seq(Step)
    BY <1>0 DEF FrontInv, FrontTypeOK, TypeOK
  <2>2. /\ IsFiniteSet(CallsIn(Append(steps, s)))
        /\ Cardinality(CallsIn(steps)) \in Nat
        /\ Cardinality(CallsIn(Append(steps, s))) = Cardinality(CallsIn(steps)) + Len(s.calls)
    BY <2>1, CallsAppend
  <2>. QED
    BY <1>1, <2>2 DEF Dealt
<1>5. IF front = "http" THEN records' = records ELSE records' = Record(s)
  <2>1. front = "http" => records' = records
    BY DEF Running, OnStep
  <2>2. front # "http" => records' = Record(s)
    BY <1>0, <1>1, StepRecorded
  <2>. QED
    BY <2>1, <2>2
<1>6. FrontTypeOK' /\ (front # "http" => records'.calls = records.calls
                                         /\ records'.steps = records.steps + 1)
  BY <1>1, <1>2, <1>3, <1>4, <1>5 DEF FrontInv, FrontTypeOK, Record
<1>7. Len(steps') = Len(steps) + 1 /\ steps' # <<>>
  BY <1>0, <1>1 DEF TypeOK
<1>8. outcome' = "answer" => pc' = "repl" /\ messages'[Len(messages')].kind = "answer"
  <2>1. CASE Answer
    BY <1>0, <2>1 DEF Answer, AssistantMessage, TypeOK
  <2>2. CASE Nudge \/ GiveUpParsing
    BY <1>0, <2>2 DEF Nudge, GiveUpParsing, Ready, RunInv, Active
  <2>. QED
    BY <2>1, <2>2
<1>9. outcome' # "escaped" /\ outcome = "none" /\ reply = NoReply /\ (run' = 0 <=> run = 0) /\ run > 0
  BY <1>0, <1>3 DEF Answer, Nudge, GiveUpParsing, Ready, RunInv, Active, FrontInv, ReplyInv, OnceInv
<1>10. CountInv' /\ OnceInv' /\ TraceAccounts'
  BY <1>0, <1>2, <1>3, <1>4, <1>6, <1>7, <1>9 DEF FrontInv, CountInv, OnceInv, TraceAccounts,
     Answer, Nudge, GiveUpParsing, Active
<1>11. ReplyInv'
  BY <1>0, <1>3, <1>8, <1>9 DEF FrontInv, ReplyInv, NoReply
<1>. QED
  BY <1>6, <1>10, <1>11 DEF FrontInv

\* One call is executed: it is counted, and with the last of its completion the
\* step is emitted.
LEMMA ToolKeeps ==
    ASSUME Ready, FrontInv, Running, RunTool
    PROVE  FrontInv'
PROOF
<1>. DEFINE done == [step EXCEPT !.results = step.results + 1]
<1>0. /\ TypeOK /\ pc = "tools" /\ step \in Step /\ step.results \in Nat
      /\ step.results < Len(step.calls)
  BY DEF Ready, IInv, Paired, RunTool, TypeOK, Step
<1>1. done \in Step /\ done.calls = step.calls /\ done.results = step.results + 1
  BY <1>0 DEF Step
<1>2. step' = done /\ UNCHANGED <<run, outcome, front, reply, summary>>
  BY DEF RunTool, Running
<1>3. ran' = [now |-> ran.now + 1, all |-> ran.all + 1]
  <2>1. PICK m : messages' = Append(messages, m) /\ m.role = "tool"
    <3>1. PICK size \in ResultSizes, saved \in BOOLEAN :
            messages' = Append(messages,
                            ToolMessage(ResultKind(size, saved), run, added + 1,
                                        TrimmedCost(size), step.calls[step.results + 1]))
      BY DEF RunTool
    <3>. QED
      BY <3>1 DEF ToolMessage
  <2>2. messages'[Len(messages')] = m
    BY <1>0, <2>1 DEF TypeOK
  <2>3. added' > added
    BY <1>0 DEF RunTool, TypeOK
  <2>. QED
    BY <2>1, <2>2, <2>3 DEF Running, Count
<1>4. /\ ran \in [now: Nat, all: Nat] /\ ran.now = Dealt + step.results
      /\ outcome = "none" /\ reply = NoReply /\ run > 0
      /\ IsFiniteSet(CallsIn(steps)) /\ steps \in Seq(Step)
  BY <1>0 DEF FrontInv, FrontTypeOK, CountInv, ReplyInv, OnceInv, Ready, RunInv, Active, TypeOK
<1>5. Dealt \in Nat
  BY <1>4, FS_CardinalityType DEF Dealt
<1>8. /\ records.steps \in Nat /\ records.calls \in Nat /\ records.compactions \in Nat
      /\ step.results \in Nat
  BY <1>0 DEF FrontInv, FrontTypeOK
<1>9. /\ ran.now = Dealt + step.results
      /\ ran.now' = ran.now + 1 /\ ran.all' = ran.all + 1
      /\ ran.now \in Nat /\ ran.all \in Nat
      /\ front # "http" => records.calls + step.results = ran.all
      /\ outcome' = "none" /\ step'.results = step.results + 1
      /\ (front = "once" => records.steps = Len(steps) /\ records.calls = Dealt)
      /\ (front # "repl" => run' <= 1) /\ run' > 0 /\ front' = front
  BY <1>0, <1>1, <1>2, <1>3, <1>4 DEF FrontInv, FrontTypeOK, TraceAccounts, OnceInv
<1>6. CASE step.results + 1 = Len(step.calls)
  <2>1. steps' = Append(steps, done) /\ pc' = "fit"
    BY <1>6 DEF RunTool, Emit
  <2>. HIDE DEF done
  <2>2. Dealt' = Dealt + Len(step.calls) /\ IsFiniteSet(CallsIn(steps))'
    <3>1. /\ IsFiniteSet(CallsIn(Append(steps, done)))
          /\ Cardinality(CallsIn(Append(steps, done)))
                = Cardinality(CallsIn(steps)) + Len(done.calls)
      BY <1>1, <1>4, CallsAppend
    <3>. QED
      BY <1>1, <2>1, <3>1 DEF Dealt
  <2>3. IF front = "http" THEN records' = records ELSE records' = Record(done)
    <3>1. front = "http" => records' = records
      BY DEF Running, OnStep
    <3>2. front # "http" => records' = Record(done)
      BY <1>0, <1>1, <2>1, StepRecorded
    <3>. QED
      BY <3>1, <3>2
  <2>4. FrontTypeOK' /\ (front # "http" =>
            /\ records'.calls = records.calls + step.results + 1
            /\ records'.steps = records.steps + 1)
    <3>1. CASE front = "http"
      BY <1>2, <1>3, <1>8, <2>2, <2>3, <3>1 DEF FrontInv, FrontTypeOK
    <3>2. CASE front # "http"
      <4>1. records' = [steps |-> records.steps + 1, calls |-> records.calls + (step.results + 1),
                        compactions |-> records.compactions
                                            + (IF done.compacted THEN 1 ELSE 0)]
        BY <1>1, <2>3, <3>2 DEF Record
      <4>2. records.compactions + (IF done.compacted THEN 1 ELSE 0) \in Nat
        BY <1>8
      <4>3. records' \in [steps: Nat, calls: Nat, compactions: Nat]
        BY <1>8, <4>1, <4>2
      <4>4. /\ records'.calls = records.calls + step.results + 1
            /\ records'.steps = records.steps + 1
        BY <1>0, <1>8, <4>1
      <4>5. ran' \in [now: Nat, all: Nat]
        BY <1>3, <1>9
      <4>. QED
        BY <1>2, <2>2, <4>3, <4>4, <4>5 DEF FrontInv, FrontTypeOK
    <3>. QED
      BY <3>1, <3>2
  <2>5. Len(steps') = Len(steps) + 1 /\ steps' # <<>>
    BY <1>4, <2>1
  <2>6. ran'.now = Dealt'
    BY <1>5, <1>6, <1>8, <1>9, <2>2
  <2>7. CountInv' /\ TraceAccounts' /\ OnceInv'
    <3>1. CountInv'
      BY <2>1, <2>5, <2>6 DEF CountInv
    <3>2. TraceAccounts'
      BY <1>8, <1>9, <2>1, <2>4 DEF TraceAccounts
    <3>3. OnceInv'
      <4>1. run' = run /\ Len(steps) \in Nat
        BY <1>2, <1>4
      <4>2. front = "once" => records'.steps = Len(steps') /\ records'.calls = Dealt'
        <5>. SUFFICES ASSUME front = "once"
                      PROVE  records'.steps = Len(steps') /\ records'.calls = Dealt'
          OBVIOUS
        <5>1. records.steps = Len(steps) /\ records.calls = Dealt
          BY <1>9
        <5>2. /\ records'.calls = records.calls + step.results + 1
              /\ records'.steps = records.steps + 1
          BY <2>4
        <5>3. Dealt' = Dealt + Len(step.calls) /\ Len(steps') = Len(steps) + 1
          BY <2>2, <2>5
        <5>. QED
          BY <1>5, <1>6, <1>8, <4>1, <5>1, <5>2, <5>3
      <4>3. run' # 0
        BY <1>0, <1>9 DEF TypeOK
      <4>. QED
        BY <1>9, <4>2, <4>3 DEF OnceInv
    <3>. QED
      BY <3>1, <3>2, <3>3
  <2>8. ReplyInv'
    BY <1>2, <1>4, <2>1 DEF FrontInv, ReplyInv, NoReply
  <2>. QED
    BY <2>4, <2>7, <2>8 DEF FrontInv
<1>7. CASE step.results + 1 # Len(step.calls)
  <2>1. steps' = steps /\ pc' = "tools"
    BY <1>0, <1>7 DEF RunTool
  <2>2. records' = records /\ Dealt' = Dealt
    BY <2>1, NothingRecorded DEF Dealt
  <2>. HIDE DEF done
  <2>3. FrontTypeOK'
    BY <1>2, <1>3, <1>4, <2>1, <2>2 DEF FrontInv, FrontTypeOK
  <2>4. CountInv' /\ OnceInv'
    BY <1>0, <1>1, <1>2, <1>3, <1>4, <1>5, <2>1, <2>2 DEF FrontInv, CountInv, OnceInv, Active
  <2>5. TraceAccounts'
    BY <1>8, <1>9, <2>1, <2>2 DEF TraceAccounts
  <2>6. ReplyInv'
    BY <1>2, <1>4, <2>1 DEF FrontInv, ReplyInv, NoReply
  <2>. QED
    BY <2>3, <2>4, <2>5, <2>6 DEF FrontInv
<1>. QED
  BY <1>6, <1>7

\* A run begins: nothing is counted yet.
LEMMA BeginKeeps ==
    ASSUME Ready, FrontInv, Begin
    PROVE  FrontInv'
PROOF
<1>1. /\ pc' = "fit" /\ steps' = <<>> /\ step' = NoStep /\ outcome' = "none"
      /\ run' = run + 1 /\ run \in Nat /\ pc = "repl" /\ (front # "repl" => run = 0)
      /\ reply' = NoReply /\ ran' = [ran EXCEPT !.now = 0]
      /\ UNCHANGED <<front, records, summary>>
  BY DEF Begin, BeginRun, Ready, IInv, TypeOK
<1>2. Dealt' = 0 /\ FrontTypeOK'
  BY <1>1, NoCalls DEF Dealt, FrontInv, FrontTypeOK
<1>3. outcome # "escaped"
  BY <1>1 DEF Ready, RunInv
<1>4. ran.all' = ran.all /\ ran.now' = 0
  BY <1>1 DEF FrontInv, FrontTypeOK
<1>5. CountInv' /\ OnceInv' /\ ReplyInv'
  BY <1>1, <1>2, <1>4 DEF FrontInv, CountInv, OnceInv, ReplyInv, NoStep, NoReply, NoRecords, Active
<1>6. TraceAccounts'
  BY <1>1, <1>3, <1>4 DEF FrontInv, TraceAccounts
<1>. QED
  BY <1>2, <1>5, <1>6 DEF FrontInv

LEMMA ReplyKeeps ==
    ASSUME Ready, FrontInv, Refuse \/ Respond \/ Leave \/ UNCHANGED fvars
    PROVE  FrontInv'
PROOF
<1>1. CASE Refuse
  BY <1>1 DEF Refuse, vars, Ready, FrontInv, FrontTypeOK, CountInv, OnceInv, ReplyInv,
     TraceAccounts, Dealt, Active, NoReply, CallsIn
<1>2. CASE Respond
  <2>1. /\ UNCHANGED <<vars, front, records, ran>> /\ ~Active
        /\ outcome # "none" /\ reply = NoReply
    BY <1>2 DEF Respond, Active
  <2>2. FrontTypeOK' /\ CountInv' /\ OnceInv' /\ TraceAccounts' /\ Dealt' = Dealt
    BY <2>1 DEF vars, FrontInv, FrontTypeOK, CountInv, OnceInv, TraceAccounts, Dealt, Active
  <2>3. CASE outcome = "answer"
    <3>1. /\ reply' = [told |-> "answer", iterations |-> Len(steps), calls |-> Dealt]
          /\ front = "once" => summary' = records
      BY <1>2, <2>3 DEF Respond, AgentRun, Dealt, CallsIn, CallsOf, Told
    <3>2. ReplyInv'
      BY <2>1, <2>2, <2>3, <3>1 DEF vars, FrontInv, ReplyInv, Active
    <3>. QED
      BY <2>2, <3>2 DEF FrontInv
  <2>4. CASE outcome # "answer"
    <3>1. /\ reply'.told # "answer"
          /\ reply'.told = "failed" =>
                /\ outcome \in {"parse_retries", "loop_exhausted"}
                /\ front = "once" => summary' = records
      BY <1>2, <2>4 DEF Respond, Told, NoReply
    <3>2. ReplyInv'
      BY <2>1, <2>2, <2>4, <3>1 DEF vars, FrontInv, ReplyInv, Active
    <3>. QED
      BY <2>2, <3>2 DEF FrontInv
  <2>. QED
    BY <2>3, <2>4
<1>3. CASE Leave
  BY <1>3 DEF Leave, Quit, Ready, RunInv, FrontInv, FrontTypeOK, CountInv, OnceInv, ReplyInv,
     TraceAccounts, Dealt, Active, NoReply, CallsIn
<1>4. CASE UNCHANGED fvars
  BY <1>4 DEF fvars, vars, FrontInv, FrontTypeOK, CountInv, OnceInv, ReplyInv,
     TraceAccounts, Dealt, Active, NoReply, CallsIn
<1>. QED
  BY <1>1, <1>2, <1>3, <1>4

-----------------------------------------------------------------------------
\* Whoever drives it, the loop takes the steps of AgentLoop and no others.
LEMMA FrontStepIsStep == [FrontNext]_fvars => [Next]_vars
  BY DEF FrontNext, fvars, Running, Begin, Refuse, Respond, Leave, Over, Next, vars

LEMMA StepKeepsFront ==
    IInv /\ RunInv /\ FrontInv /\ [FrontNext]_fvars => FrontInv'
PROOF
<1>. SUFFICES ASSUME Ready, FrontInv, [FrontNext]_fvars PROVE FrontInv'
  BY DEF Ready
<1>1. CASE Running
  <2>1. \/ Fits \/ CannotFit \/ Compact \/ ModelFails \/ ToolEscapes \/ LoopExhausted
        \/ RequestTools \/ Answer \/ Nudge \/ GiveUpParsing \/ RunTool
    BY <1>1 DEF Running, RunStep
  <2>. QED
    BY <1>1, <2>1, QuietKeeps, RequestKeeps, EmitKeeps, ToolKeeps
<1>2. CASE Begin
  BY <1>2, BeginKeeps
<1>3. CASE Refuse \/ Respond \/ Leave \/ Over \/ UNCHANGED fvars
  BY <1>3, ReplyKeeps DEF Over
<1>. QED
  BY <1>1, <1>2, <1>3 DEF FrontNext

\* The inductive invariant, in every state of every session: the steps, counters,
\* records and replies say the same of what was executed (agent.py:170-296,
\* trace.py:65-129, cli.py:115-169, server.py:64-95).
THEOREM FrontInvariance == FrontSpec => [](IInv /\ RunInv /\ FrontInv)
PROOF
<1>1. FrontInit => IInv /\ RunInv /\ FrontInv
  BY InitIInv, InitRuns, InitFront DEF FrontInit
<1>2. IInv /\ RunInv /\ FrontInv /\ [FrontNext]_fvars
        => IInv' /\ RunInv' /\ FrontInv'
  BY FrontStepIsStep, StepKeepsIInv, StepKeepsRuns, StepKeepsFront
<1>. QED
  BY <1>1, <1>2, PTL DEF FrontSpec

\* A front end drives the loop and does nothing else to it: what is proved of
\* the loop's steps holds under each of them (cli.py:115-136, server.py:85-95).
THEOREM FrontendsDriveLoop == FrontSpec => Init /\ [][Next]_vars
PROOF
<1>1. FrontInit => Init
  BY DEF FrontInit
<1>. QED
  BY <1>1, FrontStepIsStep, PTL DEF FrontSpec

\* The trace accounts for every tool that was executed, in any number of runs of
\* any length, but for those of the step that is open or in which something was
\* raised (agent.py:281-289, trace.py:65-92).
THEOREM TraceAlwaysAccounts == FrontSpec => []TraceAccounts
PROOF
<1>1. FrontInv => TraceAccounts
  BY DEF FrontInv
<1>. QED
  BY <1>1, FrontInvariance, PTL

\* Who gets an answer is told the truth about how it came to be, for any limits
\* on iterations, retries and calls (server.py:89-95, cli.py:131-135).
THEOREM RepliesAreTrue == FrontSpec => []ReplyTrue
PROOF
<1>1. RunInv /\ FrontInv => ReplyTrue
  <2>. SUFFICES ASSUME RunInv, FrontInv, reply.told = "answer"
                PROVE  /\ outcome = "answer"
                       /\ messages[Len(messages)].kind = "answer"
                       /\ reply.calls = ran.now
                       /\ front = "once" =>
                            summary.calls = ran.now /\ summary.steps = reply.iterations
    BY DEF ReplyTrue
  <2>1. /\ outcome = "answer" /\ reply.calls = Dealt /\ reply.iterations = Len(steps)
        /\ front = "once" => summary = records
        /\ pc \in {"repl", "exited"} /\ messages[Len(messages)].kind = "answer"
    BY DEF FrontInv, ReplyInv
  <2>2. ran.now = Dealt /\ (front = "once" => records.steps = Len(steps) /\ records.calls = Dealt)
    BY <2>1 DEF FrontInv, CountInv, OnceInv
  <2>. QED
    BY <2>1, <2>2
<1>. QED
  BY <1>1, FrontInvariance, PTL

\* The summary that the command line shows of a run that failed is of the whole
\* run, for any limits on iterations, retries and calls (cli.py:119-123).
THEOREM FailuresAreShown == FrontSpec => []FailureShown
PROOF
<1>1. RunInv /\ FrontInv => FailureShown
  <2>. SUFFICES ASSUME RunInv, FrontInv, front = "once", reply.told = "failed"
                PROVE  /\ summary.calls = ran.now
                       /\ summary.steps = IF outcome = "parse_retries" THEN iter
                                                                       ELSE MaxIterations
    BY DEF FailureShown
  <2>1. outcome \in {"parse_retries", "loop_exhausted"} /\ summary = records
    BY DEF FrontInv, ReplyInv
  <2>2. pc # "tools" /\ records.steps = Len(steps) /\ records.calls = Dealt
    BY <2>1 DEF RunInv, Active, FrontInv, OnceInv
  <2>3. ran.now = Dealt
    BY <2>1, <2>2 DEF FrontInv, CountInv
  <2>. QED
    BY <2>1, <2>2, <2>3 DEF RunInv
<1>. QED
  BY <1>1, FrontInvariance, PTL
=============================================================================
