-------------------------- MODULE ToolCalls_proofs --------------------------
(***************************************************************************)
(* Proofs about the execution of the calls of a completion                 *)
(* (tools/registry.py, permissions.py, tools/, executor/), for every       *)
(* project, set of tools, session, number of calls and both timeouts, and  *)
(* whatever calls the parser returns.                                      *)
(*                                                                         *)
(* The argument: a call is granted before any tool is started for it, and  *)
(* grants last.  A call leaves a job behind only when it is a command that *)
(* was spawned or sent; what a job may still do is known from its state,   *)
(* and a job that can still do anything belongs to the current call or to  *)
(* one that was reported unreachable.                                      *)
(***************************************************************************)
EXTENDS Scanner_proofs

Refusals == {"unknown", "invalid", "disabled", "declined", "refused", "escaped"}

\* What run_command and the service say, as the client hears it.
Answers == {"ok", "error", "status", "refused"}

Places == {"reading", "parsing", "call", "asking", "run", "bash", "done"}

Entry == [call: Nat, tool: Registered, policy: {"allow", "ask", "auto", "deny"},
          allowed: BOOLEAN]

Job(j) == [state: JobStates, place: {"agent", "executor"}, ran: Nat, delay: Nat,
           cut: BOOLEAN, answer: Ends, args: {j.args}]

Touched(k) == \E e \in effects : e.call = k

RanBash(k) == \E e \in effects : e.call = k /\ e.tool = "bash"

\* The permission layer let call k through to the tool.
Granted(k, tool) ==
    /\ \E i \in DOMAIN audit :
        audit[i].call = k /\ audit[i].tool = tool /\ audit[i].allowed
    /\ \/ tool \notin Writes
       \/ k \in approved
       \/ session.auto_approve
       \/ tool \in DOMAIN session.policies /\ session.policies[tool] = "allow"

Types ==
    /\ pc \in Places
    /\ results \in Seq(Ends)
    /\ audit \in Seq(Entry)
    /\ waited \in Nat
    /\ jobs = [k \in DOMAIN jobs |-> jobs[k]]
    /\ \A k \in DOMAIN jobs : jobs[k] \in Job(jobs[k])

\* Where the current call is: only a command under way has a job.
Turn ==
    /\ \A k \in DOMAIN jobs : k \in Nat /\ (k < N \/ (k = N /\ pc = "bash"))
    /\ pc = "bash" => N \in DOMAIN jobs /\ Tool = "bash"
    /\ pc \in {"asking", "run", "bash"} => Tool \in Registered
    /\ pc \in {"run", "bash"} => Granted(N, Tool)

EffectsInv ==
    \A e \in effects :
        /\ e.call \in Nat
        /\ e.call < N \/ (e.call = N /\ pc = "bash")
        /\ Granted(e.call, e.tool)
        /\ session.remote /\ e.tool = "bash" => e.node = "executor"

JobInv(k) ==
    /\ Granted(k, "bash")
    /\ jobs[k].state = "queued" =>
        ~Touched(k) /\ jobs[k].ran = 0 /\ jobs[k].place = "executor"
    /\ jobs[k].state = "running" => RanBash(k) /\ jobs[k].ran <= CommandTimeout
    /\ jobs[k].state = "answered" =>
        /\ jobs[k].answer \in Answers
        /\ jobs[k].answer = "refused" => ~Touched(k)
        /\ jobs[k].answer = "ok" => RanBash(k)

\* What the client has waited, its command has waited or run.
Clock ==
    pc = "bash" /\ jobs[N].place = "executor" /\ ~jobs[N].cut =>
        /\ jobs[N].state = "queued" => waited = jobs[N].delay
        /\ jobs[N].state = "running" => waited = jobs[N].delay + jobs[N].ran

ResultInv(k) ==
    /\ results[k] \in Refusals => ~Touched(k)
    /\ k \in DOMAIN jobs =>
        /\ results[k] = "ok" => RanBash(k)
        /\ jobs[k].state \in {"queued", "running"} => results[k] = "unreachable"
        /\ results[k] = "unreachable" =>
            jobs[k].cut \/ jobs[k].delay + CommandTimeout >= ClientTimeout

CallsInv ==
    /\ Types
    /\ Turn
    /\ EffectsInv
    /\ \A k \in DOMAIN jobs : JobInv(k)
    /\ Clock
    /\ \A k \in DOMAIN results : ResultInv(k)

-----------------------------------------------------------------------------
\* The properties follow.
LEMMA InvImplies ==
    ASSUME CallsInv
    PROVE  Approved /\ ToldTrue /\ NoLocalFallback /\ SlowIsNotLost /\ OneAtATime
PROOF
<1>1. Approved
  BY DEF CallsInv, EffectsInv, Granted, Approved
<1>2. ToldTrue
  BY DEF CallsInv, ResultInv, ToldTrue, Touched, RanBash, Refusals
<1>3. NoLocalFallback
  BY DEF CallsInv, EffectsInv, NoLocalFallback
<1>4. SlowIsNotLost
  BY DEF CallsInv, ResultInv, SlowIsNotLost
<1>5. OneAtATime
  BY DEF CallsInv, ResultInv, OneAtATime
<1>. QED
  BY <1>1, <1>2, <1>3, <1>4, <1>5

LEMMA InvInitially == Init => CallsInv
PROOF
<1>. SUFFICES ASSUME Init PROVE CallsInv
  OBVIOUS
<1>1. /\ pc = "reading" /\ results = <<>> /\ audit = <<>> /\ effects = {}
      /\ waited = 0 /\ jobs = <<>>
  BY DEF Init
<1>2. DOMAIN jobs = {} /\ DOMAIN results = {}
  BY <1>1
<1>3. Types
  BY <1>1, <1>2 DEF Types, Places
<1>. QED
  BY <1>1, <1>2, <1>3 DEF CallsInv, Turn, EffectsInv, Clock

\* The number of the current call.
LEMMA CallNumber ==
    ASSUME Types
    PROVE  /\ N \in Nat \ {0} /\ DOMAIN results = 1..(N - 1) /\ N \notin DOMAIN results
BY DEF Types, N

\* Grants last.
LEMMA GrantsLast ==
    ASSUME Types, NEW k, NEW tool, Granted(k, tool), session' = session,
           approved \subseteq approved',
           \/ audit' = audit
           \/ \E entry \in Entry : audit' = Append(audit, entry)
    PROVE  Granted(k, tool)'
PROOF
<1>1. PICK i \in DOMAIN audit : audit[i].call = k /\ audit[i].tool = tool /\ audit[i].allowed
  BY DEF Granted
<1>2. i \in DOMAIN audit' /\ audit'[i] = audit[i]
  BY DEF Types
<1>. QED
  BY <1>1, <1>2 DEF Granted

-----------------------------------------------------------------------------
(***************************************************************************)
(* The kinds of steps.  First those that end no call and start no command. *)
(***************************************************************************)

\* Nothing happens to calls, jobs and effects.
LEMMA QuietStep ==
    ASSUME CallsInv,
           UNCHANGED <<session, results, approved, audit, effects, jobs>>,
           pc' \in Places, waited' = waited,
           pc = "bash" => pc' = "bash",
           pc' \in {"run", "bash"} => pc' = pc /\ UNCHANGED calls,
           pc' = "asking" => Tool' \in Registered
    PROVE  CallsInv'
PROOF
<1>. USE DEF CallsInv
<1>1. Types'
  BY DEF Types
<1>2. N' = N
  BY DEF N
<1>3. \A k, t : Granted(k, t)' = Granted(k, t)
  BY DEF Granted
<1>4. pc' \in {"run", "bash"} => Tool' = Tool
  BY DEF Tool, Call
<1>5. Turn'
  BY <1>2, <1>3, <1>4 DEF Turn
<1>6. EffectsInv'
  BY <1>2, <1>3 DEF EffectsInv
<1>7. (\A k \in DOMAIN jobs : JobInv(k))'
  BY <1>3 DEF JobInv, Touched, RanBash
<1>8. Clock'
  BY <1>2 DEF Clock
<1>9. (\A k \in DOMAIN results : ResultInv(k))'
  BY DEF ResultInv, Touched, RanBash
<1>. QED
  BY <1>1, <1>5, <1>6, <1>7, <1>8, <1>9

\* The permission layer lets the current call through.
LEMMA PermitStep ==
    ASSUME CallsInv, pc \in {"call", "asking"}, Tool \in Registered,
           NEW policy \in {"allow", "ask", "auto", "deny"}, Note(policy, TRUE), Proceed,
           approved \subseteq approved', UNCHANGED <<jobs, waited>>,
           \/ Tool \notin Writes
           \/ N \in approved'
           \/ session.auto_approve
           \/ Tool \in DOMAIN session.policies /\ session.policies[Tool] = "allow"
    PROVE  CallsInv'
PROOF
<1>. USE DEF CallsInv
<1> DEFINE entry == [call |-> N, tool |-> Tool, policy |-> policy, allowed |-> TRUE]
<1>1. /\ pc' = "run" /\ UNCHANGED <<session, calls, results, effects>>
      /\ audit' = Append(audit, entry)
  BY DEF Note, Proceed
<1>2. N' = N /\ Tool' = Tool /\ N \in Nat \ {0}
  BY <1>1, CallNumber DEF N, Tool, Call
<1>3. entry \in Entry
  BY <1>2 DEF Entry
<1>. HIDE DEF entry
<1>4. Types'
  BY <1>1, <1>3 DEF Types, Places
<1>5. \A k, t : Granted(k, t) => Granted(k, t)'
  BY <1>1, <1>3, GrantsLast
<1>6. Granted(N, Tool)'
  <2>1. /\ Len(audit') \in DOMAIN audit' /\ audit'[Len(audit')] = entry
    BY <1>1, <1>3 DEF Types
  <2>2. entry.call = N /\ entry.tool = Tool /\ entry.allowed
    BY DEF entry
  <2>. QED
    BY <1>1, <1>2, <2>1, <2>2 DEF Granted
<1>7. Turn'
  BY <1>1, <1>2, <1>6 DEF Turn
<1>8. EffectsInv'
  BY <1>1, <1>2, <1>5 DEF EffectsInv
<1>9. (\A k \in DOMAIN jobs : JobInv(k))'
  BY <1>1, <1>5 DEF JobInv, Touched, RanBash
<1>10. Clock'
  BY <1>1 DEF Clock
<1>11. (\A k \in DOMAIN results : ResultInv(k))'
  BY <1>1 DEF ResultInv, Touched, RanBash
<1>. QED
  BY <1>4, <1>7, <1>8, <1>9, <1>10, <1>11

-----------------------------------------------------------------------------
(***************************************************************************)
(* Steps that end a call.                                                  *)
(***************************************************************************)

\* What Return does, by whatever end.
LEMMA Returned ==
    ASSUME Types, NEW end \in Ends, Return(end)
    PROVE  /\ results' \in Seq(Ends) /\ N' = N + 1 /\ pc' \in {"call", "done"}
           /\ DOMAIN results' = DOMAIN results \union {N}
           /\ results'[N] = end
           /\ \A k \in DOMAIN results : results'[k] = results[k]
BY DEF Types, N, Return

\* A call that started no command ends.  Only a tool that got to something
\* leaves effects, and says so.
LEMMA EndStep ==
    ASSUME CallsInv, pc \in {"call", "asking", "run"},
           NEW end \in Ends, Return(end),
           UNCHANGED <<session, approved, jobs, waited>>,
           \/ audit' = audit
           \/ \E entry \in Entry : audit' = Append(audit, entry),
           NEW new, effects' = effects \union new,
           new # {} => end \notin Refusals /\ Tool # "bash" /\ Granted(N, Tool),
           \A e \in new : e.call = N /\ e.tool = Tool
    PROVE  CallsInv'
PROOF
<1>. USE DEF CallsInv
<1>1. /\ results' \in Seq(Ends) /\ N' = N + 1 /\ pc' \in {"call", "done"}
      /\ DOMAIN results' = DOMAIN results \union {N}
      /\ results'[N] = end
      /\ \A k \in DOMAIN results : results'[k] = results[k]
  BY Returned
<1>2. N \in Nat \ {0} /\ DOMAIN results = 1..(N - 1)
  BY CallNumber
<1>3. audit' \in Seq(Entry)
  BY DEF Types
<1>4. Types'
  BY <1>1, <1>3 DEF Types, Places
<1>5. \A k, t : Granted(k, t) => Granted(k, t)'
  BY GrantsLast
<1>6. Turn'
  BY <1>1, <1>2 DEF Turn
<1>7. EffectsInv'
  BY <1>1, <1>2, <1>5 DEF EffectsInv
<1>8. \A k : k # N => (Touched(k)' <=> Touched(k)) /\ (RanBash(k)' <=> RanBash(k))
  BY DEF Touched, RanBash
<1>9. N \notin DOMAIN jobs
  BY <1>2 DEF Turn
<1>10. (\A k \in DOMAIN jobs : JobInv(k))'
  BY <1>5, <1>8, <1>9 DEF JobInv
<1>11. Clock'
  BY <1>1 DEF Clock
<1>12. ~Touched(N)
  BY <1>2 DEF EffectsInv, Touched
<1>13. \A k : k = N /\ end \in Refusals => ~Touched(k)'
  BY <1>12 DEF Touched
<1>14. (\A k \in DOMAIN results : ResultInv(k))'
  BY <1>1, <1>2, <1>8, <1>9, <1>13 DEF ResultInv
<1>. QED
  BY <1>4, <1>6, <1>7, <1>10, <1>11, <1>14

\* A command that was spawned or sent is reported.
LEMMA ReportStep ==
    ASSUME CallsInv, pc = "bash", NEW end \in Ends, ReturnOnly(end), UNCHANGED executor,
           end \in Refusals => ~Touched(N),
           end = "ok" => RanBash(N),
           jobs[N].state \in {"queued", "running"} => end = "unreachable",
           end = "unreachable" =>
               jobs[N].cut \/ jobs[N].delay + CommandTimeout >= ClientTimeout
    PROVE  CallsInv'
PROOF
<1>. USE DEF CallsInv
<1>0. /\ UNCHANGED <<session, approved, audit, effects, jobs, waited>> /\ Return(end)
  BY DEF ReturnOnly, executor
<1>1. /\ results' \in Seq(Ends) /\ N' = N + 1 /\ pc' \in {"call", "done"}
      /\ DOMAIN results' = DOMAIN results \union {N}
      /\ results'[N] = end
      /\ \A k \in DOMAIN results : results'[k] = results[k]
  BY <1>0, Returned
<1>2. N \in Nat \ {0} /\ DOMAIN results = 1..(N - 1)
  BY CallNumber
<1>3. Types'
  BY <1>0, <1>1 DEF Types, Places
<1>4. \A k, t : Granted(k, t)' = Granted(k, t)
  BY <1>0 DEF Granted
<1>5. Turn'
  BY <1>0, <1>1, <1>2 DEF Turn
<1>6. EffectsInv'
  BY <1>0, <1>1, <1>2, <1>4 DEF EffectsInv
<1>7. \A k : (Touched(k)' = Touched(k)) /\ (RanBash(k)' = RanBash(k))
  BY <1>0 DEF Touched, RanBash
<1>8. (\A k \in DOMAIN jobs : JobInv(k))'
  BY <1>0, <1>4, <1>7 DEF JobInv
<1>9. Clock'
  BY <1>1 DEF Clock
<1>10. (\A k \in DOMAIN results : ResultInv(k))'
  BY <1>0, <1>1, <1>2, <1>7 DEF ResultInv
<1>. QED
  BY <1>3, <1>5, <1>6, <1>8, <1>9, <1>10

-----------------------------------------------------------------------------
(***************************************************************************)
(* Steps of commands.                                                      *)
(***************************************************************************)

\* A command is spawned here or sent to the executor.
LEMMA LaunchStep ==
    ASSUME CallsInv, pc = "run", Tool = "bash", pc' = "bash",
           UNCHANGED <<session, calls, results, approved, audit>>, waited' = 0,
           NEW state \in {"queued", "running"}, NEW place \in {"agent", "executor"},
           Launch(state, place),
           NEW new, effects' = effects \union new,
           \A e \in new : e.call = N /\ e.tool = "bash" /\ e.node = place,
           session.remote => place = "executor",
           state = "queued" => place = "executor" /\ new = {},
           state = "running" => new # {}
    PROVE  CallsInv'
PROOF
<1>. USE DEF CallsInv
<1>1. N \in Nat \ {0} /\ DOMAIN results = 1..(N - 1) /\ N' = N /\ Tool' = Tool
  BY CallNumber DEF N, Tool, Call
<1>2. N \notin DOMAIN jobs
  BY <1>1 DEF Turn
<1> DEFINE job == NewJob(state, place)
<1>3. /\ jobs' = [k \in DOMAIN jobs \union {N} |-> IF k = N THEN job ELSE jobs[k]]
      /\ DOMAIN jobs' = DOMAIN jobs \union {N}
      /\ jobs'[N] = job
      /\ \A k \in DOMAIN jobs : jobs'[k] = jobs[k]
  BY <1>2 DEF Launch
<1>4. /\ job \in Job(job) /\ job.state = state /\ job.place = place /\ job.ran = 0
      /\ job.delay = 0
  BY DEF NewJob, Job, JobStates, Ends
<1>. HIDE DEF job
<1>5. Types'
  BY <1>3, <1>4 DEF Types, Places
<1>6. \A k, t : Granted(k, t)' = Granted(k, t)
  BY DEF Granted
<1>7. Turn'
  BY <1>1, <1>3, <1>6 DEF Turn
<1>8. EffectsInv'
  BY <1>1, <1>6 DEF EffectsInv, Turn
<1>9. \A k : k # N => (Touched(k)' = Touched(k)) /\ (RanBash(k)' = RanBash(k))
  BY DEF Touched, RanBash
<1>10. ~Touched(N)
  BY <1>1 DEF EffectsInv, Touched
<1>11. JobInv(N)'
  <2>1. Granted(N, "bash")
    BY DEF Turn
  <2>2. state = "queued" => ~Touched(N)'
    BY <1>1, <1>10 DEF Touched
  <2>3. state = "running" => RanBash(N)'
    BY <1>1 DEF RanBash
  <2>4. CommandTimeout \in Nat
    BY ExecutorAssumption
  <2>. QED
    BY <1>1, <1>3, <1>4, <1>6, <2>1, <2>2, <2>3, <2>4 DEF JobInv
<1>12. \A k \in DOMAIN jobs : JobInv(k)'
  BY <1>2, <1>3, <1>6, <1>9 DEF JobInv
<1>13. (\A k \in DOMAIN jobs : JobInv(k))'
  BY <1>1, <1>3, <1>11, <1>12
<1>14. Clock'
  BY <1>1, <1>3, <1>4 DEF Clock
<1>15. (\A k \in DOMAIN results : ResultInv(k))'
  BY <1>1, <1>3, <1>9 DEF ResultInv
<1>. QED
  BY <1>5, <1>7, <1>8, <1>13, <1>14, <1>15

\* What may become of a job in a step.
MayBecome(k) ==
    /\ jobs'[k] \in Job(jobs'[k])
    /\ jobs[k].cut => jobs'[k].cut
    /\ jobs[k].delay <= jobs'[k].delay
    /\ jobs'[k].state = "queued" =>
        /\ jobs[k].state = "queued"
        /\ jobs'[k].ran = 0 /\ jobs'[k].place = "executor"
    /\ jobs'[k].state = "running" =>
        /\ jobs'[k].ran <= CommandTimeout
        /\ \/ jobs[k].state = "running"
           \/ jobs[k].state = "queued" /\ RanBash(k)'
    /\ jobs'[k].state = "answered" =>
        \/ jobs[k].state = "answered" /\ jobs'[k].answer = jobs[k].answer
        \/ /\ jobs'[k].answer \in Answers
           /\ jobs'[k].answer = "refused" => jobs[k].state = "queued"
           /\ jobs'[k].answer = "ok" => jobs[k].state = "running"

LEMMA JobUnchanged ==
    ASSUME CallsInv, NEW k \in DOMAIN jobs, jobs'[k] = jobs[k]
    PROVE  MayBecome(k)
PROOF
<1>1. jobs[k] \in Job(jobs[k]) /\ JobInv(k)
  BY DEF CallsInv, Types
<1>2. jobs[k].delay \in Nat
  BY <1>1 DEF Job
<1>. QED
  BY <1>1, <1>2 DEF MayBecome, JobInv

\* Commands go on, wherever they are.
LEMMA JobStep ==
    ASSUME CallsInv, UNCHANGED <<pc, session, calls, results, approved, audit>>,
           waited' \in Nat, Clock',
           jobs' = [k \in DOMAIN jobs |-> jobs'[k]],
           effects \subseteq effects',
           \A e \in effects' : \/ e \in effects
                               \/ /\ e.call \in DOMAIN jobs
                                  /\ jobs[e.call].state = "queued"
                                  /\ jobs'[e.call].state = "running"
                                  /\ e.tool = "bash" /\ e.node = "executor",
           \A k \in DOMAIN jobs : MayBecome(k)
    PROVE  CallsInv'
PROOF
<1>. USE DEF CallsInv
<1>1. N \in Nat \ {0} /\ DOMAIN results = 1..(N - 1) /\ N' = N /\ Tool' = Tool
  BY CallNumber DEF N, Tool, Call
<1>2. DOMAIN jobs' = DOMAIN jobs
  OBVIOUS
<1>3. Types'
  BY <1>2 DEF Types, MayBecome
<1>4. \A k, t : Granted(k, t)' = Granted(k, t)
  BY DEF Granted
<1>5. Turn'
  BY <1>1, <1>2, <1>4 DEF Turn
<1>6. EffectsInv'
  <2>. SUFFICES ASSUME NEW e \in effects'
                PROVE  /\ e.call \in Nat
                       /\ e.call < N \/ (e.call = N /\ pc = "bash")
                       /\ Granted(e.call, e.tool)
                       /\ session.remote /\ e.tool = "bash" => e.node = "executor"
    BY <1>1, <1>4 DEF EffectsInv
  <2>1. CASE e \in effects
    BY <2>1 DEF EffectsInv
  <2>2. CASE e \notin effects
    BY <2>2 DEF Turn, JobInv
  <2>. QED
    BY <2>1, <2>2
<1>7. \A k : RanBash(k) => RanBash(k)'
  BY DEF RanBash
<1>8. \A k : Touched(k)' =>
          \/ Touched(k)
          \/ k \in DOMAIN jobs /\ jobs[k].state = "queued" /\ jobs'[k].state = "running"
  BY DEF Touched
<1>9. ASSUME NEW k \in DOMAIN jobs PROVE JobInv(k)'
  <2>1. JobInv(k) /\ Granted(k, "bash")'
    BY <1>4 DEF JobInv, MayBecome
  <2>2. jobs'[k].state = "queued" => ~Touched(k)'
    BY <1>8, <2>1 DEF JobInv, MayBecome
  <2>3. jobs'[k].state = "running" => RanBash(k)'
    BY <1>7, <2>1 DEF JobInv, MayBecome
  <2>4. jobs'[k].state = "answered" =>
            /\ jobs'[k].answer \in Answers
            /\ jobs'[k].answer = "refused" => ~Touched(k)'
            /\ jobs'[k].answer = "ok" => RanBash(k)'
    BY <1>7, <1>8, <2>1 DEF JobInv, MayBecome
  <2>. QED
    BY <2>1, <2>2, <2>3, <2>4 DEF JobInv, MayBecome
<1>10. ASSUME NEW k \in DOMAIN results PROVE ResultInv(k)'
  <2>1. ResultInv(k)
    OBVIOUS
  <2>2. results[k] \in Refusals => results[k] # "unreachable" /\ ~Touched(k)'
    BY <1>8, <2>1 DEF ResultInv, Refusals
  <2>3. k \in DOMAIN jobs => jobs[k].delay \in Nat /\ jobs'[k].delay \in Nat
    BY DEF Types, Job, MayBecome
  <2>4. CommandTimeout \in Nat /\ ClientTimeout \in Nat
    BY ExecutorAssumption
  <2>. QED
    BY <1>2, <1>7, <2>1, <2>2, <2>3, <2>4 DEF ResultInv, MayBecome
<1>. QED
  BY <1>2, <1>3, <1>5, <1>6, <1>9, <1>10

-----------------------------------------------------------------------------
(***************************************************************************)
(* The steps of the program.                                               *)
(***************************************************************************)

\* What the scanner and the parser do, and what parsed is does not matter.
LEMMA ReadingKeeps ==
    ASSUME CallsInv, Read \/ EndOfText \/ Parse \/ ParseNative \/ Done
    PROVE  CallsInv'
PROOF
<1>1. CASE Read
  BY <1>1, QuietStep DEF Read, dispatch, executor, CallsInv, Types, Turn, Places, Tool, Call
<1>2. CASE EndOfText
  BY <1>2, QuietStep DEF EndOfText, executor, Places
<1>3. CASE Parse \/ ParseNative
  <2>1. /\ pc \in {"parsing", "reading"}
        /\ UNCHANGED <<session, results, approved, audit, effects, executor>>
        /\ pc' \in {"call", "done"}
    BY <1>3 DEF Parse, ParseNative, Begun
  <2>. QED
    BY <2>1, QuietStep DEF executor, Places
<1>4. CASE Done
  BY <1>4, QuietStep DEF Done, vars, dispatch, executor, Places
<1>. QED
  BY <1>1, <1>2, <1>3, <1>4

\* What is allowed without asking is allowed by the policy of its name.
LEMMA AllowJustified ==
    ASSUME Tool \in Registered, Policy(Tool) = "allow"
    PROVE  \/ Tool \notin Writes
           \/ Tool \in DOMAIN session.policies /\ session.policies[Tool] = "allow"
PROOF
<1>1. CASE Tool \in DOMAIN session.policies
  BY <1>1 DEF Policy
<1>2. CASE Tool \notin DOMAIN session.policies
  <2>1. DefaultPolicy(Tool) = "allow"
    BY <1>2 DEF Policy
  <2>0. /\ "write_file" \notin McpTools /\ "bash" \notin McpTools
        /\ WriteShaped \subseteq McpTools
    BY DispatchAssumption DEF FileTools
  <2>2. Tool \notin {"write_file", "bash"}
    <3>1. Tool \in {"write_file", "bash"} => DefaultPolicy(Tool) = "ask"
      BY <2>0 DEF DefaultPolicy
    <3>. QED
      BY <2>1, <3>1
  <2>3. Tool \notin WriteShaped
    <3>1. Tool \in WriteShaped => DefaultPolicy(Tool) # "allow"
      BY <2>0, <2>2 DEF DefaultPolicy
    <3>. QED
      BY <2>1, <3>1
  <2>. QED
    BY <2>2, <2>3 DEF Writes
<1>. QED
  BY <1>1, <1>2

LEMMA PermissionKeeps ==
    ASSUME CallsInv, UNCHANGED executor,
           Allowed \/ Disabled \/ AutoApproved \/ Ask \/ Approve \/ Decline
    PROVE  CallsInv'
PROOF
<1>. USE DEF executor
<1>0. N \in Nat \ {0}
  BY CallNumber DEF CallsInv
<1>1. CASE Allowed
  BY <1>1, AllowJustified, PermitStep DEF Allowed, Valid
<1>2. CASE AutoApproved
  BY <1>2, PermitStep DEF AutoApproved, Valid
<1>3. CASE Approve
  BY <1>3, PermitStep DEF Approve, CallsInv, Turn
<1>4. CASE Ask
  BY <1>4, QuietStep DEF Ask, Valid, Places, Tool, Call
<1>5. CASE Disabled \/ Decline
  <2>1. PICK end \in {"disabled", "declined"}, policy \in {"deny", "ask"} :
           /\ Note(policy, FALSE) /\ Return(end)
           /\ pc \in {"call", "asking"} /\ Tool \in Registered
           /\ UNCHANGED <<session, approved, effects>>
    BY <1>5 DEF Disabled, Decline, Valid, CallsInv, Turn
  <2>2. \E entry \in Entry : audit' = Append(audit, entry)
    BY <1>0, <2>1 DEF Note, Entry
  <2>3. end \in Ends /\ effects' = effects \union {}
    BY <2>1 DEF Ends
  <2>. QED
    BY <2>1, <2>2, <2>3, EndStep
<1>. QED
  BY <1>1, <1>2, <1>3, <1>4, <1>5

\* A call ends before any tool got to something.
LEMMA ReturnOnlyKeeps ==
    ASSUME CallsInv, pc \in {"call", "run"}, NEW end \in Ends, ReturnOnly(end),
           UNCHANGED executor
    PROVE  CallsInv'
PROOF
<1>1. /\ Return(end) /\ UNCHANGED <<session, approved, jobs, waited>> /\ audit' = audit
  BY DEF ReturnOnly, executor
<1> DEFINE new == {}
<1>2. effects' = effects \union new /\ new = {}
  BY DEF ReturnOnly
<1>. HIDE DEF new
<1>. QED
  BY <1>1, <1>2, EndStep

LEMMA EscapeKeeps == ASSUME CallsInv, Escape, UNCHANGED executor PROVE CallsInv'
PROOF
<1>. USE DEF CallsInv
<1>1. /\ results' = Append(results, "escaped") /\ pc' = "done" /\ pc = "call"
      /\ UNCHANGED <<session, approved, audit, effects, jobs, waited>>
  BY DEF Escape, executor
<1>2. /\ results' \in Seq(Ends) /\ N' = N + 1 /\ N \in Nat \ {0}
      /\ DOMAIN results = 1..(N - 1) /\ DOMAIN results' = DOMAIN results \union {N}
      /\ results'[N] = "escaped"
      /\ \A k \in DOMAIN results : results'[k] = results[k]
  BY <1>1 DEF Types, N, Ends
<1>3. Types'
  BY <1>1, <1>2 DEF Types, Places
<1>4. \A k, t : Granted(k, t)' = Granted(k, t)
  BY <1>1 DEF Granted
<1>5. \A k : (Touched(k)' = Touched(k)) /\ (RanBash(k)' = RanBash(k))
  BY <1>1 DEF Touched, RanBash
<1>6. Turn' /\ Clock'
  BY <1>1, <1>2 DEF Turn, Clock
<1>7. EffectsInv'
  BY <1>1, <1>2, <1>4 DEF EffectsInv
<1>8. (\A k \in DOMAIN jobs : JobInv(k))'
  BY <1>1, <1>4, <1>5 DEF JobInv
<1>9. ~Touched(N) /\ N \notin DOMAIN jobs
  BY <1>1, <1>2 DEF EffectsInv, Touched, Turn
<1>10. (\A k \in DOMAIN results : ResultInv(k))'
  BY <1>1, <1>2, <1>5, <1>9 DEF ResultInv
<1>. QED
  BY <1>3, <1>6, <1>7, <1>8, <1>10

\* What a server opened, it opened for the current call.
LEMMA ServerOpened ==
    ASSUME NEW some, NEW e \in OpenedByServer(some)
    PROVE  /\ \E i \in some : \E raw \in Opens(Words[i]) :
                e.path = Reached(raw) /\ e.file = IsFile(Reached(raw))
                /\ e.form = Words[i].form
           /\ e.call = N /\ e.tool = Tool /\ e.node = "server"
PROOF
<1>. DEFINE For(i) == {Effect(Reached(raw), "server", Words[i].form) : raw \in Opens(Words[i])}
<1>1. e \in UNION {For(i) : i \in some}
  BY Zenon DEF OpenedByServer
<1>2. PICK i \in some : e \in For(i)
  <2>. HIDE DEF For
  <2>. QED
    BY <1>1
<1>3. PICK raw \in Opens(Words[i]) : e = Effect(Reached(raw), "server", Words[i].form)
  BY <1>2
<1>4. /\ e.path = Reached(raw) /\ e.file = IsFile(Reached(raw)) /\ e.form = Words[i].form
      /\ e.call = N /\ e.tool = Tool /\ e.node = "server"
  BY <1>3, Zenon DEF Effect
<1>. QED
  BY <1>3, <1>4, Zenon

\* A tool of this process, or of a server, got to what is in `new`.
LEMMA EffectKeeps ==
    ASSUME CallsInv, pc = "run", Tool # "bash", NEW end \in {"ok", "error"}, Return(end),
           UNCHANGED <<session, approved, audit, executor>>,
           NEW new, effects' = effects \union new,
           \A e \in new : e.call = N /\ e.tool = Tool
    PROVE  CallsInv'
PROOF
<1>1. Granted(N, Tool)
  BY DEF CallsInv, Turn
<1>2. end \in Ends /\ end \notin Refusals /\ audit' = audit /\ UNCHANGED <<jobs, waited>>
  BY DEF Ends, Refusals, executor
<1>. QED
  BY <1>1, <1>2, EndStep

LEMMA ToolKeeps ==
    ASSUME CallsInv, UNCHANGED executor,
           Unknown \/ Invalid \/ Refuse \/ CannotDo \/ ReadPath \/ WriteFile \/ Forward
           \/ RefuseForward
    PROVE  CallsInv'
PROOF
<1>1. CASE Unknown \/ Invalid \/ Refuse \/ CannotDo \/ RefuseForward
  <2>1. \E end \in Ends : pc \in {"call", "run"} /\ ReturnOnly(end)
    BY <1>1 DEF Unknown, Invalid, Refuse, CannotDo, RefuseForward, Ends
  <2>. QED
    BY <2>1, ReturnOnlyKeeps
<1>2. CASE ReadPath
  <2>1. /\ pc = "run" /\ Tool # "bash"
        /\ \E end \in {"ok", "error"} : Return(end)
        /\ UNCHANGED <<session, approved, audit, executor>>
        /\ \/ effects' = effects \union {}
           \/ effects' = effects \union {Effect(Target, "agent", "bare")}
    BY <1>2 DEF ReadPath
  <2>2. Effect(Target, "agent", "bare").call = N /\ Effect(Target, "agent", "bare").tool = Tool
    BY DEF Effect
  <2>3. PICK new \in {{}, {Effect(Target, "agent", "bare")}} : effects' = effects \union new
    BY <2>1
  <2>4. \A e \in new : e.call = N /\ e.tool = Tool
    BY <2>2
  <2>. QED
    BY <2>1, <2>3, <2>4, EffectKeeps
<1>3. CASE WriteFile
  <2>1. /\ pc = "run" /\ Tool # "bash"
        /\ \E end \in {"ok", "error"} : Return(end)
        /\ UNCHANGED <<session, approved, audit, executor>>
        /\ \E new \in {{}, {Effect(Target, "agent", "bare")}} : effects' = effects \union new
    BY <1>3 DEF WriteFile, Running
  <2>2. Effect(Target, "agent", "bare").call = N /\ Effect(Target, "agent", "bare").tool = Tool
    BY DEF Effect
  <2>3. PICK new \in {{}, {Effect(Target, "agent", "bare")}} : effects' = effects \union new
    BY <2>1
  <2>4. \A e \in new : e.call = N /\ e.tool = Tool
    BY <2>2
  <2>. QED
    BY <2>1, <2>3, <2>4, EffectKeeps
<1>4. CASE Forward
  <2>1. /\ pc = "run" /\ Tool # "bash"
        /\ \E end \in {"ok", "error"} : Return(end)
        /\ UNCHANGED <<session, approved, audit, executor>>
    BY <1>4, DispatchAssumption DEF Forward
  <2>2. PICK some \in SUBSET DOMAIN Words :
            effects' = effects \union OpenedByServer(some)
    BY <1>4 DEF Forward
  <2> DEFINE new == OpenedByServer(some)
  <2>3. \A e \in new : e.call = N /\ e.tool = Tool
    BY ServerOpened
  <2>4. effects' = effects \union new
    BY <2>2
  <2>. HIDE DEF new
  <2>. QED
    BY <2>1, <2>3, <2>4, EffectKeeps
<1>. QED
  BY <1>1, <1>2, <1>3, <1>4

-----------------------------------------------------------------------------
\* What a command opens for one of its words.
LEMMA WordOpened ==
    ASSUME NEW k, NEW args, NEW place, NEW i, NEW e \in OpenedFor(k, args, place, i)
    PROVE  /\ \E raw \in Opens(args.words[i]) :
                e.path = Reached(raw) /\ e.file = IsFile(Reached(raw))
                /\ e.form = args.words[i].form
           /\ e.call = k /\ e.tool = "bash" /\ e.node = place
PROOF
<1>. DEFINE one(raw) == [call |-> k, tool |-> "bash", node |-> place,
                         path |-> Reached(raw), file |-> IsFile(Reached(raw)),
                         form |-> args.words[i].form]
<1>1. PICK raw \in Opens(args.words[i]) : e = one(raw)
  BY DEF OpenedFor
<1>2. /\ e.path = Reached(raw) /\ e.file = IsFile(Reached(raw))
      /\ e.form = args.words[i].form
      /\ e.call = k /\ e.tool = "bash" /\ e.node = place
  BY <1>1, Zenon
<1>. QED
  BY <1>1, <1>2, Zenon

\* What a command that was spawned got to: the root, at least.
LEMMA SpawnedEffects ==
    ASSUME NEW k, NEW args, NEW place
    PROVE  /\ Spawned(k, args, place) # {}
           /\ \A e \in Spawned(k, args, place) :
                  e.call = k /\ e.tool = "bash" /\ e.node = place
PROOF
<1> DEFINE root == [call |-> k, tool |-> "bash", node |-> place, path |-> Root,
                    file |-> FALSE, form |-> "bare"]
           For(i) == OpenedFor(k, args, place, i)
<1>1. ASSUME NEW e \in Spawned(k, args, place)
      PROVE  e \in UNION {For(i) : i \in DOMAIN args.words} \/ e = root
  BY <1>1, Zenon DEF Spawned
<1>2. root.call = k /\ root.tool = "bash" /\ root.node = place
  OBVIOUS
<1>3. ASSUME NEW i, NEW e \in For(i)
      PROVE  e.call = k /\ e.tool = "bash" /\ e.node = place
  <2>1. e \in OpenedFor(k, args, place, i)
    BY <1>3
  <2>. QED
    BY <2>1, WordOpened
<1>4. root \in Spawned(k, args, place)
  BY Zenon DEF Spawned
<1>. HIDE DEF root, For
<1>5. ASSUME NEW e \in Spawned(k, args, place)
      PROVE  e.call = k /\ e.tool = "bash" /\ e.node = place
  <2>1. e \in UNION {For(i) : i \in DOMAIN args.words} \/ e = root
    BY <1>1, <1>5
  <2>. QED
    BY <1>2, <1>3, <2>1
<1>. QED
  BY <1>4, <1>5

LEMMA BashKeeps ==
    ASSUME CallsInv, Client
    PROVE  CallsInv'
PROOF
<1>. USE DEF CallsInv
<1>1. CASE RefuseHere \/ NotFoundHere \/ Unreachable \/ Rejected
  <2>1. /\ \E end \in Ends : pc = "run" /\ ReturnOnly(end)
        /\ UNCHANGED executor
    BY <1>1 DEF RefuseHere, NotFoundHere, Unreachable, Rejected, RunBash, Ends
  <2>. QED
    BY <2>1, ReturnOnlyKeeps
<1>2. CASE SpawnHere
  <2>1. /\ pc = "run" /\ Tool = "bash" /\ pc' = "bash" /\ waited' = 0
        /\ UNCHANGED <<session, calls, results, approved, audit>>
        /\ Launch("running", "agent") /\ ~session.remote
    BY <1>2 DEF SpawnHere, RunBash
  <2> DEFINE new == Spawned(N, Call.args, "agent")
  <2>2. effects' = effects \union new
    BY <1>2 DEF SpawnHere
  <2>3. new # {} /\ \A e \in new : e.call = N /\ e.tool = "bash" /\ e.node = "agent"
    BY SpawnedEffects
  <2>. HIDE DEF new
  <2>. QED
    BY <2>1, <2>2, <2>3, LaunchStep
<1>3. CASE Post
  <2>1. /\ pc = "run" /\ Tool = "bash" /\ pc' = "bash" /\ waited' = 0
        /\ UNCHANGED <<session, calls, results, approved, audit>>
        /\ Launch("queued", "executor")
    BY <1>3 DEF Post, RunBash
  <2> DEFINE new == {}
  <2>2. effects' = effects \union new
    BY <1>3 DEF Post
  <2>3. new = {} /\ \A e \in new : e.call = N /\ e.tool = "bash" /\ e.node = "executor"
    OBVIOUS
  <2>. HIDE DEF new
  <2>. QED
    BY <2>1, <2>2, <2>3, LaunchStep
<1>4. CASE Hear
  <2>1. /\ pc = "bash" /\ jobs[N].state = "answered"
        /\ ReturnOnly(jobs[N].answer) /\ UNCHANGED executor
    BY <1>4 DEF Hear
  <2>2. JobInv(N) /\ jobs[N].answer \in Answers
    BY <2>1 DEF Turn, JobInv
  <2>3. jobs[N].answer \in Ends
    BY <2>2 DEF Answers, Ends
  <2>4. /\ jobs[N].answer \in Refusals => ~Touched(N)
        /\ jobs[N].answer = "ok" => RanBash(N)
        /\ jobs[N].answer # "unreachable"
    BY <2>1, <2>2 DEF JobInv, Answers, Refusals
  <2>. QED
    BY <2>1, <2>3, <2>4, ReportStep
<1>5. CASE Broken
  <2>1. /\ pc = "bash" /\ jobs[N].cut /\ "unreachable" \in Ends
        /\ ReturnOnly("unreachable") /\ UNCHANGED executor /\ "unreachable" \notin Refusals
    BY <1>5 DEF Broken, Ends, Refusals
  <2>. QED
    BY <2>1, ReportStep
<1>6. CASE GiveUp
  <2>1. /\ pc = "bash" /\ jobs[N].state \in {"queued", "running"} /\ ~jobs[N].cut
        /\ ReturnOnly("unreachable") /\ UNCHANGED executor
        /\ "unreachable" \in Ends /\ "unreachable" \notin Refusals
        /\ jobs[N].place = "executor" /\ waited >= ClientTimeout
    BY <1>6 DEF GiveUp, Expired, Ends, Refusals
  <2>2. N \in DOMAIN jobs /\ JobInv(N) /\ jobs[N] \in Job(jobs[N])
    BY <2>1 DEF Turn, Types
  <2>3. jobs[N].delay \in Nat /\ jobs[N].ran \in Nat
    BY <2>2 DEF Job
  <2>4. jobs[N].ran <= CommandTimeout
    BY <2>1, <2>2, ExecutorAssumption DEF JobInv
  <2>5. waited = jobs[N].delay \/ waited = jobs[N].delay + jobs[N].ran
    BY <2>1 DEF Clock
  <2>6. jobs[N].delay + CommandTimeout >= ClientTimeout
    BY <2>1, <2>3, <2>4, <2>5, ExecutorAssumption
  <2>. QED
    BY <2>1, <2>6, ReportStep
<1>. QED
  BY <1>1, <1>2, <1>3, <1>4, <1>5, <1>6 DEF Client

-----------------------------------------------------------------------------
\* A job that did not change asks for nothing.
LEMMA ServiceKeeps ==
    ASSUME CallsInv, NEW k \in DOMAIN jobs, Service(k)
    PROVE  CallsInv'
PROOF
<1>. USE DEF CallsInv
<1>0. /\ jobs[k] \in Job(jobs[k]) /\ JobInv(k) /\ N' = N
      /\ UNCHANGED <<pc, session, calls, results, approved, audit, waited>>
      /\ \A j \in DOMAIN jobs : jobs[j] \in Job(jobs[j]) /\ JobInv(j)
  BY DEF Types, Service, Begin, Exit, Kill, dispatch, N
<1>1. ASSUME NEW end \in Answers, Answered(k, end), effects' = effects,
             end = "refused" => jobs[k].state = "queued",
             end = "ok" => jobs[k].state = "running"
      PROVE  CallsInv'
  <2>1. /\ jobs' = [j \in DOMAIN jobs |-> jobs'[j]]
        /\ \A j \in DOMAIN jobs : j # k => jobs'[j] = jobs[j]
        /\ jobs'[k] = [jobs[k] EXCEPT !.state = "answered", !.answer = end]
    BY <1>1 DEF Answered, Types
  <2>2. /\ jobs'[k] \in Job(jobs'[k]) /\ jobs'[k].state = "answered"
        /\ jobs'[k].answer = end /\ jobs'[k].cut = jobs[k].cut
        /\ jobs'[k].delay = jobs[k].delay /\ jobs[k].delay \in Nat
    BY <1>0, <1>1, <2>1 DEF Job, JobStates, Answers, Ends
  <2>3. Clock'
    BY <1>0, <2>1, <2>2 DEF Clock, Turn
  <2>4. waited' \in Nat
    BY <1>0 DEF Types
  <2>5. MayBecome(k)
    BY <1>1, <2>2 DEF MayBecome
  <2>6. \A j \in DOMAIN jobs : MayBecome(j)
    BY <2>1, <2>5, JobUnchanged
  <2>7. effects \subseteq effects' /\ \A e \in effects' : e \in effects
    BY <1>1
  <2>. QED
    BY <1>0, <2>1, <2>3, <2>4, <2>6, <2>7, JobStep
<1>2. CASE Begin(k) /\ jobs'[k].state = "running"
  <2>1. /\ jobs[k].state = "queued"
        /\ jobs' = [jobs EXCEPT ![k].state = "running"]
        /\ effects' = effects \union Spawned(k, jobs[k].args, "executor")
    <3>1. \A end : Answered(k, end) => jobs'[k].state = "answered"
      BY <1>0 DEF Answered, Types, Job
    <3>. QED
      BY <1>2, <3>1 DEF Begin
  <2>2. /\ jobs' = [j \in DOMAIN jobs |-> jobs'[j]]
        /\ \A j \in DOMAIN jobs : j # k => jobs'[j] = jobs[j]
        /\ jobs'[k] = [jobs[k] EXCEPT !.state = "running"]
    BY <2>1 DEF Types
  <2>3. /\ jobs'[k] \in Job(jobs'[k]) /\ jobs'[k].state = "running"
        /\ jobs'[k].cut = jobs[k].cut /\ jobs'[k].ran = 0
        /\ jobs'[k].place = jobs[k].place
        /\ jobs'[k].delay = jobs[k].delay /\ jobs[k].delay \in Nat
    BY <1>0, <2>1, <2>2 DEF Job, JobStates, JobInv
  <2>4. Clock'
    <3>1. CASE k = N
      <4>1. jobs'[k].delay + jobs'[k].ran = jobs[k].delay
        BY <2>3
      <4>2. pc = "bash" /\ jobs[k].place = "executor" /\ ~jobs[k].cut =>
                waited = jobs[k].delay
        BY <2>1, <3>1 DEF Clock
      <4>. QED
        BY <1>0, <2>3, <3>1, <4>1, <4>2 DEF Clock
    <3>2. CASE k # N
      <4>1. pc = "bash" => jobs'[N] = jobs[N]
        BY <2>2, <3>2 DEF Turn
      <4>. QED
        BY <1>0, <4>1 DEF Clock
    <3>. QED
      BY <3>1, <3>2
  <2>5. waited' \in Nat /\ 0 <= CommandTimeout
    BY <1>0, ExecutorAssumption DEF Types
  <2>6. /\ effects \subseteq effects' /\ RanBash(k)'
        /\ \A e \in effects' : e \in effects \/ (e.call = k /\ e.tool = "bash"
                                                 /\ e.node = "executor")
    BY <2>1, SpawnedEffects DEF RanBash
  <2>7. MayBecome(k)
    BY <2>1, <2>3, <2>5, <2>6 DEF MayBecome
  <2>8. \A j \in DOMAIN jobs : MayBecome(j)
    BY <2>2, <2>7, JobUnchanged
  <2>9. \A e \in effects' : \/ e \in effects
                            \/ /\ e.call \in DOMAIN jobs
                               /\ jobs[e.call].state = "queued"
                               /\ jobs'[e.call].state = "running"
                               /\ e.tool = "bash" /\ e.node = "executor"
    BY <2>1, <2>3, <2>6
  <2>. QED
    BY <1>0, <2>2, <2>4, <2>5, <2>6, <2>8, <2>9, JobStep
<1>3. CASE Begin(k) /\ jobs'[k].state # "running"
  <2>1. /\ jobs[k].state = "queued" /\ effects' = effects
        /\ \E end \in {"refused", "error"} : Answered(k, end)
    BY <1>0, <1>3 DEF Begin, Types, Job
  <2>. QED
    BY <1>1, <2>1 DEF Answers
<1>4. CASE Exit(k)
  BY <1>1, <1>4 DEF Exit, ExitEnds, Answers, dispatch
<1>5. CASE Kill(k)
  BY <1>1, <1>5 DEF Kill, Answers, dispatch
<1>. QED
  BY <1>2, <1>3, <1>4, <1>5 DEF Service

LEMMA TickKeeps == ASSUME CallsInv, Tick PROVE CallsInv'
PROOF
<1>. USE DEF CallsInv
<1>1. /\ UNCHANGED <<pc, session, calls, results, approved, audit, effects>>
      /\ N' = N /\ N \in DOMAIN jobs /\ pc = "bash"
      /\ jobs' = [k \in DOMAIN jobs |-> jobs'[k]]
      /\ \A k \in DOMAIN jobs : jobs[k] \in Job(jobs[k]) /\ JobInv(k)
      /\ waited' = IF jobs[N].place = "executor" THEN waited + 1 ELSE waited
      /\ waited \in Nat /\ CommandTimeout \in Nat
  BY ExecutorAssumption DEF Tick, dispatch, Types, Turn, N
<1>2. ASSUME NEW k \in DOMAIN jobs
      PROVE  /\ jobs'[k] \in Job(jobs'[k])
             /\ jobs'[k].state = jobs[k].state /\ jobs'[k].cut = jobs[k].cut
             /\ jobs'[k].answer = jobs[k].answer /\ jobs'[k].place = jobs[k].place
             /\ jobs'[k].state = "running" =>
                 /\ jobs'[k].ran = jobs[k].ran + 1 /\ jobs'[k].delay = jobs[k].delay
                 /\ jobs'[k].ran <= CommandTimeout
             /\ jobs'[k].state = "queued" =>
                 /\ jobs'[k].ran = jobs[k].ran
                 /\ k = N => jobs'[k].delay = jobs[k].delay + 1
             /\ jobs[k].delay <= jobs'[k].delay
  <2>1. jobs[k] \in Job(jobs[k]) /\ jobs[k].ran \in Nat /\ jobs[k].delay \in Nat
    BY <1>1 DEF Job
  <2>2. CASE jobs[k].state = "running"
    <3>1. /\ jobs'[k] = [jobs[k] EXCEPT !.ran = jobs[k].ran + 1]
          /\ jobs[k].ran < CommandTimeout
      BY <2>2 DEF Tick
    <3>. QED
      BY <1>1, <2>1, <2>2, <3>1 DEF Job
  <2>3. CASE jobs[k].state = "queued" /\ k = N
    <3>1. jobs'[k] = [jobs[k] EXCEPT !.delay = jobs[k].delay + 1]
      BY <2>3 DEF Tick
    <3>. QED
      BY <2>1, <2>3, <3>1 DEF Job
  <2>4. CASE jobs[k].state # "running" /\ ~(jobs[k].state = "queued" /\ k = N)
    <3>1. jobs'[k] = jobs[k]
      BY <2>4 DEF Tick
    <3>. QED
      BY <2>1, <2>4, <3>1
  <2>. QED
    BY <2>2, <2>3, <2>4
<1>3. waited' \in Nat
  BY <1>1
<1>4. Clock'
  <2>1. jobs[N].ran \in Nat /\ jobs[N].delay \in Nat
    BY <1>1 DEF Job
  <2>. QED
    BY <1>1, <1>2, <2>1 DEF Clock, JobInv
<1>5. \A k \in DOMAIN jobs : jobs'[k].state = "queued" =>
          jobs'[k].ran = 0 /\ jobs'[k].place = "executor"
  BY <1>1, <1>2 DEF JobInv
<1>6. \A k \in DOMAIN jobs : MayBecome(k)
  BY <1>1, <1>2, <1>5 DEF MayBecome, JobInv
<1>. QED
  BY <1>1, <1>3, <1>4, <1>6, JobStep

LEMMA FaultKeeps == ASSUME CallsInv, Crash \/ LoseConnection PROVE CallsInv'
PROOF
<1>. USE DEF CallsInv
<1>1. /\ UNCHANGED <<pc, session, calls, results, approved, audit, effects, waited>>
      /\ N' = N /\ waited \in Nat
      /\ \A k \in DOMAIN jobs : jobs[k] \in Job(jobs[k]) /\ JobInv(k)
  BY DEF Crash, LoseConnection, dispatch, Types, N
<1>2. jobs' = [k \in DOMAIN jobs |-> jobs'[k]]
  BY DEF Crash, LoseConnection, Types
<1>3. ASSUME NEW k \in DOMAIN jobs
      PROVE  \/ jobs'[k] = jobs[k]
             \/ jobs'[k] = [jobs[k] EXCEPT !.cut = TRUE]
             \/ jobs'[k] = [jobs[k] EXCEPT !.state = "lost", !.cut = TRUE]
  BY DEF Crash, LoseConnection, Types
<1>4. ASSUME NEW k \in DOMAIN jobs
      PROVE  /\ jobs'[k] \in Job(jobs'[k])
             /\ jobs'[k].state = jobs[k].state \/ jobs'[k].state = "lost"
             /\ jobs[k].cut => jobs'[k].cut
             /\ jobs'[k].answer = jobs[k].answer /\ jobs'[k].place = jobs[k].place
             /\ jobs'[k].ran = jobs[k].ran /\ jobs'[k].delay = jobs[k].delay
             /\ jobs[k].delay \in Nat
  <2>1. jobs[k] \in Job(jobs[k])
    BY <1>1
  <2>2. CASE jobs'[k] = jobs[k]
    BY <2>1, <2>2 DEF Job
  <2>3. CASE jobs'[k] = [jobs[k] EXCEPT !.cut = TRUE]
    BY <2>1, <2>3 DEF Job
  <2>4. CASE jobs'[k] = [jobs[k] EXCEPT !.state = "lost", !.cut = TRUE]
    BY <2>1, <2>4 DEF Job, JobStates
  <2>. QED
    BY <1>3, <2>2, <2>3, <2>4
<1>5. Clock'
  BY <1>1, <1>4 DEF Clock, Turn
<1>6. \A k \in DOMAIN jobs :
          /\ jobs[k].delay <= jobs'[k].delay
          /\ jobs'[k].state = "queued" =>
              jobs'[k].ran = 0 /\ jobs'[k].place = "executor"
          /\ jobs'[k].state = "running" => jobs'[k].ran <= CommandTimeout
  BY <1>1, <1>4 DEF JobInv
<1>7. \A k \in DOMAIN jobs : MayBecome(k)
  BY <1>1, <1>4, <1>6 DEF MayBecome
<1>. QED
  BY <1>1, <1>2, <1>5, <1>7, JobStep

-----------------------------------------------------------------------------
LEMMA InvNext == CallsInv /\ [Next]_vars => CallsInv'
PROOF
<1>. SUFFICES ASSUME CallsInv, [Next]_vars PROVE CallsInv'
  OBVIOUS
<1>1. CASE Read \/ EndOfText \/ Parse \/ ParseNative \/ Done
  BY <1>1, ReadingKeeps
<1>2. CASE (Execute \/ Answer) /\ UNCHANGED executor
  BY <1>2, PermissionKeeps, EscapeKeeps, ToolKeeps DEF Execute, Answer
<1>3. CASE Client
  BY <1>3, BashKeeps
<1>4. CASE Tick
  BY <1>4, TickKeeps
<1>5. CASE Crash \/ LoseConnection
  BY <1>5, FaultKeeps
<1>6. CASE Restart \/ UNCHANGED vars
  <2>1. UNCHANGED <<session, calls, results, approved, audit, effects, jobs, waited, pc>>
    BY <1>6 DEF Restart, vars, dispatch, executor
  <2>. QED
    BY <2>1, QuietStep DEF CallsInv, Types, Turn, Tool, Call
<1>7. CASE \E k \in DOMAIN jobs : Service(k)
  BY <1>7, ServiceKeeps
<1>. QED
  BY <1>1, <1>2, <1>3, <1>4, <1>5, <1>6, <1>7 DEF Next, Agent, Faults

\* In every state of every session: what may still be done for a call, and what
\* was done, is what the calls' results, grants and jobs say.
THEOREM CallsInvariance == Spec => []CallsInv
  BY InvInitially, InvNext, PTL DEF Spec

\* Whatever a tool got to was let through, for this very call, before
\* (permissions.py:78-107, mcp/adapter.py:93-99).
THEOREM AlwaysApproved == Spec => []Approved
  BY InvImplies, CallsInvariance, PTL

\* A refused call never has an effect, not even later, and a command that is
\* said to have succeeded was run (tools/registry.py:51-142, tools/shell.py).
THEOREM ToldTheTruth == Spec => []ToldTrue
  BY InvImplies, CallsInvariance, PTL

\* With an executor no command runs in this process (tools/shell.py:107-113).
THEOREM NeverLocal == Spec => []NoLocalFallback
  BY InvImplies, CallsInvariance, PTL

\* A command is not called unreachable because it took its time
\* (executor/core.py:79, executor/client.py:25).
THEOREM SlowNeverLost == Spec => []SlowIsNotLost
  BY InvImplies, CallsInvariance, PTL

\* A command that may still start or run is the current call's, or was reported
\* lost (agent.py:278-280).
THEOREM AlwaysOneAtATime == Spec => []OneAtATime
  BY InvImplies, CallsInvariance, PTL

-----------------------------------------------------------------------------
(*****************************************************************************)
(* What the parser returns: calls in a known shape, and a call that is not   *)
(* what the model was asked to write has repairs, of which STATS is told.    *)
(*****************************************************************************)
\* Sequences of sequences, one after the other.
FlattenedBy(f, ss, i) == IF i = 1 THEN ss[i] ELSE f[i - 1] \o ss[i]

LEMMA FlattenTyped ==
    ASSUME NEW T, NEW ss \in Seq(Seq(T))
    PROVE  FlattenSeq(ss) \in Seq(T)
PROOF
<1>1. CASE Len(ss) = 0
  <2>1. FlattenSeq(ss) = ss /\ ss = <<>>
    BY <1>1 DEF FlattenSeq
  <2>. QED
    BY <2>1
<1>2. CASE Len(ss) # 0
  <2>. DEFINE n == Len(ss)
              S == 1..n
              U == Seq(T)
              size == [i \in S |-> i]
              F == [g \in [S -> U] |-> [i \in S |-> FlattenedBy(g, ss, i)]]
  <2>0. n \in Nat /\ n >= 1 /\ \A i \in S : ss[i] \in U
    BY <1>2
  <2>1. size \in [S -> Nat] /\ U # {}
    OBVIOUS
  <2>2. F \in [[S -> U] -> [S -> U]]
    <3>1. ASSUME NEW g \in [S -> U], NEW i \in S PROVE FlattenedBy(g, ss, i) \in U
      <4>1. i # 1 => i - 1 \in S
        BY <2>0
      <4>. HIDE DEF S
      <4>. QED
        BY <2>0, <4>1 DEF FlattenedBy
    <3>. QED
      BY <3>1
  <2>3. Decreasing(S, U, size, F)
    <3>. SUFFICES ASSUME NEW g \in [S -> U], NEW h \in [S -> U], NEW i \in S,
                         \A j \in S : size[j] < size[i] => g[j] = h[j]
                  PROVE  F[g][i] = F[h][i]
      BY Zenon DEF Decreasing
    <3>1. i # 1 => g[i - 1] = h[i - 1]
      <4>1. i # 1 => i - 1 \in S /\ i - 1 < i
        BY <2>0
      <4>. QED
        BY <4>1
    <3>2. FlattenedBy(g, ss, i) = FlattenedBy(h, ss, i)
      BY <3>1 DEF FlattenedBy
    <3>. QED
      BY <3>2
  <2>4. PICK f \in [S -> U] : f = F[f]
    <3>. HIDE DEF F, S, U, size
    <3>1. PICK f \in [S -> U] : Solves(f, F)
      BY <2>1, <2>2, <2>3, RecursionHolds, Zenon
    <3>. QED
      BY <3>1 DEF Solves
  <2>5. \E g : g = [i \in 1..Len(ss) |-> FlattenedBy(g, ss, i)]
    BY <2>4
  <2>6. PICK flat : /\ flat = [i \in 1..Len(ss) |-> FlattenedBy(flat, ss, i)]
                    /\ FlattenSeq(ss) = flat[Len(ss)]
    BY <1>2, <2>5, Zenon DEF FlattenSeq, FlattenedBy
  <2>7. \A i \in S : flat[i] = FlattenedBy(flat, ss, i)
    BY <2>6
  <2>. DEFINE D == {k \in Nat : k + 1 \in S => flat[k + 1] \in U}
  <2>8. 0 \in D
    BY <2>0, <2>7 DEF FlattenedBy
  <2>9. ASSUME NEW k \in Nat, k \in D PROVE k + 1 \in D
    <3>. SUFFICES ASSUME (k + 1) + 1 \in S PROVE flat[(k + 1) + 1] \in U
      OBVIOUS
    <3>1. k + 1 \in S /\ (k + 1) + 1 # 1 /\ (k + 1) + 1 - 1 = k + 1
      BY <2>0
    <3>2. flat[(k + 1) + 1] = flat[k + 1] \o ss[(k + 1) + 1]
      <4>. DEFINE i == (k + 1) + 1
      <4>1. i \in S /\ i # 1 /\ i - 1 = k + 1
        BY <3>1
      <4>. HIDE DEF i
      <4>2. flat[i] = flat[k + 1] \o ss[i]
        BY <2>7, <4>1 DEF FlattenedBy
      <4>. QED
        BY <4>2 DEF i
    <3>3. flat[k + 1] \in U /\ ss[(k + 1) + 1] \in U
      BY <2>0, <2>9, <3>1
    <3>. QED
      BY <3>2, <3>3
  <2>. HIDE DEF D
  <2>10. \A k \in Nat : k \in D
    BY <2>8, <2>9, NatSet
  <2>11. n - 1 \in D /\ (n - 1) + 1 = n /\ n \in S
    BY <2>0, <2>10
  <2>. QED
    BY <2>6, <2>11 DEF D
<1>. QED
  BY <1>1, <1>2

HasWords(args) == \A i \in DOMAIN args.words : IsRaw(args.words[i].raw)

\* A call the program can do something with; one that was repaired says so.
WellFormed(c) ==
    /\ IsCall(c)
    /\ Repaired(c) => c.repairs # {}
    /\ HasWords(c.args)

HoldsObjects(span) == span.objects \in Seq({o \in Range(span.objects) : IsObject(o)})

LEMMA SeqOfValues ==
    ASSUME NEW n \in Nat, NEW U, NEW e, e = [i \in 1..n |-> e[i]], \A i \in 1..n : e[i] \in U
    PROVE  e \in Seq(U) /\ Len(e) = n
PROOF
<1>1. e \in [1..n -> U]
  OBVIOUS
<1>. QED
  BY <1>1

LEMMA InOwnRange ==
    ASSUME NEW T, NEW s \in Seq(T)
    PROVE  s \in Seq(Range(s)) /\ Range(s) \subseteq T
PROOF
<1>1. \A i \in DOMAIN s : s[i] \in Range(s)
  BY DEF Range
<1>2. Range(s) \subseteq T
  <2>1. ASSUME NEW x \in Range(s) PROVE x \in T
    <3>1. PICK i \in DOMAIN s : x = s[i]
      BY DEF Range
    <3>. QED
      BY <3>1
  <2>. QED
    BY <2>1
<1>3. s \in Seq(Range(s))
  BY <1>1
<1>. QED
  BY <1>2, <1>3, Zenon

LEMMA ParsedCall ==
    ASSUME NEW o, IsObject(o), NEW span, NEW fenced \in BOOLEAN,
           NEW outer, outer = {r \in {span.rung} : r # "json"} \union {tag \in {"fenced"} : fenced}
    PROVE  WellFormed(ToolCall(o, outer \union NormalizeRepairs(o), Altered(o, span, fenced)))
PROOF
<1>. DEFINE c == ToolCall(o, outer \union NormalizeRepairs(o), Altered(o, span, fenced))
<1>0. o.form \in Forms /\ HasWords(o.args)
  BY Zenon DEF IsObject, HasWords
<1>1. /\ DOMAIN c = {"name", "args", "repairs", "altered", "shape"}
      /\ c.args = o.args
      /\ c.shape = (IF Shape(o) = "dropped" THEN "empty" ELSE Shape(o))
      /\ c.altered = Altered(o, span, fenced) /\ c.repairs = outer \union NormalizeRepairs(o)
  BY Zenon DEF ToolCall
<1>2. Shape(o) \in {"object", "flattened", "empty", "positional", "dropped"}
  BY <1>0 DEF Shape, Forms
<1>3. IsCall(c)
  BY <1>1, <1>2 DEF IsCall
<1>4. ASSUME Altered(o, span, fenced) \ Unrecorded # {}
      PROVE  outer \union NormalizeRepairs(o) # {}
  <2>0. \/ span.rung # "json" \/ fenced
        \/ ~o.usual \/ o.nested
        \/ o.form # "object" /\ (o.form \in {"absent", "null"} => o.extra)
    <3>1. PICK part \in Altered(o, span, fenced) : part \notin Unrecorded
      BY <1>4
    <3>. QED
      BY <3>1 DEF Altered, Unrecorded
  <2>1. CASE span.rung # "json"
    BY <2>1
  <2>2. CASE fenced
    BY <2>2
  <2>3. CASE ~o.usual
    <3>1. "other_key" \in NormalizeRepairs(o)
      BY <2>3 DEF NormalizeRepairs
    <3>. QED
      BY <3>1
  <2>4. CASE o.nested
    <3>1. "nested_function_key" \in NormalizeRepairs(o)
      BY <2>4 DEF NormalizeRepairs
    <3>. QED
      BY <3>1
  <2>5. CASE o.form \in {"encoded", "broken"}
    <3>1. "args_double_encoded" \in NormalizeRepairs(o)
      BY <2>5 DEF NormalizeRepairs
    <3>. QED
      BY <3>1
  <2>6. CASE o.form = "string"
    <3>1. Shape(o) = "positional"
      BY <2>6 DEF Shape
    <3>2. "args_bare_string" \in NormalizeRepairs(o)
      BY <3>1 DEF NormalizeRepairs
    <3>. QED
      BY <3>2
  <2>7. CASE o.form \in {"raising", "empty_list", "list"}
    <3>1. Shape(o) = "dropped"
      BY <2>7 DEF Shape
    <3>2. "args_not_object" \in NormalizeRepairs(o)
      BY <3>1 DEF NormalizeRepairs
    <3>. QED
      BY <3>2
  <2>8. CASE o.form \in {"absent", "null"} /\ o.extra
    <3>1. Shape(o) = "flattened"
      BY <2>8 DEF Shape
    <3>2. "flattened_args" \in NormalizeRepairs(o)
      BY <3>1 DEF NormalizeRepairs
    <3>. QED
      BY <3>2
  <2>. QED
    BY <1>0, <2>0, <2>1, <2>2, <2>3, <2>4, <2>5, <2>6, <2>7, <2>8 DEF Forms
<1>5. HasWords(c.args)
  BY <1>0, <1>1
<1>6. Repaired(c) => c.repairs # {}
  <2>. HIDE DEF c
  <2>. QED
    BY <1>1, <1>4 DEF Repaired
<1>7. WellFormed(c)
  <2>. HIDE DEF c
  <2>. QED
    BY <1>3, <1>5, <1>6, Zenon DEF WellFormed
<1>. QED
  BY <1>7

LEMMA SpanCalls ==
    ASSUME NEW span, HoldsObjects(span), NEW fenced \in BOOLEAN
    PROVE  /\ Calls(span, fenced) \in Seq(Range(Calls(span, fenced)))
           /\ \A c \in Range(Calls(span, fenced)) : WellFormed(c)
PROOF
<1>. DEFINE outer == {r \in {span.rung} : r # "json"}
                        \union {tag \in {"fenced"} : fenced}
            call(o) == ToolCall(o, outer \union NormalizeRepairs(o), Altered(o, span, fenced))
            made == [i \in DOMAIN span.objects |->
                        IF Kept(span.objects[i]) THEN <<call(span.objects[i])>> ELSE <<>>]
            T == {call(span.objects[i]) : i \in DOMAIN span.objects}
<1>1. Calls(span, fenced) = IF span.rung = "none" THEN <<>> ELSE FlattenSeq(made)
  BY Zenon DEF Calls
<1>2. \A c \in T : WellFormed(c)
  <2>1. ASSUME NEW i \in DOMAIN span.objects PROVE WellFormed(call(span.objects[i]))
    <3>1. IsObject(span.objects[i])
      BY DEF HoldsObjects
    <3>. QED
      BY <3>1, ParsedCall
  <2>. QED
    BY <2>1
<1>. HIDE DEF call, outer
<1>3. made \in Seq(Seq(T))
  <2>1. ASSUME NEW i \in DOMAIN span.objects PROVE made[i] \in Seq(T)
    <3>1. call(span.objects[i]) \in T
      OBVIOUS
    <3>2. made[i] = IF Kept(span.objects[i]) THEN <<call(span.objects[i])>> ELSE <<>>
      OBVIOUS
    <3>. HIDE DEF made, T
    <3>. QED
      BY <3>1, <3>2
  <2>2. span.objects \in Seq({o \in Range(span.objects) : IsObject(o)})
    BY DEF HoldsObjects
  <2>3. Len(span.objects) \in Nat /\ DOMAIN span.objects = 1..Len(span.objects)
    BY <2>2
  <2>. DEFINE n == Len(span.objects)
              U == Seq(T)
  <2>4. made = [i \in 1..n |-> made[i]] /\ n \in Nat
    BY <2>3
  <2>5. \A i \in 1..n : made[i] \in U
    <3>. HIDE DEF made, T
    <3>. QED
      BY <2>1, <2>3
  <2>. HIDE DEF made, U, n
  <2>6. made \in Seq(U)
    BY <2>4, <2>5, SeqOfValues
  <2>. QED
    BY <2>6 DEF U
<1>. HIDE DEF made, T
<1>4. Calls(span, fenced) \in Seq(T)
  BY <1>1, <1>3, FlattenTyped
<1>5. /\ Calls(span, fenced) \in Seq(Range(Calls(span, fenced)))
      /\ Range(Calls(span, fenced)) \subseteq T
  <2>. DEFINE s == Calls(span, fenced)
  <2>1. s \in Seq(T)
    BY <1>4
  <2>. HIDE DEF s
  <2>2. s \in Seq(Range(s)) /\ Range(s) \subseteq T
    BY <2>1, InOwnRange, Zenon
  <2>. QED
    BY <2>2 DEF s
<1>. QED
  BY <1>2, <1>5

\* What the parser returns can be executed, and repaired calls are counted.
LEMMA Parsed ==
    ASSUME NEW spans, NEW n \in Nat, spans = [i \in 1..n |-> spans[i]],
           \A i \in 1..n : HoldsObjects(spans[i]),
           NEW fenced \in BOOLEAN, NEW before
    PROVE  LET parsed == ParseResult(spans, fenced, before)
           IN  /\ parsed.calls \in Seq(Range(parsed.calls))
               /\ \A c \in Range(parsed.calls) : WellFormed(c)
               /\ parsed.stats = Counted(before, parsed.calls, NeedsRepair(parsed.calls),
                                         parsed.problems)
PROOF
<1>. DEFINE ss == [i \in DOMAIN spans |-> Calls(spans[i], fenced)]
            T == UNION {Range(Calls(spans[i], fenced)) : i \in 1..n}
            parsed == ParseResult(spans, fenced, before)
<1>1. \A i \in 1..n : Calls(spans[i], fenced) \in Seq(T)
  <2>1. ASSUME NEW i \in 1..n PROVE Calls(spans[i], fenced) \in Seq(T)
    <3>. DEFINE s == Calls(spans[i], fenced)
                R == Range(s)
    <3>1. s \in Seq(R)
      BY SpanCalls
    <3>2. R \subseteq T
      OBVIOUS
    <3>. HIDE DEF s, R, T
    <3>3. s \in Seq(T)
      BY <3>1, <3>2
    <3>. QED
      BY <3>3 DEF s
  <2>. QED
    BY <2>1
<1>2. \A c \in T : WellFormed(c)
  BY SpanCalls
<1>3. ss \in Seq(Seq(T))
  <2>. DEFINE U == Seq(T)
  <2>1. ss = [i \in 1..n |-> ss[i]] /\ \A i \in 1..n : ss[i] = Calls(spans[i], fenced)
    OBVIOUS
  <2>. HIDE DEF ss, T
  <2>2. \A i \in 1..n : ss[i] \in U
    BY <1>1, <2>1
  <2>. HIDE DEF U
  <2>3. ss \in Seq(U)
    BY <2>1, <2>2, SeqOfValues
  <2>. QED
    BY <2>3 DEF U
<1>4. parsed.calls = FlattenSeq(ss)
  BY DEF ParseResult
<1>5. parsed.stats = Counted(before, parsed.calls, NeedsRepair(parsed.calls), parsed.problems)
  BY DEF ParseResult
<1>. HIDE DEF ss, T, parsed
<1>6. parsed.calls \in Seq(T)
  BY <1>3, <1>4, FlattenTyped
<1>7. parsed.calls \in Seq(Range(parsed.calls)) /\ Range(parsed.calls) \subseteq T
  <2>. DEFINE s == parsed.calls
  <2>1. s \in Seq(T)
    BY <1>6
  <2>. HIDE DEF s
  <2>2. s \in Seq(Range(s)) /\ Range(s) \subseteq T
    BY <2>1, InOwnRange
  <2>. QED
    BY <2>2 DEF s
<1>. QED
  BY <1>2, <1>5, <1>7 DEF parsed

LEMMA ParsedNative ==
    ASSUME NEW n \in Nat, NEW objects \in [1..n -> NativeObjects], NEW before,
           \A i \in DOMAIN objects : objects[i].form # "raising"
    PROVE  LET parsed == NativeResult(objects, before)
           IN  /\ parsed.calls \in Seq(Range(parsed.calls))
               /\ \A c \in Range(parsed.calls) : WellFormed(c)
               /\ parsed.stats = Counted(before, parsed.calls, FALSE, 0)
               /\ \A c \in Range(parsed.calls) : ~Repaired(c)
PROOF
<1>. DEFINE parsed == NativeResult(objects, before)
            T == {NativeCall(o) : o \in NativeObjects}
<1>1. /\ parsed.calls = [i \in 1..n |-> NativeCall(objects[i])]
      /\ parsed.stats = Counted(before, parsed.calls, FALSE, 0)
  BY DEF NativeResult
<1>2. \A o \in NativeObjects : WellFormed(NativeCall(o)) /\ ~Repaired(NativeCall(o))
  <2>1. ASSUME NEW o \in NativeObjects
        PROVE  WellFormed(NativeCall(o)) /\ ~Repaired(NativeCall(o))
    <3>1. o.form \in Forms /\ HasWords(o.args)
      BY ToolCallsAssumption DEF IsObject, HasWords
    <3>2. /\ DOMAIN NativeCall(o) = {"name", "args", "repairs", "altered", "shape"}
          /\ NativeCall(o).altered =
                {part \in {"native_args"} : o.form \in {"encoded", "broken", "string"}}
          /\ NativeCall(o).args = o.args
          /\ NativeCall(o).shape =
                CASE o.form \in {"object", "encoded", "broken"} -> "object"
                  [] o.form = "string" -> "positional"
                  [] o.form \in {"absent", "empty_list"} -> "empty"
                  [] OTHER -> "raw"
      BY Zenon DEF NativeCall
    <3>3. NativeCall(o).shape \in {"object", "empty", "positional", "raw"}
      BY <3>1, <3>2 DEF Forms
    <3>4. NativeCall(o).altered \subseteq Unrecorded
      BY <3>2 DEF Unrecorded
    <3>5. ~Repaired(NativeCall(o))
      BY <3>4 DEF Repaired
    <3>6. IsCall(NativeCall(o))
      BY <3>2, <3>3 DEF IsCall
    <3>. QED
      BY <3>1, <3>2, <3>5, <3>6 DEF WellFormed
  <2>. QED
    BY <2>1
<1>3. \A i \in 1..n : parsed.calls[i] \in T
  BY <1>1
<1>4. \A c \in T : WellFormed(c) /\ ~Repaired(c)
  BY <1>2
<1>5. parsed.calls \in Seq(T)
  <2>. DEFINE s == parsed.calls
  <2>1. s = [i \in 1..n |-> s[i]]
    BY <1>1
  <2>. HIDE DEF s, T
  <2>. QED
    BY <1>3, <2>1, SeqOfValues DEF s
<1>6. parsed.calls \in Seq(Range(parsed.calls)) /\ Range(parsed.calls) \subseteq T
  <2>. DEFINE s == parsed.calls
  <2>1. s \in Seq(T)
    BY <1>5
  <2>. HIDE DEF s, T
  <2>2. s \in Seq(Range(s)) /\ Range(s) \subseteq T
    BY <2>1, InOwnRange
  <2>. QED
    BY <2>2 DEF s
<1>. HIDE DEF T, parsed
<1>. QED
  BY <1>1, <1>4, <1>6 DEF parsed

-----------------------------------------------------------------------------
(*****************************************************************************)
(* The calls of a completion, and what STATS says of them.                   *)
(*****************************************************************************)
Busy == {"call", "asking", "run", "bash"}

\* The calls that are left of a completion.
BatchInv ==
    /\ HasRead(text, scan)
    /\ closed \in Seq(BOOLEAN)
    /\ calls \in Seq(Range(calls))
    /\ \A c \in Range(calls) : WellFormed(c)
    /\ pc \in {"reading", "parsing"} => results = <<>> /\ calls = <<>> /\ stats = NoStats
    /\ pc \in Busy => calls # <<>>
    /\ Len(results) + Len(calls) <= MaxCalls
    /\ (\E c \in Range(calls) : Repaired(c)) => stats.needing_repair > 0

\* A step that begins no calls leaves them alone or takes the first, or all.
Onward ==
    /\ UNCHANGED <<text, scan, closed, stats>>
    /\ \/ UNCHANGED <<calls, results>> /\ (pc' = pc \/ (pc \in Busy /\ pc' \in Busy))
       \/ pc \in Busy /\ \E end \in Ends : Return(end)
       \/ pc \in Busy /\ pc' = "done" /\ calls' = <<>>
          /\ results' = Append(results, "escaped")

LEMMA StepKinds ==
    ASSUME CallsInv, [Next]_vars
    PROVE  Onward \/ Read \/ EndOfText \/ Parse \/ ParseNative
PROOF
<1>. USE DEF Onward, Busy, reading
<1>1. CASE Done \/ UNCHANGED vars
  <2>1. /\ UNCHANGED <<text, scan, closed, stats>>
        /\ UNCHANGED <<calls, results>> /\ pc' = pc
    BY <1>1 DEF Done, vars, dispatch
  <2>2. Onward
    BY <2>1 DEF Onward
  <2>. QED
    BY <2>2, Zenon
<1>2. CASE UNCHANGED reading /\ (Unknown \/ Escape \/ Invalid)
  BY <1>2 DEF Unknown, Escape, Invalid, ReturnOnly, Ends
<1>3. CASE UNCHANGED reading /\ (Allowed \/ Disabled \/ AutoApproved \/ Ask \/ Answer)
  BY <1>3 DEF Allowed, Disabled, AutoApproved, Ask, Answer, Approve, Decline, Proceed,
              Valid, Ends
<1>4. CASE UNCHANGED reading /\ (Refuse \/ CannotDo \/ ReadPath \/ WriteFile)
  BY <1>4 DEF Refuse, CannotDo, ReadPath, WriteFile, ReturnOnly, Running, Ends
<1>5. CASE UNCHANGED reading /\ (Forward \/ RefuseForward)
  BY <1>5 DEF Forward, RefuseForward, ReturnOnly, Ends
<1>6. CASE UNCHANGED reading /\ Client
  <2>1. CASE Hear
    <3>1. JobInv(N) /\ jobs[N].answer \in Answers
      BY <2>1 DEF Hear, CallsInv, Turn, JobInv
    <3>2. jobs[N].answer \in Ends
      BY <3>1 DEF Answers, Ends
    <3>. QED
      BY <1>6, <2>1, <3>2 DEF Hear, ReturnOnly
  <2>2. CASE SpawnHere \/ Post
    BY <1>6, <2>2 DEF SpawnHere, Post, RunBash
  <2>3. CASE RefuseHere \/ NotFoundHere \/ Unreachable \/ Rejected \/ Broken \/ GiveUp
    BY <1>6, <2>3 DEF RefuseHere, NotFoundHere, Unreachable, Rejected, Broken, GiveUp,
                      RunBash, ReturnOnly, Ends
  <2>. QED
    BY <1>6, <2>1, <2>2, <2>3 DEF Client
<1>7. CASE UNCHANGED reading /\ (Tick \/ Faults)
  <2>1. /\ UNCHANGED <<text, scan, closed, stats>>
        /\ UNCHANGED <<calls, results>> /\ pc' = pc
    BY <1>7 DEF Tick, Faults, Crash, Restart, LoseConnection, dispatch
  <2>2. Onward
    BY <2>1 DEF Onward
  <2>. QED
    BY <2>2, Zenon
<1>8. CASE UNCHANGED reading /\ \E k \in DOMAIN jobs : Service(k)
  <2>1. /\ UNCHANGED <<text, scan, closed, stats>>
        /\ UNCHANGED <<calls, results>> /\ pc' = pc
    BY <1>8 DEF Service, Begin, Exit, Kill, dispatch
  <2>2. Onward
    BY <2>1 DEF Onward
  <2>. QED
    BY <2>2, Zenon
<1>. QED
  BY <1>1, <1>2, <1>3, <1>4, <1>5, <1>6, <1>7, <1>8 DEF Next, Agent, Execute

\* The calls go on.
LEMMA OnwardKeeps ==
    ASSUME CallsInv, BatchInv, Onward, HasRead(text, scan)'
    PROVE  BatchInv'
PROOF
<1>0. results \in Seq(Ends) /\ Len(results) \in Nat /\ MaxCalls \in Nat
  BY DispatchAssumption DEF CallsInv, Types
<1>1. CASE UNCHANGED <<calls, results>> /\ (pc' = pc \/ (pc \in Busy /\ pc' \in Busy))
  BY <1>1 DEF BatchInv, Onward, Busy
<1>2. ASSUME pc \in Busy, NEW end \in Ends, Return(end) PROVE BatchInv'
  <2>. DEFINE R == Range(calls)
              s == Tail(calls)
  <2>1. calls \in Seq(R) /\ calls # <<>>
    BY <1>2 DEF BatchInv
  <2>2. s \in Seq(R) /\ Len(s) \in Nat /\ Len(calls) = Len(s) + 1
    <3>. HIDE DEF R
    <3>. QED
      BY <2>1
  <2>3. s \in Seq(Range(s)) /\ Range(s) \subseteq R
    <3>. HIDE DEF R, s
    <3>. QED
      BY <2>2, InOwnRange
  <2>4. calls' = s /\ Len(results') = Len(results) + 1
        /\ (pc' \in Busy => s # <<>>) /\ pc' \notin {"reading", "parsing"}
    BY <1>0, <1>2 DEF Return, Busy
  <2>5. UNCHANGED <<closed, stats>>
    BY DEF Onward
  <2>6. Len(results') + Len(calls') <= MaxCalls
    BY <1>0, <2>2, <2>4 DEF BatchInv
  <2>. HIDE DEF s
  <2>. QED
    BY <2>3, <2>4, <2>5, <2>6 DEF BatchInv
<1>3. CASE pc \in Busy /\ pc' = "done" /\ calls' = <<>> /\ results' = Append(results, "escaped")
  <2>1. calls # <<>> /\ calls \in Seq(Range(calls))
    BY <1>3 DEF BatchInv
  <2>2. Len(calls) >= 1 /\ Len(calls) \in Nat
    BY <2>1
  <2>3. Len(results') = Len(results) + 1 /\ Len(calls') = 0
    BY <1>0, <1>3
  <2>4. Len(results') + Len(calls') <= MaxCalls
    BY <1>0, <2>2, <2>3 DEF BatchInv
  <2>5. Range(calls') = {} /\ calls' \in Seq({})
    BY <1>3 DEF Range
  <2>. QED
    BY <1>3, <2>4, <2>5 DEF BatchInv, Onward, Busy
<1>. QED
  BY <1>1, <1>2, <1>3 DEF Onward

\* Calls begin.
LEMMA BegunKeeps ==
    ASSUME CallsInv, BatchInv, pc \in {"reading", "parsing"}, HasRead(text, scan)',
           NEW parsed, Begun(parsed),
           parsed.calls \in Seq(Range(parsed.calls)),
           \A c \in Range(parsed.calls) : WellFormed(c),
           (\E c \in Range(parsed.calls) : Repaired(c)) => parsed.stats.needing_repair > 0
    PROVE  BatchInv'
PROOF
<1>1. calls' = parsed.calls /\ results' = <<>> /\ closed' = <<>> /\ stats' = parsed.stats
  BY DEF Begun, BatchInv
<1>2. Len(results') = 0 /\ Len(calls') \in Nat /\ Len(calls') <= MaxCalls
  BY <1>1 DEF Begun
<1>3. pc' \notin {"reading", "parsing"} /\ (pc' \in Busy => calls' # <<>>)
  BY <1>1 DEF Begun, Busy
<1>4. Len(results') + Len(calls') <= MaxCalls
  BY <1>2
<1>5. closed' \in Seq(BOOLEAN)
  BY <1>1
<1>. QED
  BY <1>1, <1>3, <1>4, <1>5 DEF BatchInv

LEMMA HeldSpans ==
    ASSUME BatchInv, NEW spans \in Held
    PROVE  \E n \in Nat : /\ spans = [i \in 1..n |-> spans[i]]
                          /\ \A i \in 1..n : HoldsObjects(spans[i])
PROOF
<1>1. CASE closed = <<>>
  <2>1. spans = <<>>
    BY <1>1 DEF Held
  <2>2. spans = [i \in 1..0 |-> spans[i]]
    BY <2>1
  <2>3. 0 \in Nat /\ \A i \in 1..0 : HoldsObjects(spans[i])
    OBVIOUS
  <2>. QED
    BY <2>2, <2>3, Zenon
<1>2. CASE closed # <<>>
  <2>. DEFINE m == Len(closed) - 1
              S == SpanShapes \union LaterShapes
  <2>1. m \in Nat
    BY <1>2 DEF BatchInv
  <2>2. PICK first \in SpanShapes, later \in [1..m -> LaterShapes] : spans = <<first>> \o later
    <3>. DEFINE H(first) == {<<first>> \o later : later \in [1..m -> LaterShapes]}
    <3>1. spans \in UNION {H(first) : first \in SpanShapes}
      BY <1>2 DEF Held
    <3>2. PICK first \in SpanShapes : spans \in H(first)
      BY <3>1
    <3>. QED
      BY <3>2
  <2>3. later \in Seq(S) /\ first \in S
    <3>1. \A i \in 1..m : later[i] \in S
      BY <2>2
    <3>2. later = [i \in 1..m |-> later[i]]
      BY <2>2
    <3>. HIDE DEF S, m
    <3>3. later \in Seq(S)
      BY <2>1, <3>1, <3>2, SeqOfValues
    <3>. QED
      BY <3>3 DEF S
  <2>. HIDE DEF S
  <2>4. spans \in Seq(S)
    BY <2>2, <2>3
  <2>5. \A span \in S : HoldsObjects(span)
    BY ToolCallsAssumption DEF HoldsObjects, S
  <2>6. Len(spans) \in Nat /\ spans = [i \in 1..Len(spans) |-> spans[i]]
        /\ \A i \in 1..Len(spans) : spans[i] \in S
    BY <2>4
  <2>. QED
    BY <2>5, <2>6
<1>. QED
  BY <1>1, <1>2

\* Parsing raised: there are no calls.
LEMMA RaisedKeeps ==
    ASSUME CallsInv, BatchInv, pc \in {"reading", "parsing"}, HasRead(text, scan)',
           NEW spans, Begun(RaisedResult(spans, stats))
    PROVE  BatchInv'
PROOF
<1>. DEFINE parsed == RaisedResult(spans, stats)
<1>1. parsed.calls = <<>>
  BY DEF RaisedResult
<1>2. Begun(parsed)
  OBVIOUS
<1>. HIDE DEF parsed
<1>3. Range(parsed.calls) = {} /\ parsed.calls \in Seq(Range(parsed.calls))
  BY <1>1 DEF Range
<1>. QED
  BY <1>2, <1>3, BegunKeeps

LEMMA ParseKeeps ==
    ASSUME CallsInv, BatchInv, Parse, HasRead(text, scan)'
    PROVE  BatchInv'
PROOF
<1>0. PICK fenced \in BOOLEAN, spans \in Held :
            \/ Begun(RaisedResult(spans, stats))
            \/ Begun(ParseResult(spans, fenced, stats))
  BY DEF Parse
<1>7. CASE Begun(RaisedResult(spans, stats))
  <2>1. pc \in {"reading", "parsing"}
    BY DEF Parse
  <2>. QED
    BY <1>7, <2>1, RaisedKeeps
<1>8. CASE Begun(ParseResult(spans, fenced, stats))
  <2>2. PICK n \in Nat : /\ spans = [i \in 1..n |-> spans[i]]
                         /\ \A i \in 1..n : HoldsObjects(spans[i])
    BY HeldSpans
  <2>. DEFINE parsed == ParseResult(spans, fenced, stats)
  <2>3. /\ parsed.calls \in Seq(Range(parsed.calls))
        /\ \A c \in Range(parsed.calls) : WellFormed(c)
        /\ parsed.stats = Counted(stats, parsed.calls, NeedsRepair(parsed.calls), parsed.problems)
    BY <2>2, Parsed
  <2>4. stats.needing_repair = 0 /\ pc \in {"reading", "parsing"}
    <3>1. stats = NoStats
      BY DEF Parse, BatchInv
    <3>. QED
      BY <3>1 DEF NoStats, Parse
  <2>. HIDE DEF parsed
  <2>5. (\E c \in Range(parsed.calls) : Repaired(c)) => parsed.stats.needing_repair > 0
    <3>. SUFFICES ASSUME NEW c \in Range(parsed.calls), Repaired(c)
                  PROVE  parsed.stats.needing_repair > 0
      OBVIOUS
    <3>1. c.repairs # {}
      BY <2>3 DEF WellFormed
    <3>2. NeedsRepair(parsed.calls)
      BY <3>1 DEF NeedsRepair, Range
    <3>3. parsed.stats.needing_repair = stats.needing_repair + 1
      BY <2>3, <3>2 DEF Counted
    <3>. QED
      BY <2>4, <3>3
  <2>6. Begun(parsed)
    BY <1>8 DEF parsed
  <2>. QED
    BY <2>3, <2>4, <2>5, <2>6, BegunKeeps
<1>. QED
  BY <1>0, <1>7, <1>8

LEMMA ParseNativeKeeps ==
    ASSUME CallsInv, BatchInv, ParseNative, HasRead(text, scan)'
    PROVE  BatchInv'
PROOF
<1>1. PICK n \in 1..MaxCalls : \E objects \in [1..n -> NativeObjects] :
              Begun(NativeResult(objects, stats))
  BY DEF ParseNative
<1>2. PICK objects \in [1..n -> NativeObjects] : Begun(NativeResult(objects, stats))
  BY <1>1
<1>4. pc \in {"reading", "parsing"}
  BY DEF ParseNative
<1>. DEFINE parsed == NativeResult(objects, stats)
<1>6. CASE \E i \in DOMAIN objects : objects[i].form = "raising"
  <2>1. Begun(RaisedResult(<<>>, stats))
    BY <1>2, <1>6 DEF NativeResult
  <2>. QED
    BY <1>4, <2>1, RaisedKeeps
<1>7. CASE \A i \in DOMAIN objects : objects[i].form # "raising"
  <2>1. n \in Nat
    BY DispatchAssumption
  <2>2. /\ parsed.calls \in Seq(Range(parsed.calls))
        /\ \A c \in Range(parsed.calls) : WellFormed(c)
        /\ \A c \in Range(parsed.calls) : ~Repaired(c)
    BY <1>2, <1>7, <2>1, ParsedNative
  <2>3. Begun(parsed)
    BY <1>2
  <2>. HIDE DEF parsed
  <2>. QED
    BY <1>4, <2>2, <2>3, BegunKeeps
<1>. QED
  BY <1>6, <1>7

LEMMA BatchNext == CallsInv /\ BatchInv /\ [Next]_vars => BatchInv'
PROOF
<1>. SUFFICES ASSUME CallsInv, BatchInv, [Next]_vars PROVE BatchInv'
  OBVIOUS
<1>1. HasRead(text, scan)'
  BY ReadNext DEF BatchInv
<1>2. CASE Onward
  BY <1>1, <1>2, OnwardKeeps
<1>3. CASE Read
  BY <1>1, <1>3 DEF Read, BatchInv, dispatch, Busy
<1>4. CASE EndOfText
  <2>1. scan.spans \in Seq(Span) /\ scan.start \in Int /\ scan.at \in Nat
    BY DEF BatchInv, HasRead, Locals
  <2>. DEFINE n == Len(Spans(scan))
  <2>2. n \in Nat /\ DOMAIN Spans(scan) = 1..n
    BY <2>1 DEF Spans
  <2>. HIDE DEF n
  <2>3. closed' = [i \in 1..n |-> i <= Len(scan.spans)]
    BY <1>4, <2>2 DEF EndOfText
  <2>4. closed' \in Seq(BOOLEAN)
    BY <2>2, <2>3
  <2>5. UNCHANGED <<calls, results, stats>> /\ pc = "reading" /\ pc' = "parsing"
    BY <1>4 DEF EndOfText
  <2>. QED
    BY <1>1, <2>4, <2>5 DEF BatchInv, Busy
<1>5. CASE Parse
  BY <1>1, <1>5, ParseKeeps
<1>6. CASE ParseNative
  BY <1>1, <1>6, ParseNativeKeeps
<1>. QED
  BY <1>2, <1>3, <1>4, <1>5, <1>6, StepKinds

LEMMA BatchInit == Init => BatchInv
PROOF
<1>. SUFFICES ASSUME Init PROVE BatchInv
  OBVIOUS
<1>1. /\ HasRead(text, scan) /\ closed = <<>> /\ calls = <<>> /\ results = <<>>
      /\ pc = "reading" /\ stats = NoStats
  BY FreshHasRead DEF Init
<1>2. Range(calls) = {} /\ Len(calls) = 0 /\ Len(results) = 0 /\ MaxCalls \in Nat
  BY <1>1, DispatchAssumption DEF Range
<1>. QED
  BY <1>1, <1>2 DEF BatchInv, Busy

LEMMA BatchCounts == BatchInv => RepairsCounted
PROOF
<1>. SUFFICES ASSUME BatchInv, NEW i \in DOMAIN calls, Repaired(calls[i])
              PROVE  stats.needing_repair > 0
  BY DEF RepairsCounted
<1>1. calls[i] \in Range(calls)
  BY DEF Range
<1>. QED
  BY <1>1 DEF BatchInv

\* What is left of a completion is what the parser made of it: no more calls than
\* the bound, in shapes the registry knows, and counted as repaired when one of them
\* was changed by a recorded repair (parsing.py:422-560, agent.py:281-289).
THEOREM BatchInvariance == Spec => []BatchInv
PROOF
  BY BatchInit, BatchNext, CallsInvariance, PTL DEF Spec

\* A call that is not what the model was asked to write is counted, for as long
\* as it waits (parsing.py:22-23, 513-520), unless all that was changed is what
\* the code records no repair for (parsing.py:401-402, 542).
THEOREM RepairsAlwaysCounted == Spec => []RepairsCounted
PROOF
  BY BatchInvariance, BatchCounts, PTL

-----------------------------------------------------------------------------
(*****************************************************************************)
(* The rest of the types.                                                    *)
(*****************************************************************************)
Nodes == {"agent", "executor", "server"}

Bounds ==
    /\ session \in Sessions
    /\ approved \subseteq 1..MaxCalls
    /\ \A e \in effects : e.call \in 1..MaxCalls /\ e.node \in Nodes
    /\ \A p \in DOMAIN files : files[p] \in {"file", "dir"}
    /\ node \in {"up", "down"}
    /\ waited \in 0..ClientTimeout
    /\ DOMAIN jobs \subseteq 1..MaxCalls
    /\ \A k \in DOMAIN jobs : jobs[k].ran \in 0..CommandTimeout

LEMMA TypesFollow == CallsInv /\ BatchInv /\ Bounds => TypeOK
PROOF
<1>. SUFFICES ASSUME CallsInv, BatchInv, Bounds PROVE TypeOK
  OBVIOUS
<1>1. \A i \in DOMAIN calls : IsCall(calls[i])
  BY DEF BatchInv, WellFormed, Range
<1>2. \A k \in DOMAIN jobs : jobs[k].state \in JobStates /\ jobs[k].answer \in Ends
  BY DEF CallsInv, Types, Job
<1>3. pc \in {"reading", "parsing", "call", "asking", "run", "bash", "done"}
      /\ results \in Seq(Ends)
  BY DEF CallsInv, Types, Places
<1>4. Len(results) + Len(calls) <= MaxCalls
  BY DEF BatchInv
<1>. QED
  BY <1>1, <1>2, <1>3, <1>4 DEF Bounds, TypeOK, Nodes

LEMMA CallInBounds ==
    ASSUME CallsInv, BatchInv, pc \in Busy
    PROVE  N \in 1..MaxCalls
PROOF
<1>1. Len(results) \in Nat /\ MaxCalls \in Nat
  BY DispatchAssumption DEF CallsInv, Types
<1>2. calls # <<>> /\ calls \in Seq(Range(calls)) /\ Len(results) + Len(calls) <= MaxCalls
  BY DEF BatchInv
<1>3. Len(calls) \in Nat /\ Len(calls) >= 1
  BY <1>2
<1>. QED
  BY <1>1, <1>2, <1>3 DEF N

LEMMA NothingKeeps ==
    ASSUME Bounds, UNCHANGED <<session, approved, effects, files>>, UNCHANGED executor
    PROVE  Bounds'
  BY DEF Bounds, executor

LEMMA ToolBounds ==
    ASSUME CallsInv, BatchInv, Bounds, ReadPath \/ Forward \/ WriteFile, UNCHANGED executor
    PROVE  Bounds'
PROOF
<1>1. N \in 1..MaxCalls
  BY CallInBounds DEF ReadPath, Forward, WriteFile, Running, Busy
<1>2. \A e \in effects' : e \in effects \/ (e.call = N /\ e.node \in Nodes)
  <2>1. CASE ReadPath \/ WriteFile
    <3>1. effects' \subseteq effects \union {Effect(Target, "agent", "bare")}
      BY <2>1 DEF ReadPath, WriteFile
    <3>2. Effect(Target, "agent", "bare").call = N /\ Effect(Target, "agent", "bare").node = "agent"
      BY DEF Effect
    <3>. QED
      BY <3>1, <3>2 DEF Nodes
  <2>2. CASE Forward
    <3>1. PICK some \in SUBSET DOMAIN Words :
              effects' = effects \union OpenedByServer(some)
      BY <2>2 DEF Forward
    <3>2. \A e \in OpenedByServer(some) : e.call = N /\ e.node = "server"
      BY ServerOpened
    <3>. QED
      BY <3>1, <3>2 DEF Nodes
  <2>. QED
    BY <2>1, <2>2
<1>3. \A p \in DOMAIN files' : files'[p] \in {"file", "dir"}
  <2>1. CASE WriteFile
    <3>1. PICK new : files' = [p \in DOMAIN files \union new |->
                                  IF p \in DOMAIN files THEN files[p]
                                  ELSE IF p = Target THEN "file" ELSE "dir"]
      BY <2>1 DEF WriteFile
    <3>. QED
      BY <3>1 DEF Bounds
  <2>2. CASE ReadPath \/ Forward
    BY <2>2 DEF ReadPath, Forward, Bounds
  <2>. QED
    BY <2>1, <2>2
<1>4. UNCHANGED <<session, approved, node, waited, jobs>>
  BY DEF ReadPath, Forward, WriteFile, executor
<1>. QED
  BY <1>1, <1>2, <1>3, <1>4 DEF Bounds

LEMMA LaunchBounds ==
    ASSUME CallsInv, BatchInv, Bounds, SpawnHere \/ Post
    PROVE  Bounds'
PROOF
<1>1. N \in 1..MaxCalls
  BY CallInBounds DEF SpawnHere, Post, RunBash, Busy
<1>2. \A e \in effects' : e \in effects \/ (e.call = N /\ e.node = "agent")
  <2>1. \A e \in Spawned(N, Call.args, "agent") : e.call = N /\ e.node = "agent"
    BY SpawnedEffects
  <2>. QED
    BY <2>1 DEF SpawnHere, Post
<1>3. PICK state, place : Launch(state, place)
  BY DEF SpawnHere, Post
<1>4. /\ DOMAIN jobs' = DOMAIN jobs \union {N}
      /\ \A k \in DOMAIN jobs' : jobs'[k] = IF k = N THEN NewJob(state, place) ELSE jobs[k]
  BY <1>3 DEF Launch
<1>5. NewJob(state, place).ran = 0
  BY DEF NewJob
<1>6. CommandTimeout \in Nat /\ ClientTimeout \in Nat
  BY ExecutorAssumption
<1>7. \A k \in DOMAIN jobs' : jobs'[k].ran \in 0..CommandTimeout
  <2>1. ASSUME NEW k \in DOMAIN jobs' PROVE jobs'[k].ran \in 0..CommandTimeout
    <3>1. CASE k = N
      BY <1>4, <1>5, <1>6, <3>1
    <3>2. CASE k # N
      BY <1>4, <3>2 DEF Bounds
    <3>. QED
      BY <3>1, <3>2
  <2>. QED
    BY <2>1
<1>8. UNCHANGED <<session, approved, files, node>> /\ waited' = 0
  BY DEF SpawnHere, Post
<1>9. waited' \in 0..ClientTimeout /\ DOMAIN jobs' \subseteq 1..MaxCalls
  BY <1>1, <1>4, <1>6, <1>8 DEF Bounds
<1>. QED
  BY <1>1, <1>2, <1>7, <1>8, <1>9 DEF Bounds, Nodes

LEMMA JobBounds ==
    ASSUME CallsInv, Bounds, UNCHANGED <<session, approved, files>>,
           waited' \in 0..ClientTimeout, node' \in {"up", "down"},
           jobs' = [k \in DOMAIN jobs |-> jobs'[k]],
           \A k \in DOMAIN jobs : jobs'[k].ran \in 0..CommandTimeout,
           \A e \in effects' : e \in effects \/ (e.call \in DOMAIN jobs /\ e.node \in Nodes)
    PROVE  Bounds'
PROOF
<1>1. DOMAIN jobs' = DOMAIN jobs /\ DOMAIN jobs \subseteq 1..MaxCalls
  BY DEF Bounds
<1>2. \A e \in effects' : e.call \in 1..MaxCalls /\ e.node \in Nodes
  BY <1>1 DEF Bounds
<1>3. \A p \in DOMAIN files' : files'[p] \in {"file", "dir"}
  BY DEF Bounds
<1>. QED
  BY <1>1, <1>2, <1>3 DEF Bounds

LEMMA ServiceBounds ==
    ASSUME CallsInv, Bounds, NEW k \in DOMAIN jobs, Service(k)
    PROVE  Bounds'
PROOF
<1>0. /\ jobs[k] \in Job(jobs[k]) /\ jobs = [j \in DOMAIN jobs |-> jobs[j]]
      /\ jobs[k].ran \in 0..CommandTimeout
      /\ \A j \in DOMAIN jobs : jobs[j].ran \in 0..CommandTimeout
  BY DEF CallsInv, Types, Bounds
<1>1. UNCHANGED <<session, approved, files, node, waited>>
  BY DEF Service, Begin, Exit, Kill, dispatch
<1>2. /\ jobs' = [j \in DOMAIN jobs |-> jobs'[j]]
      /\ \A j \in DOMAIN jobs : j # k => jobs'[j] = jobs[j]
      /\ jobs'[k].ran = jobs[k].ran
  <2>1. ASSUME NEW end, Answered(k, end)
        PROVE  /\ jobs' = [j \in DOMAIN jobs |-> jobs'[j]]
               /\ \A j \in DOMAIN jobs : j # k => jobs'[j] = jobs[j]
               /\ jobs'[k].ran = jobs[k].ran
    <3>1. /\ jobs' = [j \in DOMAIN jobs |-> jobs'[j]]
          /\ \A j \in DOMAIN jobs : j # k => jobs'[j] = jobs[j]
          /\ jobs'[k] = [jobs[k] EXCEPT !.state = "answered", !.answer = end]
      BY <1>0, <2>1 DEF Answered
    <3>. QED
      BY <1>0, <3>1 DEF Job
  <2>2. ASSUME jobs' = [jobs EXCEPT ![k].state = "running"]
        PROVE  /\ jobs' = [j \in DOMAIN jobs |-> jobs'[j]]
               /\ \A j \in DOMAIN jobs : j # k => jobs'[j] = jobs[j]
               /\ jobs'[k].ran = jobs[k].ran
    <3>1. /\ jobs' = [j \in DOMAIN jobs |-> jobs'[j]]
          /\ \A j \in DOMAIN jobs : j # k => jobs'[j] = jobs[j]
          /\ jobs'[k] = [jobs[k] EXCEPT !.state = "running"]
      BY <1>0, <2>2
    <3>. QED
      BY <1>0, <3>1 DEF Job
  <2>3. (\E end : Answered(k, end)) \/ jobs' = [jobs EXCEPT ![k].state = "running"]
    BY DEF Service, Begin, Exit, Kill
  <2>. QED
    BY <2>1, <2>2, <2>3
<1>3. \A j \in DOMAIN jobs : jobs'[j].ran \in 0..CommandTimeout
  BY <1>0, <1>2
<1>4. \A e \in effects' : e \in effects \/ (e.call = k /\ e.node = "executor")
  <2>1. \A e \in Spawned(k, jobs[k].args, "executor") : e.call = k /\ e.node = "executor"
    BY SpawnedEffects
  <2>. QED
    BY <2>1 DEF Service, Begin, Exit, Kill, dispatch
<1>5. waited' \in 0..ClientTimeout /\ node' \in {"up", "down"}
  BY <1>1 DEF Bounds
<1>6. \A e \in effects' : e \in effects \/ (e.call \in DOMAIN jobs /\ e.node \in Nodes)
  BY <1>4 DEF Nodes
<1>. QED
  BY <1>1, <1>2, <1>3, <1>5, <1>6, JobBounds

LEMMA TickBounds == ASSUME CallsInv, Bounds, Tick PROVE Bounds'
PROOF
<1>0. CommandTimeout \in Nat /\ ClientTimeout \in Nat
  BY ExecutorAssumption
<1>1. /\ UNCHANGED <<session, approved, files, node>> /\ effects' = effects
      /\ jobs' = [k \in DOMAIN jobs |-> jobs'[k]]
  BY DEF Tick, dispatch
<1>2. waited' \in 0..ClientTimeout
  BY <1>0 DEF Tick, Expired, Bounds
<1>3. ASSUME NEW k \in DOMAIN jobs PROVE jobs'[k].ran \in 0..CommandTimeout
  <2>1. jobs[k] \in Job(jobs[k]) /\ jobs[k].ran \in 0..CommandTimeout
    BY DEF CallsInv, Types, Bounds
  <2>2. CASE jobs[k].state = "running"
    <3>1. /\ jobs'[k] = [jobs[k] EXCEPT !.ran = jobs[k].ran + 1]
          /\ jobs[k].ran < CommandTimeout
      BY <2>2 DEF Tick
    <3>2. jobs'[k].ran = jobs[k].ran + 1
      BY <2>1, <3>1 DEF Job
    <3>. QED
      BY <1>0, <2>1, <3>1, <3>2
  <2>3. CASE jobs[k].state = "queued" /\ k = N
    <3>1. jobs'[k] = [jobs[k] EXCEPT !.delay = jobs[k].delay + 1]
      BY <2>3 DEF Tick
    <3>. QED
      BY <2>1, <3>1 DEF Job
  <2>4. CASE jobs[k].state # "running" /\ ~(jobs[k].state = "queued" /\ k = N)
    <3>1. jobs'[k] = jobs[k]
      BY <2>4 DEF Tick
    <3>. QED
      BY <2>1, <3>1
  <2>. QED
    BY <2>2, <2>3, <2>4
<1>4. \A e \in effects' : e \in effects
  BY <1>1
<1>5. node' \in {"up", "down"}
  BY <1>1 DEF Bounds
<1>. QED
  BY <1>1, <1>2, <1>3, <1>4, <1>5, JobBounds

LEMMA FaultBounds == ASSUME CallsInv, Bounds, Faults PROVE Bounds'
PROOF
<1>1. /\ UNCHANGED <<session, approved, files, waited>> /\ effects' = effects
      /\ node' \in {"up", "down"}
  BY DEF Faults, Crash, Restart, LoseConnection, dispatch, Bounds
<1>2. jobs' = [k \in DOMAIN jobs |-> jobs'[k]]
  BY DEF Faults, Crash, Restart, LoseConnection, CallsInv, Types
<1>3. ASSUME NEW k \in DOMAIN jobs PROVE jobs'[k].ran \in 0..CommandTimeout
  <2>1. jobs[k] \in Job(jobs[k]) /\ jobs[k].ran \in 0..CommandTimeout
    BY DEF CallsInv, Types, Bounds
  <2>2. \/ jobs'[k] = jobs[k]
        \/ jobs'[k] = [jobs[k] EXCEPT !.cut = TRUE]
        \/ jobs'[k] = [jobs[k] EXCEPT !.state = "lost", !.cut = TRUE]
    BY DEF Faults, Crash, Restart, LoseConnection, CallsInv, Types
  <2>. QED
    BY <2>1, <2>2 DEF Job
<1>4. \A e \in effects' : e \in effects
  BY <1>1
<1>5. waited' \in 0..ClientTimeout
  BY <1>1 DEF Bounds
<1>. QED
  BY <1>1, <1>2, <1>3, <1>4, <1>5, JobBounds

LEMMA ApproveBounds ==
    ASSUME CallsInv, BatchInv, Bounds, Approve, UNCHANGED executor
    PROVE  Bounds'
PROOF
<1>1. N \in 1..MaxCalls
  BY CallInBounds DEF Approve, Busy
<1>. QED
  BY <1>1 DEF Approve, Proceed, Bounds, executor

LEMMA BoundsNext == CallsInv /\ BatchInv /\ Bounds /\ [Next]_vars => Bounds'
PROOF
<1>. SUFFICES ASSUME CallsInv, BatchInv, Bounds, [Next]_vars PROVE Bounds'
  OBVIOUS
<1>1. CASE Read \/ EndOfText \/ Parse \/ ParseNative \/ Done \/ UNCHANGED vars
  <2>1. UNCHANGED <<session, approved, effects, files>> /\ UNCHANGED executor
    BY <1>1 DEF Read, EndOfText, Parse, ParseNative, Begun, Done, vars, dispatch
  <2>. QED
    BY <2>1, NothingKeeps
<1>2. CASE UNCHANGED executor /\ (\/ Unknown \/ Escape \/ Invalid \/ Refuse \/ CannotDo
                                  \/ RefuseForward)
  <2>1. UNCHANGED <<session, approved, effects, files>>
    BY <1>2 DEF Unknown, Escape, Invalid, Refuse, CannotDo, RefuseForward, ReturnOnly
  <2>. QED
    BY <1>2, <2>1, NothingKeeps
<1>3. CASE UNCHANGED executor /\ (Allowed \/ Disabled \/ AutoApproved \/ Ask \/ Decline)
  <2>1. UNCHANGED <<session, approved, effects, files>>
    BY <1>3 DEF Allowed, Disabled, AutoApproved, Ask, Decline, Proceed
  <2>. QED
    BY <1>3, <2>1, NothingKeeps
<1>4. CASE UNCHANGED executor /\ (ReadPath \/ Forward \/ WriteFile)
  BY <1>4, ToolBounds
<1>5. CASE UNCHANGED executor /\ Approve
  BY <1>5, ApproveBounds
<1>6. CASE \/ RefuseHere \/ NotFoundHere \/ Unreachable \/ Rejected \/ Hear \/ Broken
           \/ GiveUp
  <2>1. UNCHANGED <<session, approved, effects, files>> /\ UNCHANGED executor
    BY <1>6 DEF RefuseHere, NotFoundHere, Unreachable, Rejected, Hear, Broken, GiveUp,
                ReturnOnly
  <2>. QED
    BY <2>1, NothingKeeps
<1>7. CASE SpawnHere \/ Post
  BY <1>7, LaunchBounds
<1>8. CASE Tick
  BY <1>8, TickBounds
<1>9. CASE Faults
  BY <1>9, FaultBounds
<1>10. CASE \E k \in DOMAIN jobs : Service(k)
  BY <1>10, ServiceBounds
<1>. QED
  BY <1>1, <1>2, <1>3, <1>4, <1>5, <1>6, <1>7, <1>8, <1>9, <1>10
     DEF Next, Agent, Execute, Client, Answer

LEMMA BoundsInit == Init => Bounds
PROOF
<1>. SUFFICES ASSUME Init PROVE Bounds
  OBVIOUS
<1>1. DOMAIN jobs = {} /\ ClientTimeout \in Nat
  BY ExecutorAssumption DEF Init
<1>2. \A p \in DOMAIN files : files[p] \in {"file", "dir"}
  BY DispatchAssumption DEF Init
<1>. QED
  BY <1>1, <1>2 DEF Init, Bounds

\* Every variable has its type: no more calls than the bound, every call in a
\* shape the registry knows, no clock past its timeout.
THEOREM AlwaysTyped == Spec => []TypeOK
PROOF
<1>1. Spec => [](CallsInv /\ BatchInv)
  BY BatchInit, BatchNext, CallsInvariance, PTL DEF Spec
<1>2. Spec => []Bounds
  BY <1>1, BoundsInit, BoundsNext, PTL DEF Spec
<1>. QED
  BY <1>1, <1>2, TypesFollow, PTL

-----------------------------------------------------------------------------
(*****************************************************************************)
(* Where a path leads: the walk of the operating system, which need not end. *)
(*****************************************************************************)
Proceeds(S, R, step, val) == step \in [S -> S] /\ val \in [S -> R] /\ R # {}

Settles(S, R, stop, step, val) ==
    \E f \in [S -> R] :
        \A s \in S : f[s] = IF s \in stop THEN val[s] ELSE f[step[s]]

\* A definition whose only call is its last step has a solution, even where the
\* steps never stop.
LEMMA LastStepHolds ==
    ASSUME NEW S, NEW R, NEW stop, NEW step, NEW val, Proceeds(S, R, step, val)
    PROVE  Settles(S, R, stop, step, val)
PROOF
<1>0. step \in [S -> S] /\ val \in [S -> R] /\ R # {}
  BY Zenon DEF Proceeds
<1>. USE <1>0
<1>. DEFINE G == [S -> S]
            size == [n \in Nat |-> n]
            It(g, n) == IF n = 0 THEN [s \in S |-> s]
                        ELSE [s \in S |-> IF s \in stop THEN s ELSE g[n - 1][step[s]]]
            F == [g \in [Nat -> G] |-> [n \in Nat |-> It(g, n)]]
<1>1. PICK it \in [Nat -> G] : it = F[it]
  <2>1. size \in [Nat -> Nat] /\ G # {}
    BY step \in G
  <2>2. F \in [[Nat -> G] -> [Nat -> G]]
    <3>1. ASSUME NEW g \in [Nat -> G], NEW n \in Nat PROVE It(g, n) \in G
      <4>1. n # 0 => n - 1 \in Nat
        OBVIOUS
      <4>2. n # 0 => g[n - 1] \in G
        BY <4>1
      <4>. QED
        BY <4>2
    <3>. HIDE DEF It, G
    <3>. QED
      BY <3>1
  <2>3. Decreasing(Nat, G, size, F)
    <3>. SUFFICES ASSUME NEW g \in [Nat -> G], NEW h \in [Nat -> G], NEW n \in Nat,
                         \A m \in Nat : size[m] < size[n] => g[m] = h[m]
                  PROVE  F[g][n] = F[h][n]
      BY Zenon DEF Decreasing
    <3>1. n # 0 => g[n - 1] = h[n - 1]
      <4>1. n # 0 => n - 1 \in Nat /\ n - 1 < n
        OBVIOUS
      <4>. QED
        BY <4>1
    <3>2. It(g, n) = It(h, n)
      BY <3>1
    <3>. QED
      BY <3>2, Zenon
  <2>. HIDE DEF F, size, G
  <2>4. PICK g \in [Nat -> G] : Solves(g, F)
    BY <2>1, <2>2, <2>3, RecursionHolds, Zenon
  <2>. QED
    BY <2>4 DEF Solves
<1>2. /\ \A s \in S : it[0][s] = s
      /\ \A n \in Nat, s \in S :
            it[n + 1][s] = IF s \in stop THEN s ELSE it[n][step[s]]
      /\ \A n \in Nat, s \in S : it[n][s] \in S
  <2>1. \A n \in Nat : it[n] = It(it, n)
    BY <1>1, Zenon
  <2>2. \A n \in Nat : n + 1 # 0 /\ n + 1 \in Nat /\ (n + 1) - 1 = n
    OBVIOUS
  <2>3. \A n \in Nat : it[n] \in [S -> S]
    BY <1>1
  <2>4. ASSUME NEW n \in Nat, NEW s \in S
        PROVE  it[n + 1][s] = IF s \in stop THEN s ELSE it[n][step[s]]
    <3>1. it[n + 1] = It(it, n + 1)
      BY <2>1, <2>2
    <3>2. It(it, n + 1) = [x \in S |-> IF x \in stop THEN x ELSE it[n][step[x]]]
      BY <2>2
    <3>. HIDE DEF It
    <3>. QED
      BY <3>1, <3>2
  <2>5. \A s \in S : it[0][s] = s
    BY <2>1
  <2>. HIDE DEF It
  <2>. QED
    BY <2>3, <2>4, <2>5
<1>. DEFINE Stops(s) == {n \in Nat : it[n][s] \in stop}
            Same(n) == \A s \in S : it[n][s] \in stop => it[n + 1][s] = it[n][s]
<1>3. \A n \in Nat : Same(n)
  <2>. DEFINE D == {n \in Nat : Same(n)}
  <2>1. 0 \in D
    BY <1>2
  <2>2. ASSUME NEW n \in Nat, n \in D PROVE n + 1 \in D
    <3>1. ASSUME NEW s \in S, it[n + 1][s] \in stop
          PROVE  it[(n + 1) + 1][s] = it[n + 1][s]
      <4>0. n + 1 \in Nat
        OBVIOUS
      <4>1. CASE s \in stop
        <5>1. it[n + 1][s] = s /\ it[(n + 1) + 1][s] = s
          BY <1>2, <4>0, <4>1, Zenon
        <5>. QED
          BY <5>1
      <4>2. CASE s \notin stop
        <5>1. it[n + 1][s] = it[n][step[s]] /\ it[(n + 1) + 1][s] = it[n + 1][step[s]]
          BY <1>2, <4>2
        <5>. QED
          BY <2>2, <3>1, <5>1
      <4>. QED
        BY <4>1, <4>2
    <3>. QED
      BY <3>1
  <2>. HIDE DEF D
  <2>3. \A n \in Nat : n \in D
    BY <2>1, <2>2, NatSet
  <2>. QED
    BY <2>3 DEF D
<1>4. ASSUME NEW s \in S, NEW n \in Stops(s)
      PROVE  \A k \in Nat : it[n + k][s] = it[n][s]
  <2>. DEFINE D == {k \in Nat : it[n + k][s] = it[n][s]}
  <2>1. 0 \in D
    OBVIOUS
  <2>2. ASSUME NEW k \in Nat, k \in D PROVE k + 1 \in D
    <3>1. n + k \in Nat /\ n + (k + 1) = (n + k) + 1
      OBVIOUS
    <3>2. it[n + k][s] \in stop
      BY <2>2
    <3>3. it[(n + k) + 1][s] = it[n + k][s]
      BY <1>3, <3>1, <3>2
    <3>. QED
      BY <2>2, <3>1, <3>3
  <2>. HIDE DEF D
  <2>3. \A k \in Nat : k \in D
    BY <2>1, <2>2, NatSet
  <2>. QED
    BY <2>3 DEF D
<1>5. ASSUME NEW s \in S, NEW n \in Stops(s), NEW m \in Stops(s) PROVE it[n][s] = it[m][s]
  <2>1. CASE n <= m
    <3>1. m - n \in Nat /\ n + (m - n) = m
      BY <2>1
    <3>. QED
      BY <1>4, <3>1
  <2>2. CASE m <= n
    <3>1. n - m \in Nat /\ m + (n - m) = n
      BY <2>2
    <3>. QED
      BY <1>4, <3>1
  <2>. QED
    BY <2>1, <2>2
<1>. DEFINE other == CHOOSE r \in R : TRUE
            One(s) == CHOOSE n \in Stops(s) : TRUE
            f == [s \in S |-> IF Stops(s) = {} THEN other ELSE val[it[One(s)][s]]]
<1>6. other \in R
  OBVIOUS
<1>7. \A s \in S : Stops(s) # {} => One(s) \in Stops(s)
  OBVIOUS
<1>. HIDE DEF One
<1>8. \A s \in S, n \in Nat : n \in Stops(s) => f[s] = val[it[n][s]]
  <2>1. ASSUME NEW s \in S, NEW n \in Stops(s) PROVE f[s] = val[it[n][s]]
    <3>1. One(s) \in Stops(s)
      BY <1>7
    <3>2. it[One(s)][s] = it[n][s]
      BY <1>5, <3>1
    <3>3. f[s] = val[it[One(s)][s]]
      BY <2>1
    <3>. QED
      BY <3>2, <3>3
  <2>. QED
    BY <2>1
<1>9. f \in [S -> R]
  <2>1. ASSUME NEW s \in S PROVE f[s] \in R
    <3>1. CASE Stops(s) = {}
      BY <1>6, <3>1
    <3>2. CASE Stops(s) # {}
      <4>1. One(s) \in Nat
        BY <1>7, <3>2
      <4>2. it[One(s)][s] \in S
        BY <1>2, <4>1
      <4>. HIDE DEF Stops
      <4>. QED
        BY <3>2, <4>2
    <3>. QED
      BY <3>1, <3>2
  <2>. HIDE DEF Stops, other
  <2>2. f = [s \in S |-> f[s]]
    OBVIOUS
  <2>. HIDE DEF f
  <2>. QED
    BY <2>1, <2>2
<1>10. ASSUME NEW s \in S PROVE f[s] = IF s \in stop THEN val[s] ELSE f[step[s]]
  <2>1. CASE s \in stop
    <3>1. 0 \in Stops(s) /\ it[0][s] = s
      BY <1>2, <2>1
    <3>. HIDE DEF f, Stops
    <3>. QED
      BY <1>8, <2>1, <3>1
  <2>2. CASE s \notin stop
    <3>1. step[s] \in S
      OBVIOUS
    <3>2. \A n \in Nat : n + 1 \in Stops(s) <=> n \in Stops(step[s])
      <4>1. ASSUME NEW n \in Nat PROVE n + 1 \in Stops(s) <=> n \in Stops(step[s])
        <5>1. n + 1 \in Nat
          OBVIOUS
        <5>2. it[n + 1][s] = it[n][step[s]]
          BY <1>2, <2>2
        <5>. QED
          BY <5>1, <5>2
      <4>. QED
        BY <4>1
    <3>3. 0 \notin Stops(s)
      BY <1>2, <2>2
    <3>4. CASE Stops(step[s]) # {}
      <4>1. PICK n \in Stops(step[s]) : TRUE
        BY <3>4
      <4>2. n \in Nat /\ n + 1 \in Nat /\ n + 1 \in Stops(s)
        BY <3>2
      <4>3. it[n + 1][s] = it[n][step[s]]
        BY <1>2, <2>2, <4>2
      <4>4. f[s] = val[it[n + 1][s]] /\ f[step[s]] = val[it[n][step[s]]]
        <5>. HIDE DEF f, Stops
        <5>. QED
          BY <1>8, <3>1, <4>1, <4>2
      <4>. QED
        BY <2>2, <4>3, <4>4
    <3>5. CASE Stops(step[s]) = {}
      <4>1. \A n \in Nat : n \notin Stops(s)
        <5>1. ASSUME NEW n \in Nat, n \in Stops(s) PROVE FALSE
          <6>1. n # 0
            BY <3>3, <5>1
          <6>2. n - 1 \in Nat /\ (n - 1) + 1 = n
            BY <6>1
          <6>3. n - 1 \in Stops(step[s])
            <7>. HIDE DEF Stops
            <7>. QED
              BY <3>2, <5>1, <6>2
          <6>. HIDE DEF Stops
          <6>. QED
            BY <3>5, <6>3
        <5>. QED
          BY <5>1
      <4>2. Stops(s) = {}
        BY <4>1
      <4>3. f[s] = other /\ f[step[s]] = other
        BY <3>1, <3>5, <4>2
      <4>. QED
        BY <2>2, <4>3
    <3>. QED
      BY <3>4, <3>5
  <2>. QED
    BY <2>1, <2>2
<1>. HIDE DEF f
<1>. QED
  BY <1>9, <1>10 DEF Settles

\* Where walking a path is, and what is left of it.
Steps == [at : Seq(STRING), rest : Seq(STRING)]

Onto(s) ==
    LET name == Head(s.rest)
        next == Append(s.at, name)
        left == Tail(s.rest)
    IN  CASE name = ".." ->
               [at |-> IF s.at = <<>> THEN s.at ELSE Front(s.at), rest |-> left]
          [] name # ".." /\ next \in DOMAIN Links ->
               [at |-> <<>>, rest |-> Links[next] \o left]
          [] OTHER -> [at |-> next, rest |-> left]

LEMMA OntoTyped ==
    ASSUME NEW s \in Steps, s.rest # <<>>
    PROVE  Onto(s) \in Steps
PROOF
<1>. DEFINE name == Head(s.rest)
            next == Append(s.at, name)
            left == Tail(s.rest)
<1>1. s.at \in Seq(STRING) /\ s.rest \in Seq(STRING)
  BY DEF Steps
<1>2. name \in STRING /\ left \in Seq(STRING) /\ next \in Seq(STRING)
  <2>1. \A r \in Seq(STRING) : r # <<>> => Head(r) \in STRING /\ Tail(r) \in Seq(STRING)
    OBVIOUS
  <2>2. name \in STRING /\ left \in Seq(STRING)
    BY <1>1, <2>1
  <2>. QED
    BY <1>1, <2>2
<1>3. s.at # <<>> => Front(s.at) \in Seq(STRING)
  BY <1>1 DEF Front
<1>4. next \in DOMAIN Links => Links[next] \o left \in Seq(STRING)
  <2>1. next \in DOMAIN Links => Links[next] \in Seq(STRING)
    BY SandboxAssumption
  <2>. QED
    BY <1>2, <2>1
<1>5. Onto(s) = CASE name = ".." ->
                        [at |-> IF s.at = <<>> THEN s.at ELSE Front(s.at), rest |-> left]
                  [] name # ".." /\ next \in DOMAIN Links ->
                        [at |-> <<>>, rest |-> Links[next] \o left]
                  [] OTHER -> [at |-> next, rest |-> left]
  BY DEF Onto
<1>. HIDE DEF name, next, left
<1>6. CASE name = ".."
  BY <1>1, <1>2, <1>3, <1>5, <1>6 DEF Steps
<1>7. CASE name # ".." /\ next \in DOMAIN Links
  <2>1. Onto(s) = [at |-> <<>>, rest |-> Links[next] \o left]
    BY <1>5, <1>7
  <2>. QED
    BY <1>4, <1>7, <2>1 DEF Steps
<1>8. CASE name # ".." /\ next \notin DOMAIN Links
  <2>1. Onto(s) = [at |-> next, rest |-> left]
    BY <1>5, <1>8
  <2>. QED
    BY <1>2, <2>1 DEF Steps
<1>. QED
  BY <1>6, <1>7, <1>8

\* The equation that Walk is defined by, which need not stop, holds of it.
LEMMA WalkHolds ==
    \A s \in Steps : Walk[s] = IF s.rest = <<>> THEN s.at ELSE Walk[Onto(s)]
PROOF
<1>. DEFINE stop == {s \in Steps : s.rest = <<>>}
            step == [s \in Steps |-> IF s.rest = <<>> THEN s ELSE Onto(s)]
            val == [s \in Steps |-> s.at]
            R == Seq(STRING)
<1>1. step \in [Steps -> Steps]
  <2>1. ASSUME NEW s \in Steps PROVE (IF s.rest = <<>> THEN s ELSE Onto(s)) \in Steps
    BY OntoTyped
  <2>. QED
    BY <2>1
<1>2. val \in [Steps -> R] /\ R # {}
  <2>1. <<>> \in R
    OBVIOUS
  <2>2. \A s \in Steps : s.at \in R
    BY DEF Steps
  <2>. QED
    BY <2>1, <2>2
<1>3. PICK f \in [Steps -> R] :
          \A s \in Steps : f[s] = IF s \in stop THEN val[s] ELSE f[step[s]]
  <2>. HIDE DEF stop, step, val, R
  <2>1. Proceeds(Steps, R, step, val)
    BY <1>1, <1>2, Zenon DEF Proceeds
  <2>2. Settles(Steps, R, stop, step, val)
    BY <2>1, LastStepHolds, Zenon
  <2>. QED
    BY <2>2, Zenon DEF Settles
<1>4. \A s \in Steps : f[s] = IF s.rest = <<>> THEN s.at ELSE f[Onto(s)]
  BY <1>3
<1>. DEFINE Body(w, s) ==
                IF s.rest = <<>> THEN s.at
                ELSE LET name == Head(s.rest)
                         next == Append(s.at, name)
                         left == Tail(s.rest)
                     IN  CASE name = ".." ->
                                w[[at |-> IF s.at = <<>> THEN s.at ELSE Front(s.at),
                                   rest |-> left]]
                           [] name # ".." /\ next \in DOMAIN Links ->
                                w[[at |-> <<>>, rest |-> Links[next] \o left]]
                           [] OTHER -> w[[at |-> next, rest |-> left]]
<1>5. \A w, s : Body(w, s) = IF s.rest = <<>> THEN s.at ELSE w[Onto(s)]
  <2>1. ASSUME NEW w, NEW s PROVE Body(w, s) = IF s.rest = <<>> THEN s.at ELSE w[Onto(s)]
    <3>1. CASE Head(s.rest) = ".."
      BY <3>1 DEF Onto
    <3>2. CASE Head(s.rest) # ".." /\ Append(s.at, Head(s.rest)) \in DOMAIN Links
      BY <3>2 DEF Onto
    <3>3. CASE Head(s.rest) # ".." /\ Append(s.at, Head(s.rest)) \notin DOMAIN Links
      BY <3>3 DEF Onto
    <3>. QED
      BY <3>1, <3>2, <3>3
  <2>. HIDE DEF Body
  <2>. QED
    BY <2>1
<1>. DEFINE D == [at : Seq(STRING), rest : Seq(STRING)]
            F(w) == [s \in D |-> Body(w, s)]
<1>6. Walk = CHOOSE w : w = F(w)
  BY Zenon DEF Walk
<1>7. f = F(f)
  <2>1. \A s \in D : f[s] = Body(f, s)
    <3>. HIDE DEF Body
    <3>. QED
      BY <1>4, <1>5 DEF Steps
  <2>2. f = [s \in D |-> f[s]]
    BY DEF Steps
  <2>. HIDE DEF Body
  <2>. QED
    BY <2>1, <2>2
<1>. HIDE DEF F
<1>8. Walk = F(Walk)
  BY <1>6, <1>7, Zenon
<1>. HIDE DEF Body
<1>9. \A s \in Steps : Walk[s] = Body(Walk, s)
  BY <1>8 DEF F, Steps
<1>. QED
  BY <1>5, <1>9

\* The walk of a path below the root gets to the root first, which is canonical.
LEMMA WalkToRoot ==
    ASSUME NEW r \in Seq(STRING)
    PROVE  Walk[[at |-> <<>>, rest |-> Root \o r]] = Walk[[at |-> Root, rest |-> r]]
PROOF
<1>. DEFINE n == Len(Root)
            From(i) == [at |-> SubSeq(Root, 1, i), rest |-> SubSeq(Root, i + 1, n) \o r]
            There == {i \in Nat : i <= n => Walk[From(0)] = Walk[From(i)]}
<1>1. Root \in Seq(STRING) /\ n \in Nat
  BY SandboxAssumption
<1>2. ASSUME NEW i \in Nat, i < n
      PROVE  /\ From(i) \in Steps /\ From(i).rest # <<>>
             /\ Onto(From(i)) = From(i + 1)
  <2>. DEFINE at == SubSeq(Root, 1, i)
              more == SubSeq(Root, i + 1, n)
              left == SubSeq(Root, (i + 1) + 1, n)
              next == SubSeq(Root, 1, i + 1)
              rest == more \o r
  <2>1. i + 1 \in 1..n /\ i + 1 \in DOMAIN Root /\ Root[i + 1] \in STRING
    BY <1>1, <1>2
  <2>2. at \in Seq(STRING) /\ more \in Seq(STRING) /\ left \in Seq(STRING)
    BY <1>1, <1>2, <2>1
  <2>3. more = <<Root[i + 1]>> \o left
    BY <1>1, <1>2, <2>1
  <2>4. next = Append(at, Root[i + 1])
    BY <1>1, <1>2, <2>1
  <2>5. rest \in Seq(STRING) /\ rest # <<>> /\ Head(rest) = Root[i + 1]
        /\ Tail(rest) = left \o r
    <3>. HIDE DEF more, left
    <3>1. rest = <<Root[i + 1]>> \o (left \o r)
      BY <2>1, <2>2, <2>3
    <3>. HIDE DEF rest
    <3>2. left \o r \in Seq(STRING)
      BY <2>2
    <3>. QED
      BY <2>1, <3>1, <3>2
  <2>6. Root[i + 1] # ".." /\ next \notin DOMAIN Links
    BY <2>1, SandboxAssumption
  <2>. HIDE DEF at, more, left, next
  <2>7. From(i) = [at |-> at, rest |-> rest] /\ From(i + 1) = [at |-> next, rest |-> left \o r]
    BY DEF at, more, left, next
  <2>. HIDE DEF From, rest
  <2>8. From(i) \in Steps
    BY <2>2, <2>5, <2>7 DEF Steps
  <2>9. Onto(From(i)) = [at |-> next, rest |-> left \o r]
    <3>. DEFINE x == [at |-> at, rest |-> rest]
    <3>1. x.at = at /\ x.rest = rest
      OBVIOUS
    <3>. HIDE DEF x
    <3>2. Append(x.at, Head(x.rest)) = next /\ Head(x.rest) # ".." /\ Tail(x.rest) = left \o r
      BY <2>4, <2>5, <2>6, <3>1
    <3>3. Onto(x) = [at |-> next, rest |-> left \o r]
      BY <2>6, <3>2 DEF Onto
    <3>. QED
      BY <2>7, <3>3 DEF x
  <2>. QED
    BY <2>5, <2>7, <2>8, <2>9
<1>3. 0 \in There
  OBVIOUS
<1>4. ASSUME NEW i \in Nat, i \in There PROVE i + 1 \in There
  <2>1. CASE i < n
    <3>. HIDE DEF From
    <3>1. Walk[From(i)] = Walk[From(i + 1)]
      BY <1>2, <2>1, WalkHolds
    <3>. QED
      BY <1>1, <1>4, <2>1, <3>1
  <2>2. CASE ~(i < n)
    BY <1>1, <2>2
  <2>. QED
    BY <2>1, <2>2
<1>5. n \in There
  <2>. HIDE DEF There
  <2>. QED
    BY <1>1, <1>3, <1>4, NatSet
<1>6. From(0) = [at |-> <<>>, rest |-> Root \o r]
  <2>1. SubSeq(Root, 1, 0) = <<>> /\ SubSeq(Root, 1, n) = Root /\ 0 + 1 = 1
    BY <1>1
  <2>. HIDE DEF n
  <2>. QED
    BY <2>1, Zenon
<1>7. From(n) = [at |-> Root, rest |-> r]
  <2>1. SubSeq(Root, 1, n) = Root /\ SubSeq(Root, n + 1, n) = <<>>
    BY <1>1
  <2>2. <<>> \o r = r
    OBVIOUS
  <2>. QED
    BY <2>1, <2>2
<1>8. Walk[From(0)] = Walk[From(n)]
  BY <1>1, <1>5
<1>. HIDE DEF From
<1>. QED
  BY <1>6, <1>7, <1>8

\* What is let through is in the root, and no file that holds secrets.
LEMMA LetThrough ==
    ASSUME LinksLead, NEW raw, IsRaw(raw), NEW fs, DOMAIN Disk \subseteq fs,
           LooksLikePath(raw, fs) => IsSafe(raw) /\ ~LooksSecret(Resolved(raw))
    PROVE  /\ Contained(Reached(raw))
           /\ Reached(raw) \in fs => ~LooksSecret(Reached(raw))
PROOF
<1>1. CASE LooksLikePath(raw, fs)
  BY <1>1 DEF IsSafe, Resolved
<1>2. CASE ~LooksLikePath(raw, fs)
  <2>. DEFINE s == raw.steps
  <2>1. /\ ~raw.abs /\ s \in Seq(STRING) /\ Len(s) <= 1
        /\ \A i \in DOMAIN s : s[i] # ".."
        /\ Reached(raw) \notin fs
    BY <1>2 DEF LooksLikePath, IsRaw
  <2>2. Root \in Seq(STRING)
    BY SandboxAssumption
  <2>3. Reached(raw) = Walk[[at |-> Root, rest |-> s]]
    BY <2>1, WalkToRoot DEF Reached, Candidate
  <2>4. CASE s = <<>>
    <3>1. [at |-> Root, rest |-> <<>>] \in Steps
      BY <2>2 DEF Steps
    <3>2. Reached(raw) = Root
      BY <2>3, <2>4, <3>1, WalkHolds
    <3>3. IsPrefix(Root, Root)
      BY <2>2 DEF IsPrefix
    <3>. QED
      BY <2>1, <3>2, <3>3 DEF Contained
  <2>5. CASE s # <<>>
    <3>. DEFINE next == Append(Root, s[1])
    <3>1. /\ s = <<s[1]>> /\ s[1] \in STRING /\ s[1] # ".."
          /\ Head(s) = s[1] /\ Tail(s) = <<>>
      BY <2>1, <2>5
    <3>2. [at |-> Root, rest |-> s] \in Steps
      BY <2>1, <2>2 DEF Steps
    <3>3. Reached(raw) = Walk[Onto([at |-> Root, rest |-> s])]
      BY <2>3, <2>5, <3>2, WalkHolds
    <3>4. next \notin DOMAIN Links
      <4>. SUFFICES ASSUME next \in DOMAIN Links PROVE FALSE
        OBVIOUS
      <4>1. Links[next] \in Seq(STRING) /\ Links[next] \o <<>> = Links[next]
        BY SandboxAssumption
      <4>2. Onto([at |-> Root, rest |-> s]) = [at |-> <<>>, rest |-> Links[next] \o <<>>]
        BY <3>1 DEF Onto
      <4>3. Reached(raw) = Walk[[at |-> <<>>, rest |-> Links[next]]]
        BY <3>3, <4>1, <4>2
      <4>. QED
        BY <2>1, <4>3 DEF LinksLead
    <3>5. Onto([at |-> Root, rest |-> s]) = [at |-> next, rest |-> <<>>]
      BY <3>1, <3>4 DEF Onto
    <3>6. [at |-> next, rest |-> <<>>] \in Steps
      BY <2>2, <3>1 DEF Steps
    <3>7. Reached(raw) = next
      BY <3>3, <3>5, <3>6, WalkHolds
    <3>8. IsPrefix(Root, next)
      BY <2>2, <3>1 DEF IsPrefix
    <3>. QED
      BY <2>1, <3>7, <3>8 DEF Contained
  <2>. QED
    BY <2>4, <2>5
<1>. QED
  BY <1>1, <1>2

-----------------------------------------------------------------------------
(*****************************************************************************)
(* What tools and commands get to.                                           *)
(*****************************************************************************)
Secured(e) ==
    e.form \in ReadAsMeant => Contained(e.path) /\ (e.file => ~LooksSecret(e.path))

\* What is given to a tool or a command is a path, and nothing is removed.
Confinement ==
    /\ \A e \in effects : Secured(e)
    /\ \A k \in DOMAIN jobs : HasWords(jobs[k].args)
    /\ DOMAIN Disk \subseteq DOMAIN files

LEMMA CallWords ==
    ASSUME BatchInv, pc \in Busy
    PROVE  HasWords(Call.args)
PROOF
<1>1. calls # <<>> /\ calls \in Seq(Range(calls)) /\ \A c \in Range(calls) : WellFormed(c)
  BY DEF BatchInv
<1>2. Call \in Range(calls)
  <2>. DEFINE R == Range(calls)
  <2>. HIDE DEF R
  <2>1. calls \in Seq(R)
    BY <1>1 DEF R
  <2>2. Head(calls) \in R
    BY <1>1, <2>1
  <2>. QED
    BY <2>2 DEF R, Call
<1>. QED
  BY <1>1, <1>2 DEF WellFormed

LEMMA WordsSecured ==
    ASSUME LinksLead, Confinement, NEW words, NEW i \in DOMAIN words,
           IsRaw(words[i].raw), ConfinePaths(words, DOMAIN files),
           words[i].form \in ReadAsMeant, NEW raw \in Opens(words[i])
    PROVE  Contained(Reached(raw)) /\ (IsFile(Reached(raw)) => ~LooksSecret(Reached(raw)))
PROOF
<1>1. raw = words[i].raw /\ EmbeddedPaths(words[i]) = {words[i].raw}
  BY DEF EmbeddedPaths, Opens, ReadAsMeant
<1>2. LooksLikePath(raw, DOMAIN files) => IsSafe(raw) /\ ~LooksSecret(Resolved(raw))
  BY <1>1 DEF ConfinePaths
<1>3. /\ Contained(Reached(raw))
      /\ Reached(raw) \in DOMAIN files => ~LooksSecret(Reached(raw))
  <2>. DEFINE fs == DOMAIN files
  <2>1. DOMAIN Disk \subseteq fs /\ IsRaw(raw)
        /\ (LooksLikePath(raw, fs) => IsSafe(raw) /\ ~LooksSecret(Resolved(raw)))
    BY <1>1, <1>2 DEF Confinement
  <2>. HIDE DEF fs
  <2>2. /\ Contained(Reached(raw))
        /\ Reached(raw) \in fs => ~LooksSecret(Reached(raw))
    BY <2>1, LetThrough
  <2>. QED
    BY <2>2 DEF fs
<1>. QED
  BY <1>3 DEF IsFile

LEMMA SpawnedSecured ==
    ASSUME LinksLead, Confinement, NEW k, NEW args, NEW place,
           HasWords(args), ~CommandRefused(args)
    PROVE  \A e \in Spawned(k, args, place) : Secured(e)
PROOF
<1>1. ASSUME NEW e \in Spawned(k, args, place) PROVE Secured(e)
  <2>1. \/ e.path = Root /\ e.file = FALSE
        \/ \E i \in DOMAIN args.words : e \in OpenedFor(k, args, place, i)
    <3>. DEFINE root == [call |-> k, tool |-> "bash", node |-> place, path |-> Root,
                         file |-> FALSE, form |-> "bare"]
                For(i) == OpenedFor(k, args, place, i)
    <3>1. e \in UNION {For(i) : i \in DOMAIN args.words} \/ e = root
      BY <1>1, Zenon DEF Spawned
    <3>2. root.path = Root /\ root.file = FALSE
      OBVIOUS
    <3>3. e = root \/ \E i \in DOMAIN args.words : e \in For(i)
      <4>. HIDE DEF root, For
      <4>. QED
        BY <3>1
    <3>. QED
      BY <3>2, <3>3
  <2>2. CASE e.path = Root /\ e.file = FALSE
    <3>1. IsPrefix(Root, Root)
      BY SandboxAssumption DEF IsPrefix
    <3>. QED
      BY <2>2, <3>1 DEF Secured, Contained
  <2>3. ASSUME NEW i \in DOMAIN args.words, e \in OpenedFor(k, args, place, i),
               e.form \in ReadAsMeant
        PROVE  Contained(e.path) /\ (e.file => ~LooksSecret(e.path))
    <3>1. PICK raw \in Opens(args.words[i]) :
              e.path = Reached(raw) /\ e.file = IsFile(Reached(raw))
              /\ e.form = args.words[i].form
      BY <2>3, WordOpened
    <3>2. ConfinePaths(args.words, DOMAIN files) /\ IsRaw(args.words[i].raw)
          /\ args.words[i].form \in ReadAsMeant
      BY <2>3, <3>1 DEF CommandRefused, HasWords
    <3>. DEFINE words == args.words
    <3>3. i \in DOMAIN words /\ IsRaw(words[i].raw) /\ ConfinePaths(words, DOMAIN files)
          /\ words[i].form \in ReadAsMeant /\ raw \in Opens(words[i])
      BY <3>1, <3>2
    <3>4. Contained(Reached(raw)) /\ (IsFile(Reached(raw)) => ~LooksSecret(Reached(raw)))
      <4>. HIDE DEF words
      <4>. QED
        BY <3>3, WordsSecured
    <3>. QED
      BY <3>1, <3>4, Zenon
  <2>. QED
    BY <2>1, <2>2, <2>3, Zenon DEF Secured
<1>. QED
  BY <1>1

\* The tools of this process and of MCP servers.
LEMMA ToolSecured ==
    ASSUME LinksLead, CallsInv, BatchInv, Confinement, ReadPath \/ WriteFile \/ Forward,
           UNCHANGED executor
    PROVE  Confinement'
PROOF
<1>1. DOMAIN Disk \subseteq DOMAIN files'
  <2>1. CASE WriteFile
    <3>1. PICK new : files' = [p \in DOMAIN files \union new |->
                                  IF p \in DOMAIN files THEN files[p]
                                  ELSE IF p = Target THEN "file" ELSE "dir"]
      BY <2>1 DEF WriteFile
    <3>. QED
      BY <3>1 DEF Confinement
  <2>2. CASE ReadPath \/ Forward
    BY <2>2 DEF ReadPath, Forward, Confinement
  <2>. QED
    BY <2>1, <2>2
<1>2. \A e \in effects' : e \in effects \/ Secured(e)
  <2>1. CASE ReadPath
    <3>. DEFINE e == Effect(Target, "agent", "bare")
    <3>1. e.path = Target /\ e.file = IsFile(Target)
      BY Zenon DEF Effect
    <3>2. effects' = effects \/ effects' = effects \union {e}
      BY <2>1 DEF ReadPath
    <3>3. ASSUME effects' # effects
          PROVE  Contained(Target) /\ (IsFile(Target) => ~LooksSecret(Target))
      <4>1. Contained(Target)
        BY <2>1 DEF ReadPath, IsSafe, Target
      <4>2. ASSUME IsFile(Target) PROVE ~LooksSecret(Target)
        <5>1. ~IsDir(Target)
          BY <4>2 DEF IsFile, IsDir
        <5>. QED
          BY <2>1, <3>3, <5>1 DEF ReadPath
      <4>. QED
        BY <4>1, <4>2
    <3>4. effects' # effects => Secured(e)
      <4>. HIDE DEF e
      <4>. QED
        BY <3>1, <3>3, Zenon DEF Secured
    <3>. HIDE DEF e
    <3>. QED
      BY <3>2, <3>4
  <2>2. CASE WriteFile
    <3>. DEFINE e == Effect(Target, "agent", "bare")
    <3>1. e.path = Target
      BY Zenon DEF Effect
    <3>2. \A x \in effects' : x \in effects \/ x = e
      BY <2>2 DEF WriteFile
    <3>3. Contained(Target) /\ ~LooksSecret(Target)
      BY <2>2 DEF WriteFile, IsSafe, Target
    <3>. HIDE DEF e
    <3>. QED
      BY <3>1, <3>2, <3>3 DEF Secured
  <2>3. CASE Forward
    <3>1. PICK some \in SUBSET DOMAIN Words :
              effects' = effects \union OpenedByServer(some)
      BY <2>3 DEF Forward
    <3>2. ConfinePaths(Words, DOMAIN files)
      BY <2>3 DEF Forward
    <3>3. ASSUME NEW i \in DOMAIN Words PROVE IsRaw(Words[i].raw)
      <4>1. HasWords(Call.args)
        BY <2>3, CallWords DEF Forward, Busy
      <4>2. CASE Words = Call.args.words
        BY <3>3, <4>1, <4>2 DEF HasWords
      <4>. DEFINE here == [abs |-> FALSE, odd |-> FALSE, steps |-> <<>>]
                  word == [form |-> "bare", raw |-> here]
      <4>3. CASE Words = <<word>>
        <5>1. word.raw = here /\ IsRaw(here)
          BY DEF IsRaw
        <5>. HIDE DEF word, here
        <5>2. Words[i] = word
          BY <3>3, <4>3
        <5>. QED
          BY <5>1, <5>2
      <4>. QED
        BY <4>2, <4>3, Zenon DEF Words
    <3>4. ASSUME NEW e \in OpenedByServer(some) PROVE Secured(e)
      <4>1. PICK i \in some : \E raw \in Opens(Words[i]) :
                e.path = Reached(raw) /\ e.file = IsFile(Reached(raw))
                /\ e.form = Words[i].form
        BY ServerOpened
      <4>2. PICK raw \in Opens(Words[i]) :
                e.path = Reached(raw) /\ e.file = IsFile(Reached(raw))
                /\ e.form = Words[i].form
        BY <4>1
      <4>3. ASSUME e.form \in ReadAsMeant
            PROVE  Contained(Reached(raw))
                   /\ (IsFile(Reached(raw)) => ~LooksSecret(Reached(raw)))
        <5>. DEFINE words == Words
        <5>. HIDE DEF words
        <5>1. i \in DOMAIN words /\ IsRaw(words[i].raw) /\ ConfinePaths(words, DOMAIN files)
              /\ words[i].form \in ReadAsMeant /\ raw \in Opens(words[i])
          BY <3>1, <3>2, <3>3, <4>1, <4>2, <4>3 DEF words
        <5>. QED
          BY <5>1, WordsSecured
      <4>. QED
        BY <4>2, <4>3, Zenon DEF Secured
    <3>. QED
      BY <3>1, <3>4
  <2>. QED
    BY <2>1, <2>2, <2>3
<1>3. jobs' = jobs
  BY DEF executor
<1>4. \A e \in effects' : Secured(e)'
  BY <1>2 DEF Confinement, Secured, Contained
<1>. QED
  BY <1>1, <1>3, <1>4 DEF Confinement

\* Commands, here and on the node.
LEMMA JobsSecured ==
    ASSUME LinksLead, Confinement, UNCHANGED files,
           \A k \in DOMAIN jobs' : HasWords(jobs'[k].args),
           \A e \in effects' : e \in effects \/ Secured(e)
    PROVE  Confinement'
PROOF
<1>1. \A e \in effects' : Secured(e)'
  BY DEF Confinement, Secured, Contained
<1>2. (\A k \in DOMAIN jobs : HasWords(jobs[k].args))'
  BY DEF HasWords
<1>. QED
  BY <1>1, <1>2 DEF Confinement

LEMMA ClientSecured ==
    ASSUME LinksLead, CallsInv, BatchInv, Confinement, Client
    PROVE  Confinement'
PROOF
<1>1. CASE SpawnHere \/ Post
  <2>1. HasWords(Call.args)
    BY <1>1, CallWords DEF SpawnHere, Post, RunBash, Busy
  <2>2. PICK state, place : Launch(state, place)
    BY <1>1 DEF SpawnHere, Post
  <2>3. NewJob(state, place).args = Call.args
    BY DEF NewJob
  <2>4. ASSUME NEW k \in DOMAIN jobs' PROVE HasWords(jobs'[k].args)
    <3>1. k = N \/ k \in DOMAIN jobs
      BY <2>2, <2>4 DEF Launch
    <3>2. jobs'[k] = IF k = N THEN NewJob(state, place) ELSE jobs[k]
      BY <2>2, <2>4 DEF Launch
    <3>. QED
      BY <2>1, <2>3, <3>1, <3>2 DEF Confinement
  <2>5. \A e \in effects' : e \in effects \/ Secured(e)
    <3>1. CASE SpawnHere
      <4>1. \A e \in Spawned(N, Call.args, "agent") : Secured(e)
        BY <2>1, <3>1, SpawnedSecured DEF SpawnHere
      <4>. QED
        BY <3>1, <4>1 DEF SpawnHere
    <3>2. CASE Post
      BY <3>2 DEF Post
    <3>. QED
      BY <1>1, <3>1, <3>2
  <2>6. UNCHANGED files
    BY <1>1 DEF SpawnHere, Post
  <2>. QED
    BY <2>4, <2>5, <2>6, JobsSecured
<1>2. CASE Client /\ ~SpawnHere /\ ~Post
  <2>1. UNCHANGED <<files, effects, jobs>>
    BY <1>2 DEF Client, RefuseHere, NotFoundHere, Unreachable, Rejected, Hear, Broken,
                GiveUp, ReturnOnly, executor
  <2>. QED
    BY <2>1, JobsSecured DEF Confinement
<1>. QED
  BY <1>1, <1>2

LEMMA ServiceSecured ==
    ASSUME LinksLead, CallsInv, Confinement, NEW k \in DOMAIN jobs, Service(k)
    PROVE  Confinement'
PROOF
<1>1. \A j \in DOMAIN jobs : jobs[j] \in Job(jobs[j])
  BY DEF CallsInv, Types
<1>2. UNCHANGED files
  BY DEF Service, Begin, Exit, Kill, dispatch
<1>3. ASSUME NEW j \in DOMAIN jobs' PROVE HasWords(jobs'[j].args)
  <2>1. j \in DOMAIN jobs /\ jobs'[j].args = jobs[j].args
    <3>1. (\E end : Answered(k, end)) \/ jobs' = [jobs EXCEPT ![k].state = "running"]
      BY DEF Service, Begin, Exit, Kill
    <3>2. CASE jobs' = [jobs EXCEPT ![k].state = "running"]
      BY <1>1, <1>3, <3>2 DEF Job
    <3>3. ASSUME NEW end, Answered(k, end)
          PROVE  j \in DOMAIN jobs /\ jobs'[j].args = jobs[j].args
      BY <1>1, <1>3, <3>3 DEF Job, Answered
    <3>. QED
      BY <3>1, <3>2, <3>3
  <2>. QED
    BY <2>1 DEF Confinement
<1>4. \A e \in effects' : e \in effects \/ Secured(e)
  <2>1. CASE effects' = effects
    BY <2>1
  <2>2. CASE effects' # effects
    <3>1. /\ ~CommandRefused(jobs[k].args)
          /\ effects' = effects \union Spawned(k, jobs[k].args, "executor")
      BY <2>2 DEF Service, Begin, Exit, Kill, dispatch
    <3>2. \A e \in Spawned(k, jobs[k].args, "executor") : Secured(e)
      <4>. DEFINE args == jobs[k].args
      <4>1. HasWords(args) /\ ~CommandRefused(args)
        BY <3>1 DEF Confinement
      <4>. HIDE DEF args
      <4>2. \A e \in Spawned(k, args, "executor") : Secured(e)
        BY <4>1, SpawnedSecured
      <4>. QED
        BY <4>2 DEF args
    <3>. QED
      BY <3>1, <3>2
  <2>. QED
    BY <2>1, <2>2
<1>. QED
  BY <1>2, <1>3, <1>4, JobsSecured

LEMMA TimeSecured ==
    ASSUME LinksLead, CallsInv, Confinement, Tick \/ Faults
    PROVE  Confinement'
PROOF
<1>1. \A j \in DOMAIN jobs : jobs[j] \in Job(jobs[j])
  BY DEF CallsInv, Types
<1>2. UNCHANGED <<files, effects>>
  BY DEF Tick, Faults, Crash, Restart, LoseConnection, dispatch
<1>3. ASSUME NEW j \in DOMAIN jobs' PROVE HasWords(jobs'[j].args)
  <2>1. j \in DOMAIN jobs /\ jobs'[j].args = jobs[j].args
    <3>1. /\ j \in DOMAIN jobs
          /\ \/ jobs'[j] = jobs[j]
             \/ jobs'[j] = [jobs[j] EXCEPT !.ran = @ + 1]
             \/ jobs'[j] = [jobs[j] EXCEPT !.delay = @ + 1]
             \/ jobs'[j] = [jobs[j] EXCEPT !.cut = TRUE]
             \/ jobs'[j] = [jobs[j] EXCEPT !.state = "lost", !.cut = TRUE]
      <4>1. CASE Tick
        BY <1>3, <4>1 DEF Tick
      <4>2. CASE Faults
        BY <1>3, <4>2 DEF Faults, Crash, Restart, LoseConnection
      <4>. QED
        BY <4>1, <4>2
    <3>. QED
      BY <1>1, <3>1 DEF Job
  <2>. QED
    BY <2>1 DEF Confinement
<1>. QED
  BY <1>2, <1>3, JobsSecured

LEMMA ConfinementNext ==
    LinksLead /\ CallsInv /\ BatchInv /\ Confinement /\ [Next]_vars => Confinement'
PROOF
<1>. SUFFICES ASSUME LinksLead, CallsInv, BatchInv, Confinement, [Next]_vars
              PROVE  Confinement'
  OBVIOUS
<1>1. CASE Done \/ UNCHANGED vars \/ Read \/ EndOfText \/ Parse \/ ParseNative
  <2>1. UNCHANGED <<files, effects, jobs>>
    BY <1>1 DEF Done, vars, Read, EndOfText, Parse, ParseNative, Begun, dispatch, executor
  <2>. QED
    BY <2>1, JobsSecured DEF Confinement
<1>2. CASE (Execute \/ Answer) /\ UNCHANGED executor
  <2>1. CASE ReadPath \/ WriteFile \/ Forward
    BY <1>2, <2>1, ToolSecured
  <2>2. CASE Unknown \/ Escape \/ Invalid \/ Allowed \/ Disabled \/ AutoApproved \/ Ask
             \/ Answer \/ Refuse \/ CannotDo \/ RefuseForward
    <3>1. UNCHANGED <<files, effects, jobs>>
      BY <1>2, <2>2 DEF Unknown, Escape, Invalid, Allowed, Disabled, AutoApproved, Ask,
                        Answer, Approve, Decline, Proceed, Refuse, CannotDo, RefuseForward,
                        ReturnOnly, executor
    <3>. QED
      BY <3>1, JobsSecured DEF Confinement
  <2>. QED
    BY <1>2, <2>1, <2>2 DEF Execute
<1>3. CASE Client
  BY <1>3, ClientSecured
<1>4. CASE Tick \/ Faults
  BY <1>4, TimeSecured
<1>5. CASE \E k \in DOMAIN jobs : Service(k)
  BY <1>5, ServiceSecured
<1>. QED
  BY <1>1, <1>2, <1>3, <1>4, <1>5 DEF Next, Agent

LEMMA ConfinementInit == Init => Confinement
PROOF
<1>. SUFFICES ASSUME Init PROVE Confinement
  OBVIOUS
<1>1. effects = {} /\ jobs = <<>> /\ files = Disk
  BY DEF Init
<1>2. DOMAIN jobs = {}
  BY <1>1
<1>. QED
  BY <1>1, <1>2 DEF Confinement

\* No tool gets to a path outside the root, or to a credential file that exists,
\* through a word in a form out of which confine_paths reads the path that is
\* meant, where every link leads to something (sandbox.py:58-104, 196-249).
THEOREM AlwaysConfined == LinksLead => (Spec => []Confined)
PROOF
<1>. SUFFICES ASSUME LinksLead PROVE Spec => []Confined
  OBVIOUS
<1>1. Confinement => Confined
  BY DEF Confinement, Confined, Secured
<1>2. Confinement /\ CallsInv /\ BatchInv /\ [Next]_vars => Confinement'
  BY ConfinementNext
<1>. QED
  BY <1>1, <1>2, ConfinementInit, CallsInvariance, BatchInvariance, PTL DEF Spec
=============================================================================
