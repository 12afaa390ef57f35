---------------------------- MODULE Turns_proofs ----------------------------
(***************************************************************************)
(* Proofs about the turns that compaction keeps (context.py:288-300), for  *)
(* every value of the constants.  _plan_drop counts turns from the end, so *)
(* the proofs count them, too: a turn with exactly KeepN turns from it on  *)
(* exists whenever there are more than KeepN, and the turns from a message *)
(* on become more only when a user message is added.                       *)
(***************************************************************************)
EXTENDS AgentLoop_proofs, FiniteSetTheorems, WellFoundedInduction

\* The turns of a history from one on.
From(h, i) == {j \in TurnStarts(h) : j >= i}

-----------------------------------------------------------------------------
LEMMA LeastNat ==
    ASSUME NEW T, T \subseteq Nat, T # {}
    PROVE  \E x \in T : \A y \in T : x <= y
PROOF
<1>1. IsWellFoundedOn(OpToRel(<, Nat), Nat)
  BY NatLessThanWellFounded
<1>2. PICK x \in T : \A y \in T : ~(<<y, x>> \in OpToRel(<, Nat))
  BY <1>1, WFMin
<1>3. ASSUME NEW y \in T PROVE x <= y
  <2>1. ~(<<y, x>> \in OpToRel(<, Nat))
    BY <1>2
  <2>. QED
    BY <2>1 DEF OpToRel
<1>. QED
  BY <1>3

LEMMA TurnsFinite ==
    ASSUME NEW h \in Seq(Message)
    PROVE  /\ TurnStarts(h) \subseteq 2..Len(h) /\ Len(h) \in Nat
           /\ IsFiniteSet(TurnStarts(h)) /\ Cardinality(TurnStarts(h)) \in Nat
           /\ \A i : IsFiniteSet(From(h, i)) /\ Cardinality(From(h, i)) \in Nat
PROOF
<1>1. TurnStarts(h) \subseteq 2..Len(h) /\ Len(h) \in Nat
  BY DEF TurnStarts
<1>2. IsFiniteSet(2..Len(h))
  BY <1>1, FS_Interval
<1>3. IsFiniteSet(TurnStarts(h))
  BY <1>1, <1>2, FS_Subset
<1>4. ASSUME NEW i PROVE IsFiniteSet(From(h, i))
  <2>1. From(h, i) \in SUBSET TurnStarts(h)
    BY DEF From
  <2>. QED
    BY <1>3, <2>1, FS_Subset
<1>. QED
  BY <1>1, <1>3, <1>4, FS_CardinalityType

\* The k-th turn from the end.
LEMMA TurnFromTheEnd ==
    ASSUME NEW h \in Seq(Message), NEW k \in Nat \ {0},
           k <= Cardinality(TurnStarts(h))
    PROVE  \E c \in TurnStarts(h) : Cardinality(From(h, c)) = k
PROOF
<1>. DEFINE L == Len(h)
            D == {n \in Nat : Cardinality(From(h, L - n)) >= k}
<1>1. /\ TurnStarts(h) \subseteq 2..L /\ L \in Nat
      /\ \A i : IsFiniteSet(From(h, i)) /\ Cardinality(From(h, i)) \in Nat
  BY TurnsFinite
<1>2. L \in D
  <2>1. From(h, 0) = TurnStarts(h)
    BY <1>1 DEF From
  <2>2. L - L = 0
    BY <1>1
  <2>. QED
    BY <1>1, <2>1, <2>2
<1>3. PICK n \in D : \A y \in D : n <= y
  BY <1>2, LeastNat
<1>. DEFINE c == L - n
<1>4. n \in Nat /\ c \in Int /\ Cardinality(From(h, c)) >= k
  BY <1>1, <1>3
<1>5. Cardinality(From(h, c + 1)) < k
  <2>1. CASE n = 0
    <3>1. From(h, c + 1) = {}
      BY <1>1, <2>1 DEF From
    <3>2. Cardinality(From(h, c + 1)) = 0
      BY <3>1, FS_EmptySet, Zenon
    <3>. HIDE DEF c
    <3>. QED
      BY <3>2
  <2>2. CASE n # 0
    <3>1. n - 1 \in Nat /\ n - 1 \notin D
      BY <1>3, <1>4, <2>2
    <3>2. L - (n - 1) = c + 1
      BY <1>1, <1>4
    <3>3. ~(Cardinality(From(h, c + 1)) >= k)
      BY <3>1, <3>2
    <3>. QED
      BY <1>1, <3>3
  <2>. QED
    BY <2>1, <2>2
<1>. HIDE DEF c
<1>6. CASE c \notin TurnStarts(h)
  <2>1. From(h, c) = From(h, c + 1)
    BY <1>1, <1>4, <1>6 DEF From
  <2>. QED
    BY <1>1, <1>4, <1>5, <2>1
<1>7. CASE c \in TurnStarts(h)
  <2>1. From(h, c) = From(h, c + 1) \union {c} /\ c \notin From(h, c + 1)
    BY <1>1, <1>4, <1>7 DEF From
  <2>2. Cardinality(From(h, c)) = Cardinality(From(h, c + 1)) + 1
    BY <1>1, <2>1, FS_AddElement
  <2>3. Cardinality(From(h, c)) = k
    BY <1>1, <1>4, <1>5, <2>2
  <2>. QED
    BY <1>7, <2>3
<1>. QED
  BY <1>6, <1>7

\* What a compaction keeps: the turns from i on are those from i on.
LEMMA FromRebuilt ==
    ASSUME NEW h \in Seq(Message), NEW c \in 3..Len(h), NEW cost \in Nat,
           NEW i \in c..Len(h)
    PROVE  LET g == Rebuild(h, c, cost)
           IN  /\ IsFiniteSet(From(g, i - c + 3))
               /\ Cardinality(From(g, i - c + 3)) <= Cardinality(From(h, i))
               /\ i \in TurnStarts(h) =>
                    i - c + 3 \in TurnStarts(g) /\ g[i - c + 3] = h[i]
PROOF
<1>. DEFINE g == Rebuild(h, c, cost)
            S == From(g, i - c + 3)
            T == From(h, i)
            f == [j \in S |-> j + c - 3]
<1>1. /\ g \in Seq(Message) /\ Len(g) = Len(h) - c + 3 /\ Len(h) \in Nat
      /\ DOMAIN h = 1..Len(h)
      /\ \A j \in 3..Len(g) : j + c - 3 \in DOMAIN h /\ g[j] = h[j + c - 3]
  BY RebuildShape
<1>. HIDE DEF g
<1>2. i \in Int /\ c \in Int /\ c >= 3 /\ i >= c /\ i - c + 3 \in 3..Len(g)
  BY <1>1
<1>3. ASSUME NEW j \in S PROVE j \in Int /\ j + c - 3 \in T
  <2>1. j \in 3..Len(g) /\ j >= i - c + 3 /\ g[j].role = "user"
    BY <1>1, <1>2 DEF From, TurnStarts
  <2>2. j + c - 3 \in 2..Len(h) /\ h[j + c - 3].role = "user" /\ j + c - 3 >= i
    BY <1>1, <1>2, <2>1
  <2>. QED
    BY <2>1, <2>2 DEF From, TurnStarts
<1>4. f \in Injection(S, T)
  <2>1. f \in [S -> T]
    BY <1>3
  <2>2. IsInjective(f)
    <3>. SUFFICES ASSUME NEW a \in S, NEW b \in S, f[a] = f[b] PROVE a = b
      BY DEF IsInjective
    <3>1. a \in Int /\ b \in Int /\ a + c - 3 = b + c - 3
      BY <1>3
    <3>. QED
      BY <1>2, <3>1
  <2>. QED
    BY <2>1, <2>2 DEF Injection
<1>5. IsFiniteSet(S) /\ Cardinality(S) <= Cardinality(T)
  <2>1. IsFiniteSet(T)
    BY TurnsFinite
  <2>. QED
    BY <1>4, <2>1, FS_Injection
<1>6. ASSUME i \in TurnStarts(h) PROVE i - c + 3 \in TurnStarts(g) /\ g[i - c + 3] = h[i]
  <2>1. h[i].role = "user"
    BY <1>2, <1>6 DEF TurnStarts
  <2>2. (i - c + 3) + c - 3 = i
    BY <1>2
  <2>3. g[i - c + 3] = h[i]
    BY <1>1, <1>2, <2>2
  <2>. QED
    BY <1>2, <2>1, <2>3 DEF TurnStarts
<1>. QED
  BY <1>5, <1>6 DEF g

-----------------------------------------------------------------------------
LEMMA KeepNPositive == KeepN \in Nat \ {0}
BY ContextAssumption DEF KeepN

\* With nothing to cut, there are no more turns than are kept.
LEMMA NoCutFewTurns ==
    ASSUME NEW h \in Seq(Message), CutPoints(h) = {}
    PROVE  Cardinality(TurnStarts(h)) <= KeepN
PROOF
<1>. SUFFICES ASSUME Cardinality(TurnStarts(h)) > KeepN PROVE FALSE
  BY KeepNPositive, TurnsFinite
<1>1. KeepN \in Nat \ {0} /\ KeepN <= Cardinality(TurnStarts(h))
  BY KeepNPositive, TurnsFinite
<1>2. PICK c \in TurnStarts(h) : Cardinality(From(h, c)) = KeepN
  BY <1>1, TurnFromTheEnd
<1>3. TurnStarts(h) \subseteq 2..Len(h) /\ Len(h) \in Nat
  BY TurnsFinite
<1>4. CASE c = 2
  <2>1. From(h, c) = TurnStarts(h)
    BY <1>3, <1>4 DEF From
  <2>. QED
    BY <1>1, <1>2, <2>1
<1>5. CASE c # 2
  <2>1. c > 2
    BY <1>3, <1>5
  <2>2. c \in CutPoints(h)
    BY <1>2, <2>1 DEF CutPoints, From
  <2>. QED
    BY <2>2
<1>. QED
  BY <1>4, <1>5

\* The turns that are not the marker.
Real(h) == {i \in TurnStarts(h) : h[i].kind # "marker"}

\* A compaction leaves the turns it may not drop, and the marker.
LEMMA CompactedIsMinimal ==
    ASSUME NEW h \in Seq(Message), NEW c \in CutPoints(h), NEW cost \in Nat
    PROVE  Cardinality(Real(Rebuild(h, c, cost))) <= KeepN
PROOF
<1>. DEFINE g == Rebuild(h, c, cost)
<1>1. /\ c \in 3..Len(h) /\ Len(h) \in Nat /\ c \in Nat
      /\ Cardinality(From(h, c)) = KeepN
  BY DEF CutPoints, TurnStarts, From
<1>2. /\ IsFiniteSet(From(g, c - c + 3))
      /\ Cardinality(From(g, c - c + 3)) <= Cardinality(From(h, c))
  BY <1>1, FromRebuilt
<1>3. g[2].kind = "marker"
  <2>1. g[2] = MarkerMessage(c - 2, cost)
    BY <1>1, RebuildShape
  <2>2. MarkerMessage(c - 2, cost).kind = "marker"
    BY DEF MarkerMessage
  <2>. QED
    BY <2>1, <2>2
<1>. HIDE DEF g
<1>4. c - c + 3 = 3
  BY <1>1
<1>5. Real(g) \in SUBSET From(g, 3)
  <2>. SUFFICES ASSUME NEW i \in TurnStarts(g), g[i].kind # "marker" PROVE i >= 3
    BY DEF Real, From
  <2>1. i \in Int /\ i >= 2 /\ i # 2
    BY <1>3 DEF TurnStarts
  <2>. QED
    BY <2>1
<1>6. /\ IsFiniteSet(Real(g)) /\ Cardinality(Real(g)) \in Nat
      /\ Cardinality(Real(g)) <= Cardinality(From(g, 3))
  BY <1>2, <1>4, <1>5, FS_Subset, FS_CardinalityType
<1>7. Cardinality(From(g, 3)) \in Nat
  BY <1>2, <1>4, FS_CardinalityType
<1>. QED
  BY <1>1, <1>2, <1>4, <1>6, <1>7, KeepNPositive DEF g

\* When the model is called the history fits, or it only holds the turns that may
\* not be dropped and perhaps a marker (context.py:245-300).
THEOREM AlwaysFitsOrMinimal == Spec => []FitsOrMinimal
PROOF
<1>1. Init => FitsOrMinimal
  BY DEF Init, FitsOrMinimal
<1>2. IInv /\ FitsOrMinimal /\ [Next]_vars => FitsOrMinimal'
  <2>. SUFFICES ASSUME IInv, FitsOrMinimal, [Next]_vars, pc' = "model"
                PROVE  \/ ~OverThreshold(messages')
                       \/ Cardinality(Real(messages')) <= KeepN
    BY DEF FitsOrMinimal, Real
  <2>1. messages \in Seq(Message)
    BY DEF IInv, TypeOK
  <2>2. CASE Fits
    BY <2>2 DEF Fits
  <2>3. CASE CannotFit
    <3>1. CutPoints(messages) = {} /\ messages' = messages
      BY <2>3 DEF CannotFit
    <3>2. Real(messages) \in SUBSET TurnStarts(messages)
      BY DEF Real
    <3>3. /\ IsFiniteSet(TurnStarts(messages))
          /\ Cardinality(TurnStarts(messages)) \in Nat
          /\ Cardinality(TurnStarts(messages)) <= KeepN
      BY <2>1, <3>1, TurnsFinite, NoCutFewTurns
    <3>4. /\ Cardinality(Real(messages)) <= Cardinality(TurnStarts(messages))
          /\ Cardinality(Real(messages)) \in Nat
      BY <3>2, <3>3, FS_Subset, FS_CardinalityType
    <3>. QED
      BY <3>1, <3>3, <3>4, KeepNPositive
  <2>4. CASE Compact /\ KnownStrategy
    <3>1. PICK c \in CutPoints(messages), cost \in MarkerCosts :
            messages' = Rebuild(messages, c, cost)
      BY <2>4 DEF Compact
    <3>2. cost \in Nat
      BY MarkerCostsNat
    <3>. QED
      BY <2>1, <3>1, <3>2, CompactedIsMinimal
  <2>5. CASE pc = "model" /\ messages' = messages
    BY <2>5 DEF FitsOrMinimal, Real
  <2>6. CASE Exited \/ UNCHANGED vars
    BY <2>5, <2>6 DEF Exited, vars
  <2>7. CASE BeginRun \/ Quit \/ ModelFails \/ Answer \/ GiveUpParsing \/ ToolEscapes
             \/ LoopExhausted \/ Nudge \/ RequestTools
    BY <2>7 DEF BeginRun, Quit, ModelFails, Answer, GiveUpParsing, ToolEscapes,
       LoopExhausted, Nudge, RequestTools
  <2>8. CASE RunTool
    BY <2>8 DEF RunTool
  <2>9. CASE Compact /\ ~KnownStrategy
    BY <2>9 DEF Compact
  <2>. QED
    BY <2>2, <2>3, <2>4, <2>6, <2>7, <2>8, <2>9 DEF Next, RunStep
<1>. QED
  BY <1>1, <1>2, Invariance, PTL DEF Spec

-----------------------------------------------------------------------------
\* A message that is added opens a turn at most, and only if it is a user's.
LEMMA FromAppended ==
    ASSUME NEW h \in Seq(Message), NEW m \in Message, NEW i \in TurnStarts(h)
    PROVE  /\ i \in TurnStarts(Append(h, m)) /\ Append(h, m)[i] = h[i]
           /\ Cardinality(From(Append(h, m), i)) <= Cardinality(From(h, i)) + 1
           /\ m.role # "user" =>
                Cardinality(From(Append(h, m), i)) = Cardinality(From(h, i))
PROOF
<1>. DEFINE g == Append(h, m)
            n == Len(h) + 1
<1>1. /\ g \in Seq(Message) /\ Len(g) = n /\ Len(h) \in Nat /\ g[n] = m
      /\ \A j \in 1..Len(h) : g[j] = h[j]
  OBVIOUS
<1>. HIDE DEF g
<1>2. i \in 2..Len(h)
  BY DEF TurnStarts
<1>3. TurnStarts(g) = IF m.role = "user" THEN TurnStarts(h) \union {n} ELSE TurnStarts(h)
  <2>1. n # 2
    BY <1>1, <1>2
  <2>2. ASSUME NEW j
        PROVE  j \in TurnStarts(g) <=> j \in TurnStarts(h) \/ (j = n /\ m.role = "user")
    <3>1. CASE j \in 2..Len(h)
      BY <1>1, <3>1 DEF TurnStarts
    <3>2. CASE j = n
      BY <1>1, <1>2, <2>1, <3>2 DEF TurnStarts
    <3>3. CASE j \notin 2..Len(h) /\ j # n
      BY <1>1, <3>3 DEF TurnStarts
    <3>. QED
      BY <3>1, <3>2, <3>3
  <2>. QED
    BY <2>2
<1>4. From(g, i) = IF m.role = "user" THEN From(h, i) \union {n} ELSE From(h, i)
  BY <1>1, <1>2, <1>3 DEF From
<1>5. IsFiniteSet(From(h, i)) /\ Cardinality(From(h, i)) \in Nat
  BY TurnsFinite
<1>6. Cardinality(From(h, i) \union {n}) <= Cardinality(From(h, i)) + 1
  <2>. DEFINE S == From(h, i)
  <2>. HIDE DEF S, n
  <2>1. IsFiniteSet(S) /\ Cardinality(S) \in Nat
    BY <1>5 DEF S
  <2>2. Cardinality(S \union {n}) = IF n \in S THEN Cardinality(S) ELSE Cardinality(S) + 1
    BY <2>1, FS_AddElement
  <2>3. Cardinality(S \union {n}) <= Cardinality(S) + 1
    BY <2>1, <2>2
  <2>. QED
    BY <2>3 DEF S
<1>7. i \in TurnStarts(g) /\ g[i] = h[i]
  BY <1>1, <1>2, <1>3
<1>. QED
  BY <1>4, <1>5, <1>6, <1>7 DEF g

\* Steps with an unparseable completion.
Wasted(ss) == {i \in DOMAIN ss : ss[i].shape = "garbage"}

LEMMA WastedEmitted ==
    ASSUME NEW ss \in Seq(Step), NEW s \in Step
    PROVE  /\ Cardinality(Wasted(ss)) \in Nat
           /\ Cardinality(Wasted(Append(ss, s)))
                = Cardinality(Wasted(ss)) + IF s.shape = "garbage" THEN 1 ELSE 0
PROOF
<1>. DEFINE g == Append(ss, s)
            n == Len(ss) + 1
<1>1. /\ Len(ss) \in Nat /\ DOMAIN ss = 1..Len(ss) /\ DOMAIN g = 1..n
      /\ g[n] = s /\ \A j \in 1..Len(ss) : g[j] = ss[j]
  OBVIOUS
<1>. HIDE DEF g
<1>2. Wasted(ss) \in SUBSET (1..Len(ss)) /\ n \notin Wasted(ss)
  BY <1>1 DEF Wasted
<1>3. IsFiniteSet(Wasted(ss)) /\ Cardinality(Wasted(ss)) \in Nat
  <2>1. IsFiniteSet(1..Len(ss))
    BY <1>1, FS_Interval
  <2>. QED
    BY <1>2, <2>1, FS_Subset, FS_CardinalityType
<1>4. Wasted(g) = IF s.shape = "garbage" THEN Wasted(ss) \union {n} ELSE Wasted(ss)
  BY <1>1 DEF Wasted
<1>5. Cardinality(Wasted(ss) \union {n}) = Cardinality(Wasted(ss)) + 1
  BY <1>2, <1>3, FS_AddElement
<1>. QED
  BY <1>3, <1>4, <1>5 DEF g

\* While a run goes on, its task has no more turns after it than the run has sent
\* nudges, until those are as many as the turns that are kept.
TaskNear ==
    pc \in {"fit", "model", "tools"} =>
        \/ Nudges >= KeepN
        \/ \E i \in TurnStarts(messages) :
                TaskAt(i) /\ Cardinality(From(messages, i)) <= 1 + Nudges

LEMMA NudgesNat == TypeOK => Nudges \in Nat /\ Nudges = Cardinality(Wasted(steps))
PROOF
<1>. SUFFICES ASSUME TypeOK PROVE Nudges \in Nat /\ Nudges = Cardinality(Wasted(steps))
  OBVIOUS
<1>1. steps \in Seq(Step) /\ step \in Step
  BY DEF TypeOK
<1>2. Cardinality(Wasted(steps)) \in Nat
  BY <1>1, WastedEmitted
<1>. QED
  BY <1>2 DEF Nudges, Wasted

\* A step that adds at most one message of the model or of a tool.
LEMMA TaskNearKept ==
    ASSUME TypeOK, TaskNear, pc \in {"fit", "model", "tools"}, run' = run,
           Nudges' \in Nat, Nudges' >= Nudges,
           \/ messages' = messages
           \/ \E m \in Message : m.role # "user" /\ messages' = Append(messages, m)
    PROVE  TaskNear'
PROOF
<1>1. messages \in Seq(Message) /\ Nudges \in Nat /\ KeepN \in Nat
  BY NudgesNat, KeepNPositive DEF TypeOK
<1>2. CASE Nudges >= KeepN
  BY <1>1, <1>2 DEF TaskNear
<1>3. CASE ~(Nudges >= KeepN)
  <2>1. PICK i \in TurnStarts(messages) :
            TaskAt(i) /\ Cardinality(From(messages, i)) <= 1 + Nudges
    BY <1>3 DEF TaskNear
  <2>2. Cardinality(From(messages, i)) \in Nat
    BY <1>1, TurnsFinite
  <2>3. /\ i \in TurnStarts(messages') /\ messages'[i] = messages[i]
        /\ Cardinality(From(messages', i)) = Cardinality(From(messages, i))
    BY <1>1, FromAppended
  <2>4. messages'[i].kind = "task" /\ messages'[i].run = run'
    BY <2>1, <2>3 DEF TaskAt
  <2>. QED
    BY <1>1, <2>1, <2>2, <2>3, <2>4 DEF TaskNear, TaskAt
<1>. QED
  BY <1>2, <1>3

LEMMA BeginRunNear == ASSUME IInv, BeginRun PROVE TaskNear'
PROOF
<1>1. PICK cost \in TaskCosts :
        messages' = Append(messages, UserMessage("task", run + 1, added + 1, cost))
  BY DEF BeginRun
<1>. DEFINE m == UserMessage("task", run + 1, added + 1, cost)
            n == Len(messages) + 1
<1>2. /\ messages \in Seq(Message) /\ Len(messages) \in Nat /\ n >= 2
  BY DEF IInv, TypeOK
<1>3. m.role = "user" /\ m.kind = "task" /\ m.run = run + 1
  BY DEF UserMessage
<1>. HIDE DEF m
<1>4. Len(messages') = n /\ messages'[n] = m
  BY <1>1, <1>2 DEF m
<1>5. n \in TurnStarts(messages') /\ From(messages', n) = {n}
  BY <1>2, <1>3, <1>4 DEF TurnStarts, From
<1>6. Cardinality(From(messages', n)) = 1
  BY <1>5, FS_Singleton
<1>7. steps' = <<>> /\ run' = run + 1
  BY DEF BeginRun
<1>8. Nudges' = 0
  <2>1. {i \in DOMAIN steps' : steps'[i].shape = "garbage"} = {}
    BY <1>7
  <2>. QED
    BY <2>1, FS_EmptySet DEF Nudges
<1>. QED
  BY <1>3, <1>4, <1>5, <1>6, <1>7, <1>8 DEF TaskNear, TaskAt

LEMMA NudgeNear == ASSUME IInv, TaskNear, Nudge PROVE TaskNear'
PROOF
<1>. DEFINE a == AssistantMessage("garbage", run, added + 1, 1, <<>>)
            u == UserMessage("nudge", run, added + 2, 1)
            h == Append(messages, a)
<1>1. a \in Message /\ u \in Message
  BY PlainTyped DEF IInv, TypeOK
<1>2. a.role # "user"
  BY DEF AssistantMessage
<1>3. /\ messages' = messages \o <<a, u>> /\ run' = run /\ pc = "model"
      /\ steps' = Append(steps, Garbage)
  BY DEF Nudge, Emit
<1>4. /\ messages \in Seq(Message) /\ Nudges \in Nat /\ KeepN \in Nat
      /\ Nudges = Cardinality(Wasted(steps)) /\ steps \in Seq(Step)
  BY NudgesNat, KeepNPositive DEF IInv, TypeOK
<1>5. Nudges' = Nudges + 1
  <2>1. Garbage \in Step /\ Garbage.shape = "garbage"
    BY GarbageTyped DEF IInv, TypeOK, Garbage, Step
  <2>2. Cardinality(Wasted(steps')) = Cardinality(Wasted(steps)) + 1
    BY <1>3, <1>4, <2>1, WastedEmitted
  <2>. QED
    BY <1>4, <2>2 DEF Nudges, Wasted
<1>. HIDE DEF a, u
<1>6. h \in Seq(Message) /\ messages' = Append(h, u)
  BY <1>1, <1>3, <1>4
<1>7. CASE Nudges >= KeepN
  BY <1>4, <1>5, <1>7 DEF TaskNear
<1>8. CASE ~(Nudges >= KeepN)
  <2>1. PICK i \in TurnStarts(messages) :
            TaskAt(i) /\ Cardinality(From(messages, i)) <= 1 + Nudges
    BY <1>3, <1>8 DEF TaskNear
  <2>2. /\ i \in TurnStarts(h) /\ h[i] = messages[i]
        /\ Cardinality(From(h, i)) = Cardinality(From(messages, i))
    BY <1>1, <1>2, <1>4, FromAppended
  <2>. HIDE DEF h
  <2>3. /\ i \in TurnStarts(messages') /\ messages'[i] = h[i]
        /\ Cardinality(From(messages', i)) <= Cardinality(From(h, i)) + 1
    BY <1>1, <1>6, <2>2, FromAppended
  <2>4. /\ Cardinality(From(messages, i)) \in Nat /\ messages' \in Seq(Message)
    BY <1>1, <1>4, <1>6, TurnsFinite
  <2>5. Cardinality(From(messages', i)) \in Nat
    BY <2>4, TurnsFinite
  <2>6. Cardinality(From(messages', i)) <= 1 + Nudges'
    BY <1>4, <1>5, <2>1, <2>2, <2>3, <2>4, <2>5
  <2>. QED
    BY <1>3, <2>1, <2>2, <2>3, <2>6 DEF TaskNear, TaskAt
<1>. QED
  BY <1>7, <1>8

\* A cut that would drop the task needs as many turns after it as are kept.
LEMMA CompactNear == ASSUME IInv, TaskNear, Compact, KnownStrategy PROVE TaskNear'
PROOF
<1>1. PICK c \in CutPoints(messages), cost \in MarkerCosts :
        messages' = Rebuild(messages, c, cost)
  BY DEF Compact
<1>2. /\ messages \in Seq(Message) /\ Nudges \in Nat /\ KeepN \in Nat /\ cost \in Nat
  BY NudgesNat, KeepNPositive, MarkerCostsNat DEF IInv, TypeOK
<1>3. /\ run' = run /\ steps' = steps /\ pc = "fit" /\ Nudges' = Nudges
  BY DEF Compact, Fitted, LoopTop, Nudges
<1>4. /\ c \in TurnStarts(messages) /\ c \in 3..Len(messages)
      /\ Cardinality(From(messages, c)) = KeepN
  BY DEF CutPoints, TurnStarts, From
<1>5. CASE Nudges >= KeepN
  BY <1>3, <1>5 DEF TaskNear
<1>6. CASE ~(Nudges >= KeepN)
  <2>1. PICK i \in TurnStarts(messages) :
            TaskAt(i) /\ Cardinality(From(messages, i)) <= 1 + Nudges
    BY <1>3, <1>6 DEF TaskNear
  <2>2. i \in 2..Len(messages) /\ Len(messages) \in Nat
    BY <1>2 DEF TurnStarts
  <2>3. i >= c
    <3>. SUFFICES ASSUME i < c PROVE FALSE
      BY <1>4, <2>2
    <3>1. From(messages, c) \union {i} \in SUBSET From(messages, i)
      BY <1>4, <2>2 DEF From, TurnStarts
    <3>2. i \notin From(messages, c)
      BY <1>4, <2>2 DEF From
    <3>3. /\ IsFiniteSet(From(messages, c)) /\ IsFiniteSet(From(messages, i))
          /\ Cardinality(From(messages, i)) \in Nat
      BY <1>2, TurnsFinite
    <3>4. Cardinality(From(messages, c) \union {i}) = KeepN + 1
      BY <1>4, <3>2, <3>3, FS_AddElement
    <3>5. KeepN + 1 <= Cardinality(From(messages, i))
      BY <3>1, <3>3, <3>4, FS_Subset
    <3>. QED
      BY <1>2, <1>6, <2>1, <3>3, <3>5
  <2>. DEFINE k == i - c + 3
              g == Rebuild(messages, c, cost)
  <2>4. /\ k \in TurnStarts(g) /\ g[k] = messages[i]
        /\ IsFiniteSet(From(g, k))
        /\ Cardinality(From(g, k)) <= Cardinality(From(messages, i))
    BY <1>2, <1>4, <2>2, <2>3, FromRebuilt
  <2>5. Cardinality(From(g, k)) \in Nat /\ Cardinality(From(messages, i)) \in Nat
    BY <1>2, <2>4, TurnsFinite, FS_CardinalityType
  <2>. HIDE DEF k, g
  <2>6. messages' = g
    BY <1>1 DEF g
  <2>7. Cardinality(From(messages', k)) <= 1 + Nudges'
    BY <1>2, <1>3, <2>1, <2>4, <2>5, <2>6
  <2>. QED
    BY <1>3, <2>1, <2>4, <2>6, <2>7 DEF TaskNear, TaskAt
<1>. QED
  BY <1>5, <1>6

\* The model sees the task it works on until the run has sent as many nudges as
\* turns are kept, whatever was compacted before and during the run
\* (agent.py:232-236, context.py:288-300).
THEOREM TaskStaysInView == Spec => []TaskInView
PROOF
<1>1. Init => TaskNear
  BY DEF Init, TaskNear
<1>2. IInv /\ TaskNear /\ [Next]_vars => TaskNear'
  <2>. SUFFICES ASSUME IInv, TaskNear, [Next]_vars PROVE TaskNear'
    OBVIOUS
  <2>1. TypeOK /\ Nudges \in Nat /\ steps \in Seq(Step) /\ step \in Step
        /\ Nudges = Cardinality(Wasted(steps)) /\ run \in Nat /\ added \in Nat
    BY NudgesNat DEF IInv, TypeOK
  <2>2. ASSUME NEW s \in Step, steps' = Append(steps, s)
        PROVE  Nudges' \in Nat /\ Nudges' >= Nudges
    <3>1. Cardinality(Wasted(steps')) = Cardinality(Wasted(steps))
                                        + IF s.shape = "garbage" THEN 1 ELSE 0
      BY <2>1, <2>2, WastedEmitted
    <3>2. Nudges' = Cardinality(Wasted(steps'))
      BY DEF Nudges, Wasted
    <3>. QED
      BY <2>1, <3>1, <3>2
  <2>3. ASSUME steps' = steps PROVE Nudges' \in Nat /\ Nudges' >= Nudges
    BY <2>1, <2>3 DEF Nudges
  <2>4. CASE Fits \/ CannotFit
    BY <2>1, <2>3, <2>4, TaskNearKept DEF Fits, CannotFit, Fitted, LoopTop
  <2>5. CASE RequestTools
    <3>1. PICK n \in 1..MaxCalls :
            messages' = Append(messages,
                AssistantMessage("calls", run, added + 1, 1, [k \in 1..n |-> <<run, iter, k>>]))
      BY <2>5 DEF RequestTools
    <3> DEFINE calls == [k \in 1..n |-> <<run, iter, k>>]
               m == AssistantMessage("calls", run, added + 1, 1, calls)
    <3>2. m \in Message /\ m.role # "user"
      <4>1. calls \in Seq(CallId) /\ NoCall \in CallId
        BY <2>1, AgentAssumption DEF CallId, NoCall, TypeOK
      <4>. HIDE DEF calls
      <4>2. "calls" \in Kinds /\ "assistant" \in Roles
        BY DEF Kinds, Roles
      <4>. QED
        BY <2>1, <4>1, <4>2 DEF AssistantMessage, Message
    <3>3. pc = "model" /\ steps' = steps /\ run' = run
      BY <2>5 DEF RequestTools
    <3>. HIDE DEF m
    <3>4. messages' = Append(messages, m)
      BY <3>1 DEF m
    <3>. QED
      BY <2>1, <2>3, <3>2, <3>3, <3>4, TaskNearKept
  <2>6. CASE RunTool
    <3>1. PICK size \in ResultSizes, saved \in BOOLEAN :
            messages' = Append(messages, ToolMessage(ResultKind(size, saved), run,
                added + 1, TrimmedCost(size), step.calls[step.results + 1]))
      BY <2>6 DEF RunTool
    <3> DEFINE id == step.calls[step.results + 1]
               kind == ResultKind(size, saved)
               m == ToolMessage(kind, run, added + 1, TrimmedCost(size), id)
    <3>2. m \in Message /\ m.role # "user"
      <4>1. id \in CallId
        BY <2>1, <2>6 DEF IInv, Paired, RunTool, Step
      <4>2. kind \in Kinds /\ "tool" \in Roles /\ <<>> \in Seq(CallId)
        BY DEF ResultKind, Kinds, Roles
      <4>3. TrimmedCost(size) \in Nat
        BY TrimmedCostNat, AgentAssumption
      <4>. HIDE DEF id, kind
      <4>. QED
        BY <2>1, <4>1, <4>2, <4>3 DEF ToolMessage, Message
    <3>3. pc = "tools" /\ run' = run
      BY <2>6 DEF RunTool
    <3>4. steps' = steps \/ \E s \in Step : steps' = Append(steps, s)
      <4>. DEFINE done == [step EXCEPT !.results = step.results + 1]
      <4>0. step \in Step /\ step.results \in Nat
        BY <2>1, <2>6 DEF IInv, TypeOK, RunTool, Step
      <4>1. done \in Step
        BY <4>0 DEF Step
      <4>2. steps' = steps \/ steps' = Append(steps, done)
        BY <2>6 DEF RunTool, Emit
      <4>. HIDE DEF done
      <4>. QED
        BY <4>1, <4>2
    <3>. HIDE DEF m
    <3>5. messages' = Append(messages, m)
      BY <3>1 DEF m
    <3>. QED
      BY <2>1, <2>2, <2>3, <3>2, <3>3, <3>4, <3>5, TaskNearKept
  <2>7. CASE Exited \/ UNCHANGED vars
    BY <2>7 DEF Exited, vars, TaskNear, Nudges, TaskAt
  <2>8. CASE Quit \/ ModelFails \/ Answer \/ GiveUpParsing \/ ToolEscapes \/ LoopExhausted
    BY <2>8 DEF Quit, ModelFails, Answer, GiveUpParsing, ToolEscapes, LoopExhausted, TaskNear
  <2>9. CASE Compact /\ ~KnownStrategy
    BY <2>9 DEF Compact, TaskNear
  <2>. QED
    BY <2>4, <2>5, <2>6, <2>7, <2>8, <2>9, BeginRunNear, NudgeNear, CompactNear DEF Next, RunStep
<1>3. IInv /\ TaskNear => TaskInView
  <2>. SUFFICES ASSUME IInv, TaskNear, pc = "model", Nudges < KeepN
                PROVE  \E i \in DOMAIN messages : TaskAt(i)
    BY DEF TaskInView
  <2>1. messages \in Seq(Message) /\ Nudges \in Nat /\ KeepN \in Nat
    BY NudgesNat, KeepNPositive DEF IInv, TypeOK
  <2>2. PICK i \in TurnStarts(messages) : TaskAt(i)
    BY <2>1 DEF TaskNear
  <2>3. i \in DOMAIN messages
    BY <2>1 DEF TurnStarts
  <2>. QED
    BY <2>2, <2>3
<1>. QED
  BY <1>1, <1>2, <1>3, Invariance, PTL DEF Spec
=============================================================================
