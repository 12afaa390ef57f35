-------------------------- MODULE AgentLoop_proofs --------------------------
(***************************************************************************)
(* Proofs about AgentLoop for every value of its constants: types, the     *)
(* pairing of calls and results, and what compaction keeps.                *)
(***************************************************************************)
EXTENDS AgentLoop, TLAPS

\* The assistant message whose calls are being executed.
InFlight == Len(messages) - step.results

\* Why WireOK is inductive: between two steps every assistant message is fully
\* answered, except, while tools run, the one in flight, which is followed by
\* exactly the results obtained so far.
Paired ==
    /\ Asked(messages)
    /\ Matched(messages)
    /\ pc \in {"repl", "fit", "model"} =>
            \A j \in DOMAIN messages : AnsweredAt(messages, j)
    /\ pc = "tools" =>
            /\ step.results < Len(step.calls)
            /\ InFlight \in DOMAIN messages
            /\ messages[InFlight].calls = step.calls
            /\ \A j \in DOMAIN messages :
                    j # InFlight => AnsweredAt(messages, j)

\* Before the model answers, no tool of this iteration has run.
Fresh == pc = "model" => step.results = 0

IInv ==
    /\ TypeOK
    /\ Fresh
    /\ messages # <<>>
    /\ messages[1] = SystemMessage(PromptCost)
    /\ Paired

-----------------------------------------------------------------------------
\* Messages built by the constructors are messages.
LEMMA MessageTypes ==
    ASSUME NEW run_ \in Nat, NEW at \in Nat, NEW cost \in Nat, NEW id \in CallId,
           NEW calls \in Seq(CallId), NEW lost \in Nat, NEW kind \in Kinds
    PROVE  /\ SystemMessage(cost) \in Message
           /\ UserMessage(kind, run_, at, cost) \in Message
           /\ AssistantMessage(kind, run_, at, cost, calls) \in Message
           /\ ToolMessage(kind, run_, at, cost, id) \in Message
           /\ MarkerMessage(lost, cost) \in Message
<1>1. NoCall \in CallId
  BY DEF NoCall, CallId
<1>2. <<>> \in Seq(CallId)
  OBVIOUS
<1> QED
  BY <1>1, <1>2 DEF Message, Roles, Kinds, SystemMessage, UserMessage,
     AssistantMessage, ToolMessage, MarkerMessage

\* What a history looks like after one more message.
LEMMA AppendShape ==
    ASSUME NEW h \in Seq(Message), NEW m \in Message
    PROVE  LET g == Append(h, m)
           IN  /\ g \in Seq(Message)
               /\ Len(g) = Len(h) + 1
               /\ Len(h) \in Nat
               /\ DOMAIN h = 1..Len(h)
               /\ DOMAIN g = DOMAIN h \union {Len(h) + 1}
               /\ \A i \in DOMAIN h : g[i] = h[i]
               /\ g[Len(h) + 1] = m
  OBVIOUS

\* The calls of a message in a history are a sequence of ids.
LEMMA CallsTyped ==
    ASSUME NEW h \in Seq(Message), NEW i \in DOMAIN h
    PROVE  /\ h[i].calls \in Seq(CallId)
           /\ Len(h[i].calls) \in Nat
           /\ DOMAIN h[i].calls = 1..Len(h[i].calls)
<1>1. h[i] \in Message
  OBVIOUS
<1>2. h[i].calls \in Seq(CallId)
  BY <1>1 DEF Message
<1> QED
  BY <1>2

\* A message that is not a tool result needs no call before it.
LEMMA AskedAppend ==
    ASSUME NEW h \in Seq(Message), Asked(h),
           NEW m \in Message, m.role # "tool"
    PROVE  Asked(Append(h, m))
<1> DEFINE g == Append(h, m)
<1>1. /\ Len(g) = Len(h) + 1
      /\ Len(h) \in Nat
      /\ DOMAIN h = 1..Len(h)
      /\ DOMAIN g = DOMAIN h \union {Len(h) + 1}
      /\ \A i \in DOMAIN h : g[i] = h[i]
      /\ g[Len(h) + 1] = m
  BY AppendShape
<1> SUFFICES ASSUME NEW i \in DOMAIN g, g[i].role = "tool"
             PROVE  \E j \in 1..(i - 1) :
                        /\ (i - j) \in DOMAIN g[j].calls
                        /\ g[i].id = g[j].calls[i - j]
  BY DEF Asked
<1>2. i \in DOMAIN h /\ g[i] = h[i]
  BY <1>1
<1>3. PICK j \in 1..(i - 1) : /\ (i - j) \in DOMAIN h[j].calls
                              /\ h[i].id = h[j].calls[i - j]
  BY <1>2 DEF Asked
<1>4. j \in DOMAIN h /\ g[j] = h[j]
  BY <1>1, <1>2
<1> QED
  BY <1>2, <1>3, <1>4

\* A message without calls that is not a tool result keeps a history paired.
LEMMA AppendPlain ==
    ASSUME NEW h \in Seq(Message), WirePaired(h),
           NEW m \in Message, m.role # "tool", m.calls = <<>>
    PROVE  WirePaired(Append(h, m))
<1> DEFINE g == Append(h, m)
<1>1. /\ g \in Seq(Message)
      /\ Len(g) = Len(h) + 1
      /\ Len(h) \in Nat
      /\ DOMAIN h = 1..Len(h)
      /\ DOMAIN g = DOMAIN h \union {Len(h) + 1}
      /\ \A i \in DOMAIN h : g[i] = h[i]
      /\ g[Len(h) + 1] = m
  BY AppendShape
<1>2. Asked(g)
  BY AskedAppend DEF WirePaired
<1>3. Matched(g)
  <2> SUFFICES ASSUME NEW j \in DOMAIN g, NEW k \in DOMAIN g[j].calls,
                      (j + k) \in DOMAIN g
               PROVE  g[j + k].role = "tool" /\ g[j + k].id = g[j].calls[k]
    BY DEF Matched
  <2>1. j \in DOMAIN h /\ g[j] = h[j]
    BY <1>1
  <2>2. k \in 1..Len(h[j].calls)
    BY <2>1, CallsTyped
  <2>3. j + k \in DOMAIN h
    BY <2>1, <2>2, <1>1, CallsTyped DEF WirePaired, AnsweredAt
  <2> QED
    BY <2>1, <2>2, <2>3, <1>1 DEF WirePaired, Matched
<1>4. \A j \in DOMAIN g : AnsweredAt(g, j)
  BY <1>1, CallsTyped DEF WirePaired, AnsweredAt
<1> QED
  BY <1>2, <1>3, <1>4 DEF WirePaired

\* An assistant message with calls leaves everything before it answered.
LEMMA AppendCalls ==
    ASSUME NEW h \in Seq(Message), WirePaired(h),
           NEW m \in Message, m.role = "assistant"
    PROVE  LET g == Append(h, m)
           IN  /\ Asked(g)
               /\ Matched(g)
               /\ \A j \in DOMAIN g : j # Len(g) => AnsweredAt(g, j)
<1> DEFINE g == Append(h, m)
<1>1. /\ g \in Seq(Message)
      /\ Len(g) = Len(h) + 1
      /\ Len(h) \in Nat
      /\ DOMAIN h = 1..Len(h)
      /\ DOMAIN g = DOMAIN h \union {Len(h) + 1}
      /\ \A i \in DOMAIN h : g[i] = h[i]
      /\ g[Len(h) + 1] = m
  BY AppendShape
<1>2. Asked(g)
  BY AskedAppend DEF WirePaired
<1>3. Matched(g)
  <2> SUFFICES ASSUME NEW j \in DOMAIN g, NEW k \in DOMAIN g[j].calls,
                      (j + k) \in DOMAIN g
               PROVE  g[j + k].role = "tool" /\ g[j + k].id = g[j].calls[k]
    BY DEF Matched
  <2>1. k \in 1..Len(g[j].calls)
    BY <1>1, CallsTyped
  <2>2. j \in DOMAIN h /\ g[j] = h[j]
    BY <2>1, <1>1
  <2>3. j + k \in DOMAIN h
    BY <2>1, <2>2, <1>1, CallsTyped DEF WirePaired, AnsweredAt
  <2> QED
    BY <2>2, <2>3, <1>1 DEF WirePaired, Matched
<1>4. \A j \in DOMAIN g : j # Len(g) => AnsweredAt(g, j)
  BY <1>1, CallsTyped DEF WirePaired, AnsweredAt
<1> QED
  BY <1>2, <1>3, <1>4

\* The next result of the message in flight, j: it answers the next call.
LEMMA AppendResult ==
    ASSUME NEW h \in Seq(Message), Asked(h), Matched(h),
           NEW r \in Nat, NEW j \in DOMAIN h, j = Len(h) - r,
           r < Len(h[j].calls),
           \A i \in DOMAIN h : i # j => AnsweredAt(h, i),
           NEW m \in Message, m.role = "tool", m.calls = <<>>,
           m.id = h[j].calls[r + 1]
    PROVE  LET g == Append(h, m)
           IN  /\ Asked(g)
               /\ Matched(g)
               /\ g[j] = h[j]
               /\ \A i \in DOMAIN g : i # j => AnsweredAt(g, i)
               /\ r + 1 = Len(h[j].calls) => AnsweredAt(g, j)
<1> DEFINE g == Append(h, m)
<1>1. /\ g \in Seq(Message)
      /\ Len(g) = Len(h) + 1
      /\ Len(h) \in Nat
      /\ DOMAIN h = 1..Len(h)
      /\ DOMAIN g = DOMAIN h \union {Len(h) + 1}
      /\ \A i \in DOMAIN h : g[i] = h[i]
      /\ g[Len(h) + 1] = m
  BY AppendShape
<1>2. /\ Len(h) + 1 = j + (r + 1)
      /\ Len(h[j].calls) \in Nat
      /\ DOMAIN h[j].calls = 1..Len(h[j].calls)
      /\ r + 1 \in 1..Len(h[j].calls)
  BY <1>1, CallsTyped
<1>3. Asked(g)
  <2> SUFFICES ASSUME NEW i \in DOMAIN g, g[i].role = "tool"
               PROVE  \E q \in 1..(i - 1) :
                        /\ (i - q) \in DOMAIN g[q].calls
                        /\ g[i].id = g[q].calls[i - q]
    BY DEF Asked
  <2>1. CASE i \in DOMAIN h
    <3>1. PICK q \in 1..(i - 1) : /\ (i - q) \in DOMAIN h[q].calls
                                  /\ h[i].id = h[q].calls[i - q]
      BY <2>1, <1>1 DEF Asked
    <3>2. q \in DOMAIN h
      BY <2>1, <1>1
    <3> QED
      BY <2>1, <3>1, <3>2, <1>1
  <2>2. CASE i = Len(h) + 1
    <3>1. i - j = r + 1 /\ j \in 1..(i - 1) /\ g[j] = h[j] /\ g[i] = m
      BY <2>2, <1>1, <1>2
    <3> QED
      BY <3>1, <1>2
  <2> QED
    BY <2>1, <2>2, <1>1
<1>4. Matched(g)
  <2> SUFFICES ASSUME NEW i \in DOMAIN g, NEW k \in DOMAIN g[i].calls,
                      (i + k) \in DOMAIN g
               PROVE  g[i + k].role = "tool" /\ g[i + k].id = g[i].calls[k]
    BY DEF Matched
  <2>1. k \in 1..Len(g[i].calls)
    BY <1>1, CallsTyped
  <2>2. i \in DOMAIN h /\ g[i] = h[i]
    BY <2>1, <1>1
  <2>3. CASE i + k \in DOMAIN h
    BY <2>2, <2>3, <1>1 DEF Matched
  <2>4. CASE i + k = Len(h) + 1
    <3>1. i = j
      BY <2>1, <2>2, <2>4, <1>1, CallsTyped DEF AnsweredAt
    <3>2. k = r + 1
      BY <3>1, <2>1, <2>4, <1>2
    <3>3. g[i + k] = m
      BY <2>4, <1>1
    <3> QED
      BY <3>1, <3>2, <3>3, <2>2
  <2> QED
    BY <2>3, <2>4, <1>1
<1>5. \A i \in DOMAIN g : i # j => AnsweredAt(g, i)
  BY <1>1, CallsTyped DEF AnsweredAt
<1>6. r + 1 = Len(h[j].calls) => AnsweredAt(g, j)
  BY <1>1, <1>2 DEF AnsweredAt
<1> QED
  BY <1>1, <1>3, <1>4, <1>5, <1>6

LEMMA MarkerTyped ==
    ASSUME NEW lost \in Nat, NEW cost \in Nat
    PROVE  MarkerMessage(lost, cost) \in Message
<1>1. NoCall \in CallId /\ <<>> \in Seq(CallId)
  BY DEF NoCall, CallId
<1> QED
  BY <1>1 DEF Message, Roles, Kinds, MarkerMessage

\* Two histories, one after the other.
LEMMA ConcatShape ==
    ASSUME NEW s \in Seq(Message), NEW t \in Seq(Message)
    PROVE  /\ s \o t \in Seq(Message)
           /\ Len(s \o t) = Len(s) + Len(t)
           /\ \A i \in 1..Len(s) : (s \o t)[i] = s[i]
           /\ \A i \in 1..Len(t) : (s \o t)[Len(s) + i] = t[i]
  OBVIOUS

\* What a compacted history looks like.
LEMMA RebuildShape ==
    ASSUME NEW h \in Seq(Message), NEW c \in 3..Len(h), NEW cost \in Nat
    PROVE  LET g == Rebuild(h, c, cost)
           IN  /\ g \in Seq(Message)
               /\ Len(g) = Len(h) - c + 3
               /\ DOMAIN g = 1..(Len(h) - c + 3)
               /\ g[1] = h[1]
               /\ g[2] = MarkerMessage(c - 2, cost)
               /\ \A i \in 3..Len(g) : i + c - 3 \in DOMAIN h /\ g[i] = h[i + c - 3]
<1> DEFINE top  == <<h[1], MarkerMessage(c - 2, cost)>>
           kept == SubSeq(h, c, Len(h))
<1>1. Len(h) \in Nat /\ DOMAIN h = 1..Len(h) /\ c \in Nat /\ c - 2 \in Nat
  OBVIOUS
<1>2. h[1] \in Message
  BY <1>1
<1>3. MarkerMessage(c - 2, cost) \in Message
  BY <1>1, MarkerTyped
<1>4. top \in Seq(Message) /\ Len(top) = 2
      /\ top[1] = h[1] /\ top[2] = MarkerMessage(c - 2, cost)
  BY <1>2, <1>3
<1>5. /\ kept \in Seq(Message)
      /\ Len(kept) = Len(h) - c + 1
      /\ \A i \in 1..(Len(h) - c + 1) : kept[i] = h[c + i - 1]
  <2>1. \A i \in c..Len(h) : h[i] \in Message
    BY <1>1
  <2> QED
    BY <1>1, <2>1
<1>6. Rebuild(h, c, cost) = top \o kept
  BY DEF Rebuild
<1> HIDE DEF top, kept
<1>7. /\ top \o kept \in Seq(Message)
      /\ Len(top \o kept) = Len(top) + Len(kept)
      /\ \A i \in 1..Len(top) : (top \o kept)[i] = top[i]
      /\ \A i \in 1..Len(kept) : (top \o kept)[Len(top) + i] = kept[i]
  BY <1>4, <1>5, ConcatShape
<1>8. Len(top \o kept) = Len(h) - c + 3
  BY <1>1, <1>4, <1>5, <1>7
<1>9. (top \o kept)[1] = h[1] /\ (top \o kept)[2] = MarkerMessage(c - 2, cost)
  BY <1>4, <1>7
<1>10. ASSUME NEW i \in 3..(Len(h) - c + 3)
       PROVE  i + c - 3 \in DOMAIN h /\ (top \o kept)[i] = h[i + c - 3]
  <2>1. /\ i - 2 \in 1..Len(kept)
        /\ Len(top) + (i - 2) = i
        /\ c + (i - 2) - 1 = i + c - 3
        /\ i + c - 3 \in DOMAIN h
    BY <1>1, <1>4, <1>5
  <2>2. (top \o kept)[i] = kept[i - 2]
    BY <2>1, <1>7
  <2>3. kept[i - 2] = h[c + (i - 2) - 1]
    BY <2>1, <1>5
  <2> QED
    BY <2>1, <2>2, <2>3
<1>11. DOMAIN (top \o kept) = 1..(Len(h) - c + 3)
  BY <1>7, <1>8
<1> HIDE DEF Rebuild
<1> QED
  BY <1>6, <1>7, <1>8, <1>9, <1>10, <1>11

\* A cut at a user message parts no call from its results.
LEMMA RebuildPaired ==
    ASSUME NEW h \in Seq(Message), WirePaired(h),
           h[1].role = "system", h[1].calls = <<>>,
           NEW c \in 3..Len(h), h[c].role = "user", NEW cost \in Nat
    PROVE  WirePaired(Rebuild(h, c, cost))
<1> DEFINE g == Rebuild(h, c, cost)
<1>1. g \in Seq(Message)
  BY RebuildShape
<1>2. /\ Len(g) = Len(h) - c + 3
      /\ DOMAIN g = 1..(Len(h) - c + 3)
      /\ Len(h) \in Nat
      /\ DOMAIN h = 1..Len(h)
      /\ c \in 3..Len(h)
  BY RebuildShape
<1>3. g[1] = h[1] /\ g[2] = MarkerMessage(c - 2, cost)
  BY RebuildShape
<1>4. /\ g[1].role = "system" /\ g[1].calls = <<>>
      /\ g[2].role = "user" /\ g[2].calls = <<>>
  BY <1>3 DEF MarkerMessage
<1>5. ASSUME NEW i \in 3..Len(g)
      PROVE  i + c - 3 \in DOMAIN h /\ g[i] = h[i + c - 3]
  BY RebuildShape
<1> HIDE DEF g
<1>6. Asked(g)
  <2> SUFFICES ASSUME NEW i \in DOMAIN g, g[i].role = "tool"
               PROVE  \E q \in 1..(i - 1) :
                        /\ (i - q) \in DOMAIN g[q].calls
                        /\ g[i].id = g[q].calls[i - q]
    BY DEF Asked
  <2> DEFINE b == i + c - 3
  <2>1. i # 1 /\ i # 2
    BY <1>4
  <2>2. i \in 3..Len(g)
    BY <2>1, <1>2
  <2>3. b \in DOMAIN h /\ g[i] = h[b]
    BY <2>2, <1>5
  <2>4. b \in c..Len(h) /\ i \in Nat
    BY <2>2, <2>3, <1>2
  <2> HIDE DEF b
  <2>5. PICK j \in 1..(b - 1) : /\ (b - j) \in DOMAIN h[j].calls
                                /\ h[b].id = h[j].calls[b - j]
    BY <2>3 DEF WirePaired, Asked
  <2>6. b # c
    BY <2>3
  <2>7. j \in DOMAIN h /\ j \in Nat
    BY <2>4, <2>5, <1>2
  <2>8. b - j \in 1..Len(h[j].calls) /\ Len(h[j].calls) \in Nat
        /\ DOMAIN h[j].calls = 1..Len(h[j].calls)
    BY <2>5, <2>7, CallsTyped
  <2>9. j >= c
    <3> SUFFICES ASSUME j < c PROVE FALSE
      BY <2>7, <1>2
    <3> DEFINE k == c - j
    <3>1. k \in DOMAIN h[j].calls /\ j + k = c
      BY <2>4, <2>7, <2>8, <1>2
    <3>2. h[j + k].role = "tool"
      <4>1. j + k \in DOMAIN h
        BY <3>1, <1>2
      <4> QED
        BY <4>1, <3>1, <2>7 DEF WirePaired, Matched
    <3> QED
      BY <3>1, <3>2
  <2> DEFINE q == j - c + 3
  <2>10. /\ q \in 1..(i - 1)
         /\ q \in 3..Len(g)
         /\ i - q = b - j
         /\ q + c - 3 = j
    <3>1. /\ c \in Nat /\ j \in Nat /\ i \in Nat /\ Len(g) \in Nat
          /\ j >= c /\ b = i + c - 3 /\ i <= Len(g)
      BY <2>2, <2>4, <2>7, <2>9, <1>2 DEF b
    <3>2. j <= b - 1 /\ b \in Nat
      BY <2>4, <2>5, <2>7, <1>2
    <3> QED
      BY <3>1, <3>2
  <2>11. g[q] = h[j]
    BY <2>10, <1>5
  <2> HIDE DEF q
  <2>12. (i - q) \in DOMAIN g[q].calls /\ g[i].id = g[q].calls[i - q]
    BY <2>3, <2>5, <2>10, <2>11
  <2> QED
    BY <2>10, <2>12
<1>7. Matched(g)
  <2> SUFFICES ASSUME NEW j \in DOMAIN g, NEW k \in DOMAIN g[j].calls,
                      (j + k) \in DOMAIN g
               PROVE  g[j + k].role = "tool" /\ g[j + k].id = g[j].calls[k]
    BY DEF Matched
  <2>1. k \in 1..Len(g[j].calls) /\ Len(g[j].calls) \in Nat
    BY <1>1, CallsTyped
  <2>2. j # 1 /\ j # 2
    BY <1>4, <2>1
  <2>3. j \in 3..Len(g)
    BY <2>2, <1>2
  <2> DEFINE b == j + c - 3
  <2>4. b \in DOMAIN h /\ g[j] = h[b]
    BY <2>3, <1>5
  <2>5. j + k \in 3..Len(g)
    BY <2>1, <2>3, <1>2
  <2>6. (j + k) + c - 3 \in DOMAIN h /\ g[j + k] = h[(j + k) + c - 3]
    BY <2>5, <1>5
  <2>7. (j + k) + c - 3 = b + k
    BY <2>1, <2>3, <1>2
  <2> HIDE DEF b
  <2>8. b + k \in DOMAIN h /\ g[j + k] = h[b + k] /\ k \in DOMAIN h[b].calls
    BY <2>4, <2>6, <2>7
  <2> QED
    BY <2>4, <2>8 DEF WirePaired, Matched
<1>8. ASSUME NEW j \in DOMAIN g
      PROVE  AnsweredAt(g, j)
  <2>1. CASE j \in {1, 2}
    <3>1. Len(g[j].calls) = 0
      BY <2>1, <1>4
    <3> QED
      BY <3>1, <1>2 DEF AnsweredAt
  <2>2. CASE j \in 3..Len(g)
    <3> DEFINE b == j + c - 3
    <3>1. b \in DOMAIN h /\ g[j] = h[b]
      BY <2>2, <1>5
    <3>2. Len(h[b].calls) \in Nat /\ b + Len(h[b].calls) <= Len(h)
      BY <3>1, CallsTyped DEF WirePaired, AnsweredAt
    <3> QED
      BY <3>1, <3>2, <2>2, <1>2 DEF AnsweredAt
  <2> QED
    BY <2>1, <2>2, <1>2
<1> QED
  BY <1>6, <1>7, <1>8 DEF WirePaired, g

-----------------------------------------------------------------------------
\* Outside the tools the invariant is the pairing itself.
LEMMA PairedWhole ==
    ASSUME pc \in {"repl", "fit", "model"}
    PROVE  Paired <=> WirePaired(messages)
  BY DEF Paired, WirePaired

LEMMA PairedWholeNext ==
    ASSUME pc' \in {"repl", "fit", "model"}, WirePaired(messages')
    PROVE  Paired'
  BY DEF Paired, WirePaired, Asked, Matched, AnsweredAt

LEMMA NoStepTyped == NoStep \in Step
  BY DEF NoStep, Step, Shapes

\* The constants and the first state.
LEMMA InitIInv == Init => IInv
<1> SUFFICES ASSUME Init PROVE IInv
  OBVIOUS
<1>1. PromptCost \in Nat
  BY AgentAssumption
<1>2. SystemMessage(PromptCost) \in Message
  <2>1. NoCall \in CallId /\ <<>> \in Seq(CallId)
    BY DEF NoCall, CallId
  <2> QED
    BY <1>1, <2>1 DEF Message, Roles, Kinds, SystemMessage
<1>3. /\ messages \in Seq(Message) /\ messages # <<>>
      /\ Len(messages) = 1 /\ messages[1] = SystemMessage(PromptCost)
      /\ DOMAIN messages = {1}
  BY <1>2 DEF Init
<1>4. TypeOK
  BY <1>3, NoStepTyped DEF Init, TypeOK, Outcomes
<1>5. messages[1].role = "system" /\ messages[1].calls = <<>>
  BY <1>3 DEF SystemMessage
<1>6. Asked(messages)
  BY <1>3, <1>5 DEF Asked
<1>7. Matched(messages)
  BY <1>3, <1>5 DEF Matched
<1>8. \A j \in DOMAIN messages : AnsweredAt(messages, j)
  BY <1>3, <1>5 DEF AnsweredAt
<1>9. Paired
  BY <1>6, <1>7, <1>8 DEF Paired, Init
<1> QED
  BY <1>3, <1>4, <1>9 DEF IInv, Fresh, Init

\* A new message at the end leaves the first one in its place.
LEMMA FirstKept ==
    ASSUME NEW h \in Seq(Message), h # <<>>, NEW m \in Message
    PROVE  Append(h, m) # <<>> /\ Append(h, m)[1] = h[1]
  OBVIOUS

LEMMA BeginRunKeeps == IInv /\ BeginRun => IInv'
<1> SUFFICES ASSUME IInv, BeginRun PROVE IInv'
  OBVIOUS
<1> USE DEF IInv
<1>1. PICK cost \in TaskCosts :
        messages' = Append(messages, UserMessage("task", run + 1, added + 1, cost))
  BY DEF BeginRun
<1> DEFINE m == UserMessage("task", run + 1, added + 1, cost)
<1>2. m \in Message /\ m.role # "tool" /\ m.calls = <<>>
  <2>1. NoCall \in CallId /\ <<>> \in Seq(CallId)
    BY DEF NoCall, CallId
  <2> QED
    BY <2>1, AgentAssumption DEF TypeOK, UserMessage, Message, Roles, Kinds
<1> HIDE DEF m
<1>3. messages \in Seq(Message) /\ messages' = Append(messages, m)
  BY <1>1 DEF TypeOK, m
<1>4. TypeOK'
  BY <1>2, <1>3, NoStepTyped DEF TypeOK, BeginRun, Outcomes
<1>5. WirePaired(messages')
  BY <1>2, <1>3, AppendPlain, PairedWhole DEF BeginRun
<1> QED
  BY <1>2, <1>3, <1>4, <1>5, FirstKept, PairedWholeNext DEF BeginRun, Fresh

\* A step that leaves the history alone and is in the middle of no tool.
LEMMA SameHistory ==
    ASSUME IInv, TypeOK', messages' = messages, pc' = "model" => step'.results = 0,
           \/ pc' = "exited"
           \/ pc \in {"repl", "fit", "model"} /\ pc' \in {"repl", "fit", "model"}
    PROVE  IInv'
<1>1. CASE pc' = "exited"
  BY <1>1 DEF IInv, Fresh, Paired, Asked, Matched
<1>2. CASE pc \in {"repl", "fit", "model"} /\ pc' \in {"repl", "fit", "model"}
  <2>1. WirePaired(messages')
    BY <1>2, PairedWhole DEF IInv
  <2> QED
    BY <1>2, <2>1, PairedWholeNext DEF IInv, Fresh
<1> QED
  BY <1>1, <1>2

LEMMA QuitKeeps == IInv /\ Quit => IInv'
<1> SUFFICES ASSUME IInv, Quit PROVE IInv'
  OBVIOUS
<1>1. TypeOK'
  BY DEF IInv, TypeOK, Quit
<1> QED
  BY <1>1, SameHistory DEF Quit

\* The step ensure_fits opens.
LEMMA FittedTypes ==
    ASSUME TypeOK, NEW b \in BOOLEAN, Fitted(b), messages' \in Seq(Message)
    PROVE  TypeOK'
<1>1. step' \in Step
  BY NoStepTyped DEF Fitted, TypeOK, Step, NoStep
<1> QED
  BY <1>1 DEF TypeOK, Fitted

LEMMA FitsKeeps == IInv /\ (Fits \/ CannotFit) => IInv'
<1> SUFFICES ASSUME IInv, Fits \/ CannotFit PROVE IInv'
  OBVIOUS
<1>1. PICK b \in BOOLEAN : Fitted(b) /\ messages' = messages
  BY DEF Fits, CannotFit
<1>2. TypeOK'
  BY <1>1, FittedTypes DEF IInv, TypeOK
<1>3. pc = "fit" /\ pc' = "model" /\ step'.results = 0
  BY <1>1 DEF Fits, CannotFit, LoopTop, Fitted, NoStep
<1> QED
  BY <1>1, <1>2, <1>3, SameHistory

LEMMA MarkerCostsNat == MarkerCosts \subseteq Nat
  BY ContextAssumption DEF MarkerCosts

LEMMA UnknownStrategyKeeps == IInv /\ Compact /\ ~KnownStrategy => IInv'
<1> SUFFICES ASSUME IInv, Compact, ~KnownStrategy PROVE IInv'
  OBVIOUS
<1>1. /\ messages' = messages /\ pc' = "exited" /\ step' = NoStep /\ outcome' = "escaped"
      /\ UNCHANGED <<run, iter, failures, steps, added, files>>
  BY DEF Compact
<1>2. TypeOK'
  BY <1>1, NoStepTyped DEF IInv, TypeOK, Outcomes, Failures
<1> QED
  BY <1>1, <1>2, SameHistory

LEMMA CompactKeeps == IInv /\ Compact /\ KnownStrategy => IInv'
<1> SUFFICES ASSUME IInv, Compact, KnownStrategy PROVE IInv'
  OBVIOUS
<1>1. PICK c \in CutPoints(messages), cost \in MarkerCosts :
        messages' = Rebuild(messages, c, cost)
  BY DEF Compact
<1>2. messages \in Seq(Message) /\ cost \in Nat
  BY MarkerCostsNat DEF IInv, TypeOK
<1>3. c \in 3..Len(messages) /\ messages[c].role = "user"
  BY <1>2 DEF CutPoints, TurnStarts
<1>4. pc = "fit" /\ pc' = "model" /\ Fitted(TRUE) /\ step'.results = 0
  BY DEF Compact, LoopTop, Fitted, NoStep
<1>5. messages' \in Seq(Message) /\ messages' # <<>> /\ messages'[1] = messages[1]
  <2>1. /\ messages' \in Seq(Message)
        /\ Len(messages') = Len(messages) - c + 3
        /\ messages'[1] = messages[1]
    BY <1>1, <1>2, <1>3, RebuildShape
  <2> QED
    BY <2>1, <1>2, <1>3
<1>6. TypeOK'
  BY <1>4, <1>5, FittedTypes DEF IInv
<1>7. messages[1].role = "system" /\ messages[1].calls = <<>>
  BY DEF IInv, SystemMessage
<1>8. WirePaired(messages)
  BY <1>4, PairedWhole DEF IInv
<1>9. WirePaired(messages')
  BY <1>1, <1>2, <1>3, <1>7, <1>8, RebuildPaired
<1> QED
  BY <1>4, <1>5, <1>6, <1>9, PairedWholeNext DEF IInv, Fresh

LEMMA ModelFailsKeeps == IInv /\ ModelFails => IInv'
<1> SUFFICES ASSUME IInv, ModelFails PROVE IInv'
  OBVIOUS
<1>1. TypeOK'
  BY DEF IInv, TypeOK, ModelFails, Outcomes, Failures
<1> QED
  BY <1>1, SameHistory DEF ModelFails

LEMMA ToolEscapesKeeps == IInv /\ ToolEscapes => IInv'
<1> SUFFICES ASSUME IInv, ToolEscapes PROVE IInv'
  OBVIOUS
<1>1. TypeOK'
  BY DEF IInv, TypeOK, ToolEscapes, Outcomes, Failures
<1> QED
  BY <1>1, SameHistory DEF ToolEscapes

LEMMA LoopExhaustedKeeps == IInv /\ LoopExhausted => IInv'
<1> SUFFICES ASSUME IInv, LoopExhausted PROVE IInv'
  OBVIOUS
<1>1. TypeOK'
  BY DEF IInv, TypeOK, LoopExhausted, Outcomes, Failures
<1> QED
  BY <1>1, SameHistory DEF LoopExhausted

LEMMA GarbageTyped == TypeOK => Garbage \in Step
  BY DEF TypeOK, Garbage, Step, Shapes

LEMMA GiveUpParsingKeeps == IInv /\ GiveUpParsing => IInv'
<1> SUFFICES ASSUME IInv, GiveUpParsing PROVE IInv'
  OBVIOUS
<1>1. TypeOK'
  BY GarbageTyped DEF IInv, TypeOK, GiveUpParsing, Emit, Outcomes, Failures
<1> QED
  BY <1>1, SameHistory DEF GiveUpParsing

\* Assistant messages without calls, and nudges.
LEMMA PlainTyped ==
    ASSUME TypeOK, NEW at \in Nat
    PROVE  /\ AssistantMessage("answer", run, at, 1, <<>>) \in Message
           /\ AssistantMessage("garbage", run, at, 1, <<>>) \in Message
           /\ UserMessage("nudge", run, at, 1) \in Message
<1>1. NoCall \in CallId /\ <<>> \in Seq(CallId)
  BY DEF NoCall, CallId
<1> QED
  BY <1>1 DEF TypeOK, Message, Roles, Kinds, AssistantMessage, UserMessage

LEMMA AnswerKeeps == IInv /\ Answer => IInv'
<1> SUFFICES ASSUME IInv, Answer PROVE IInv'
  OBVIOUS
<1> DEFINE m == AssistantMessage("answer", run, added + 1, 1, <<>>)
<1>1. m \in Message
  BY PlainTyped DEF IInv, TypeOK
<1>2. m.role # "tool" /\ m.calls = <<>>
  BY DEF AssistantMessage
<1>3. messages \in Seq(Message) /\ messages' = Append(messages, m) /\ messages # <<>>
  BY DEF IInv, TypeOK, Answer
<1> HIDE DEF m
<1>4. TypeOK'
  BY <1>1, <1>3 DEF IInv, TypeOK, Answer, Emit, Outcomes
<1>5. WirePaired(messages')
  BY <1>1, <1>2, <1>3, AppendPlain, PairedWhole DEF IInv, Answer
<1> QED
  BY <1>1, <1>3, <1>4, <1>5, FirstKept, PairedWholeNext DEF IInv, Fresh, Answer

LEMMA NudgeKeeps == IInv /\ Nudge => IInv'
<1> SUFFICES ASSUME IInv, Nudge PROVE IInv'
  OBVIOUS
<1> DEFINE a == AssistantMessage("garbage", run, added + 1, 1, <<>>)
           u == UserMessage("nudge", run, added + 2, 1)
<1>1. a \in Message /\ u \in Message
  BY PlainTyped DEF IInv, TypeOK
<1>2. a.role # "tool" /\ a.calls = <<>> /\ u.role # "tool" /\ u.calls = <<>>
  BY DEF AssistantMessage, UserMessage
<1>3. messages \in Seq(Message) /\ messages # <<>> /\ messages' = messages \o <<a, u>>
  BY DEF IInv, TypeOK, Nudge
<1> HIDE DEF a, u
<1> DEFINE h == Append(messages, a)
<1>4. h \in Seq(Message) /\ messages' = Append(h, u) /\ h # <<>>
  BY <1>1, <1>3
<1>5. WirePaired(h)
  BY <1>1, <1>2, <1>3, AppendPlain, PairedWhole DEF IInv, Nudge
<1>6. h[1] = messages[1]
  BY <1>1, <1>3, FirstKept
<1> HIDE DEF h
<1>7. WirePaired(messages')
  BY <1>1, <1>2, <1>4, <1>5, AppendPlain
<1>8. messages' # <<>> /\ messages'[1] = messages[1]
  BY <1>1, <1>4, <1>6, FirstKept
<1>9. messages' \in Seq(Message)
  BY <1>1, <1>4
<1>10. TypeOK'
  BY <1>9, GarbageTyped DEF IInv, TypeOK, Nudge, Emit
<1> QED
  BY <1>7, <1>8, <1>10, PairedWholeNext DEF IInv, Fresh, Nudge

LEMMA RequestToolsKeeps == IInv /\ RequestTools => IInv'
<1> SUFFICES ASSUME IInv, RequestTools PROVE IInv'
  OBVIOUS
<1>1. PICK n \in 1..MaxCalls, shape \in {"text", "mixed", "native"} :
        LET calls == [k \in 1..n |-> <<run, iter, k>>]
        IN  /\ step' = [step EXCEPT !.shape = shape, !.calls = calls]
            /\ messages' = Append(messages,
                    AssistantMessage("calls", run, added + 1, 1, calls))
  BY DEF RequestTools
<1> DEFINE calls == [k \in 1..n |-> <<run, iter, k>>]
           m == AssistantMessage("calls", run, added + 1, 1, calls)
<1>2. n \in Nat /\ n > 0
  BY AgentAssumption
<1>3. calls \in Seq(CallId) /\ Len(calls) = n
  BY <1>2 DEF IInv, TypeOK, CallId
<1> HIDE DEF calls
<1>4. m \in Message
  <2>1. NoCall \in CallId
    BY DEF NoCall, CallId
  <2> QED
    BY <1>3, <2>1 DEF IInv, TypeOK, Message, Roles, Kinds, AssistantMessage
<1>5. m.role = "assistant" /\ m.calls = calls
  BY DEF AssistantMessage
<1>6. /\ messages \in Seq(Message) /\ messages # <<>>
      /\ messages' = Append(messages, m)
      /\ step' = [step EXCEPT !.shape = shape, !.calls = calls]
      /\ step' \in Step
      /\ step'.calls = calls
      /\ step'.results = step.results
  <2>1. step' = [step EXCEPT !.shape = shape, !.calls = calls]
    BY <1>1 DEF calls
  <2>2. messages' = Append(messages, m)
    BY <1>1 DEF calls
  <2> QED
    BY <2>1, <2>2, <1>3 DEF IInv, TypeOK, Step, Shapes
<1> HIDE DEF m
<1>7. TypeOK'
  BY <1>4, <1>6 DEF IInv, TypeOK, RequestTools
<1>8. WirePaired(messages)
  BY PairedWhole DEF IInv, RequestTools
<1>9. /\ Asked(messages') /\ Matched(messages')
      /\ \A j \in DOMAIN messages' :
            j # Len(messages') => AnsweredAt(messages', j)
  BY <1>4, <1>5, <1>6, <1>8, AppendCalls
<1>10. /\ Len(messages') \in DOMAIN messages'
       /\ messages'[Len(messages')] = m
  BY <1>4, <1>6
<1>11. step'.results = 0 /\ Len(step'.calls) > 0
  BY <1>2, <1>3, <1>6 DEF IInv, Fresh, RequestTools
<1>12. InFlight' = Len(messages')
  <2>1. Len(messages') \in Nat
    BY <1>4, <1>6
  <2> QED
    BY <2>1, <1>11 DEF InFlight
<1>13. pc' = "tools"
  BY DEF RequestTools
<1>14. Paired'
  BY <1>5, <1>6, <1>9, <1>10, <1>11, <1>12, <1>13
     DEF Paired, Asked, Matched, AnsweredAt
<1> QED
  BY <1>4, <1>6, <1>7, <1>13, <1>14, FirstKept DEF IInv, Fresh

LEMMA TrimmedCostNat ==
    ASSUME NEW size \in Nat
    PROVE  TrimmedCost(size) \in Nat
  BY ContextAssumption DEF TrimmedCost

LEMMA RunToolKeeps == IInv /\ RunTool => IInv'
<1> SUFFICES ASSUME IInv, RunTool PROVE IInv'
  OBVIOUS
<1> DEFINE k    == step.results + 1
           id   == step.calls[k]
           done == [step EXCEPT !.results = k]
<1>1. PICK size \in ResultSizes, saved \in BOOLEAN :
        LET kind == ResultKind(size, saved)
        IN  /\ messages' = Append(messages,
                    ToolMessage(kind, run, added + 1, TrimmedCost(size), id))
            /\ files' = IF kind = "spilled" THEN Spilled(files, id) ELSE files
  BY DEF RunTool
<1>2. /\ step' = done
      /\ IF k = Len(step.calls)
         THEN Emit(done) /\ iter' = iter + 1 /\ pc' = "fit"
         ELSE UNCHANGED <<steps, iter, pc>>
      /\ pc = "tools"
      /\ added' = added + 1
      /\ UNCHANGED <<run, failures, outcome>>
  BY DEF RunTool
<1> DEFINE kind == ResultKind(size, saved)
           m == ToolMessage(kind, run, added + 1, TrimmedCost(size), id)
<1>3. /\ step \in Step /\ step.results \in Nat
      /\ step.calls \in Seq(CallId)
      /\ step.results < Len(step.calls)
  BY <1>2 DEF IInv, TypeOK, Paired, Step
<1>4. k \in 1..Len(step.calls) /\ id \in CallId
  BY <1>3
<1>5. /\ done \in Step /\ done.results = k /\ done.calls = step.calls
  BY <1>3, <1>4 DEF Step
<1>6. m \in Message
  <2>1. size \in Nat
    BY AgentAssumption
  <2>2. TrimmedCost(size) \in Nat
    BY <2>1, TrimmedCostNat
  <2>3. kind \in Kinds
    BY DEF ResultKind, Kinds
  <2> HIDE DEF kind, id
  <2> QED
    BY <1>4, <2>2, <2>3 DEF IInv, TypeOK, Message, Roles, ToolMessage
<1>7. m.role = "tool" /\ m.calls = <<>> /\ m.id = id
  BY DEF ToolMessage
<1>8. files' \subseteq [name: CallId, content: CallId]
  BY <1>1, <1>4 DEF IInv, TypeOK, Spilled, SpillName
<1>9. messages' = Append(messages, m) /\ messages \in Seq(Message) /\ messages # <<>>
  BY <1>1 DEF IInv, TypeOK
<1> HIDE DEF m, kind
<1>10. TypeOK'
  <2>1. messages' \in Seq(Message)
    BY <1>6, <1>9
  <2>2. steps' \in Seq(Step) /\ iter' \in Nat /\ pc' \in {"fit", "tools"}
    <3> HIDE DEF done
    <3>1. CASE k = Len(step.calls)
      <4>1. steps' = Append(steps, done) /\ iter' = iter + 1 /\ pc' = "fit"
        BY <3>1, <1>2 DEF Emit
      <4> QED
        BY <4>1, <1>5 DEF IInv, TypeOK
    <3>2. CASE k # Len(step.calls)
      BY <3>2, <1>2 DEF IInv, TypeOK
    <3> QED
      BY <3>1, <3>2
  <2> QED
    BY <2>1, <2>2, <1>2, <1>5, <1>8 DEF IInv, TypeOK
<1> DEFINE j == InFlight
<1>11. /\ j \in DOMAIN messages
       /\ j = Len(messages) - step.results
       /\ messages[j].calls = step.calls
       /\ \A i \in DOMAIN messages : i # j => AnsweredAt(messages, i)
       /\ Asked(messages) /\ Matched(messages)
  BY <1>2 DEF IInv, Paired, InFlight
<1> HIDE DEF j
<1>12. /\ Asked(messages')
       /\ Matched(messages')
       /\ messages'[j] = messages[j]
       /\ \A i \in DOMAIN messages' : i # j => AnsweredAt(messages', i)
       /\ k = Len(step.calls) => AnsweredAt(messages', j)
  <2> DEFINE r == step.results
  <2>1. /\ r \in Nat /\ j = Len(messages) - r
        /\ r < Len(messages[j].calls)
        /\ m.id = messages[j].calls[r + 1]
        /\ k = r + 1 /\ messages[j].calls = step.calls
    BY <1>3, <1>7, <1>11
  <2> HIDE DEF r, k
  <2>2. LET g == Append(messages, m)
        IN  /\ Asked(g)
            /\ Matched(g)
            /\ g[j] = messages[j]
            /\ \A i \in DOMAIN g : i # j => AnsweredAt(g, i)
            /\ r + 1 = Len(messages[j].calls) => AnsweredAt(g, j)
    BY <2>1, <1>6, <1>7, <1>9, <1>11, AppendResult
  <2> QED
    BY <2>1, <2>2, <1>9
<1>13. /\ Len(messages') = Len(messages) + 1
       /\ Len(messages) \in Nat
       /\ j \in DOMAIN messages'
  BY <1>6, <1>9, <1>11, AppendShape
<1>14. messages' # <<>> /\ messages'[1] = messages[1]
  BY <1>6, <1>9, FirstKept
<1>15. CASE k = Len(step.calls)
  <2>1. pc' = "fit"
    BY <1>2, <1>15
  <2>2. WirePaired(messages')
    BY <1>12, <1>15 DEF WirePaired
  <2> QED
    BY <2>1, <2>2, <1>10, <1>14, PairedWholeNext DEF IInv, Fresh
<1>16. CASE k # Len(step.calls)
  <2>1. pc' = "tools"
    BY <1>2, <1>16
  <2>2. InFlight' = j
    BY <1>2, <1>3, <1>5, <1>11, <1>13 DEF InFlight
  <2>3. step'.results < Len(step'.calls)
    BY <1>2, <1>3, <1>4, <1>5, <1>16
  <2>4. messages'[j].calls = step'.calls
    BY <1>2, <1>5, <1>11, <1>12
  <2>5. Paired'
    BY <2>1, <2>2, <2>3, <2>4, <1>12, <1>13
       DEF Paired, Asked, Matched, AnsweredAt
  <2> QED
    BY <2>1, <2>5, <1>10, <1>14 DEF IInv, Fresh
<1> QED
  BY <1>15, <1>16

LEMMA StutterKeeps == IInv /\ UNCHANGED vars => IInv'
  BY DEF vars, IInv, TypeOK, Fresh, Paired, InFlight, Asked, Matched, AnsweredAt

-----------------------------------------------------------------------------
\* No step of the loop breaks the invariant.
LEMMA StepKeepsIInv == IInv /\ [Next]_vars => IInv'
<1> SUFFICES ASSUME IInv, [Next]_vars PROVE IInv'
  OBVIOUS
<1>1. CASE BeginRun
  BY <1>1, BeginRunKeeps
<1>2. CASE Quit
  BY <1>2, QuitKeeps
<1>3. CASE Fits \/ CannotFit
  BY <1>3, FitsKeeps
<1>4. CASE Compact
  BY <1>4, CompactKeeps, UnknownStrategyKeeps
<1>5. CASE ModelFails
  BY <1>5, ModelFailsKeeps
<1>6. CASE Answer
  BY <1>6, AnswerKeeps
<1>7. CASE Nudge
  BY <1>7, NudgeKeeps
<1>8. CASE GiveUpParsing
  BY <1>8, GiveUpParsingKeeps
<1>9. CASE RequestTools
  BY <1>9, RequestToolsKeeps
<1>10. CASE RunTool
  BY <1>10, RunToolKeeps
<1>11. CASE ToolEscapes
  BY <1>11, ToolEscapesKeeps
<1>12. CASE LoopExhausted
  BY <1>12, LoopExhaustedKeeps
<1>13. CASE Exited \/ UNCHANGED vars
  BY <1>13, StutterKeeps DEF Exited
<1> QED
  BY <1>1, <1>2, <1>3, <1>4, <1>5, <1>6, <1>7, <1>8, <1>9, <1>10, <1>11,
     <1>12, <1>13 DEF Next, RunStep

\* The inductive invariant.
THEOREM Invariance == Spec => []IInv
<1>1. Init => IInv
  BY InitIInv
<1> QED
  BY <1>1, StepKeepsIInv, PTL DEF Spec

\* Every variable keeps its type, whatever the bounds (agent.py:170-296).
THEOREM TypeCorrect == Spec => []TypeOK
<1>1. IInv => TypeOK
  BY DEF IInv
<1> QED
  BY <1>1, Invariance, PTL

\* Every model call of every run carries a history in which calls and results
\* are paired, for any budget, any number of turns kept and any number of calls
\* in a completion (conversation.py:55-63).
THEOREM WirePairing == Spec => []WireOK
<1>1. IInv => WireOK
  BY PairedWhole DEF IInv, WireOK
<1> QED
  BY <1>1, Invariance, PTL

-----------------------------------------------------------------------------
\* KeptIsSuffix of a history to which n messages were ever added.
Suffix(h, n) ==
    \A i \in 2..Len(h) :
        \/ i = 2 /\ h[i].kind = "marker"
        \/ h[i].role # "system" /\ h[i].at = n - (Len(h) - i)

LEMMA SuffixAppend ==
    ASSUME NEW h \in Seq(Message), NEW n \in Nat, Suffix(h, n),
           NEW m, m.role # "system", m.at = n + 1
    PROVE  Suffix(Append(h, m), n + 1)
<1> DEFINE g == Append(h, m)
<1>1. /\ Len(g) = Len(h) + 1
      /\ Len(h) \in Nat
      /\ \A i \in 1..Len(h) : g[i] = h[i]
      /\ g[Len(h) + 1] = m
  OBVIOUS
<1> HIDE DEF g
<1>2. ASSUME NEW i \in 2..Len(g)
      PROVE  \/ i = 2 /\ g[i].kind = "marker"
             \/ g[i].role # "system" /\ g[i].at = (n + 1) - (Len(g) - i)
  <2>1. CASE i \in 2..Len(h)
    <3>1. g[i] = h[i] /\ (n + 1) - (Len(g) - i) = n - (Len(h) - i)
      BY <1>1, <2>1
    <3> QED
      BY <3>1, <2>1 DEF Suffix
  <2>2. CASE i = Len(h) + 1
    BY <1>1, <2>2
  <2> QED
    BY <1>1, <2>1, <2>2
<1> QED
  BY <1>2 DEF Suffix, g

LEMMA SuffixRebuild ==
    ASSUME NEW h \in Seq(Message), NEW n \in Nat, Suffix(h, n),
           NEW c \in 3..Len(h), NEW cost \in Nat
    PROVE  Suffix(Rebuild(h, c, cost), n)
<1> DEFINE g == Rebuild(h, c, cost)
<1>1. Len(g) = Len(h) - c + 3 /\ Len(h) \in Nat /\ c \in Nat
  BY RebuildShape
<1>2. g[2].kind = "marker"
  <2>1. g[2] = MarkerMessage(c - 2, cost)
    BY RebuildShape
  <2> QED
    BY <2>1 DEF MarkerMessage
<1>3. ASSUME NEW i \in 3..Len(g)
      PROVE  g[i] = h[i + c - 3]
  BY RebuildShape
<1> SUFFICES ASSUME NEW i \in 2..Len(g)
             PROVE  \/ i = 2 /\ g[i].kind = "marker"
                    \/ g[i].role # "system" /\ g[i].at = n - (Len(g) - i)
  BY DEF Suffix
<1> HIDE DEF g
<1>4. CASE i = 2
  BY <1>2, <1>4
<1>5. CASE i \in 3..Len(g)
  <2> DEFINE b == i + c - 3
  <2>1. /\ b \in 2..Len(h) /\ b # 2
        /\ n - (Len(h) - b) = n - (Len(g) - i)
    BY <1>1, <1>5
  <2>2. g[i] = h[b]
    BY <1>3, <1>5
  <2> HIDE DEF b
  <2> QED
    BY <2>1, <2>2 DEF Suffix
<1> QED
  BY <1>1, <1>4, <1>5

\* What the model sees is the system prompt, at most one marker and the latest
\* messages with no gap, however often the history was compacted
\* (context.py:302-305).
THEOREM SuffixKept == Spec => []KeptIsSuffix
<1> DEFINE S == Suffix(messages, added)
<1>1. Init => S
  BY AgentAssumption DEF Init, Suffix
<1>2. IInv /\ S /\ [Next]_vars => S'
  <2> SUFFICES ASSUME IInv, S, [Next]_vars PROVE S'
    OBVIOUS
  <2>1. messages \in Seq(Message) /\ added \in Nat
    BY DEF IInv, TypeOK
  <2>2. CASE UNCHANGED <<messages, added>>
    BY <2>2
  <2>3. ASSUME NEW m, messages' = Append(messages, m),
               m.role # "system", m.at = added + 1, added' = added + 1
        PROVE  S'
    BY <2>1, <2>3, SuffixAppend
  <2>4. CASE BeginRun
    BY <2>3, <2>4 DEF BeginRun, UserMessage
  <2>5. CASE Answer
    BY <2>3, <2>5 DEF Answer, AssistantMessage
  <2>6. CASE RequestTools
    BY <2>3, <2>6 DEF RequestTools, AssistantMessage
  <2>7. CASE RunTool
    BY <2>3, <2>7 DEF RunTool, ToolMessage
  <2>8. CASE Nudge
    <3> DEFINE a == AssistantMessage("garbage", run, added + 1, 1, <<>>)
               u == UserMessage("nudge", run, added + 2, 1)
               h == Append(messages, a)
    <3>1. a \in Message /\ u \in Message
      BY PlainTyped DEF IInv, TypeOK
    <3>2. /\ a.role # "system" /\ a.at = added + 1
          /\ u.role # "system" /\ u.at = added + 2
      BY DEF AssistantMessage, UserMessage
    <3>3. messages' = messages \o <<a, u>> /\ added' = added + 2
      BY <2>8 DEF Nudge
    <3> HIDE DEF a, u
    <3>4. h \in Seq(Message) /\ messages' = Append(h, u)
      BY <2>1, <3>1, <3>3
    <3>5. Suffix(h, added + 1)
      BY <2>1, <3>2, SuffixAppend
    <3> HIDE DEF h
    <3>6. Suffix(Append(h, u), (added + 1) + 1)
      <4>1. added + 1 \in Nat /\ u.at = (added + 1) + 1
        BY <2>1, <3>2
      <4> QED
        BY <4>1, <3>2, <3>4, <3>5, SuffixAppend
    <3>7. added' = (added + 1) + 1
      BY <2>1, <3>3
    <3> QED
      BY <3>4, <3>6, <3>7
  <2>9. CASE Compact /\ KnownStrategy
    <3>1. PICK c \in CutPoints(messages), cost \in MarkerCosts :
            messages' = Rebuild(messages, c, cost)
      BY <2>9 DEF Compact
    <3>2. c \in 3..Len(messages) /\ cost \in Nat
      BY <2>1, MarkerCostsNat DEF CutPoints, TurnStarts
    <3>3. added' = added
      BY <2>9 DEF Compact, Fitted
    <3> QED
      BY <2>1, <3>1, <3>2, <3>3, SuffixRebuild
  <2>10. CASE Fits \/ CannotFit \/ Quit \/ ModelFails \/ GiveUpParsing
              \/ ToolEscapes \/ LoopExhausted \/ Exited \/ UNCHANGED vars
              \/ (Compact /\ ~KnownStrategy)
    BY <2>2, <2>10 DEF Fits, CannotFit, Fitted, Quit, ModelFails, GiveUpParsing,
       ToolEscapes, LoopExhausted, Exited, vars, Compact
  <2> QED
    BY <2>4, <2>5, <2>6, <2>7, <2>8, <2>9, <2>10 DEF Next, RunStep
<1>3. IInv /\ S => KeptIsSuffix
  BY DEF IInv, KeptIsSuffix, Suffix, SystemMessage
<1> QED
  BY <1>1, <1>2, <1>3, Invariance, PTL DEF Spec

-----------------------------------------------------------------------------
\* The file of a result is in `store`, and holds it.
Readable(m, store) ==
    m.kind = "spilled" => [name |-> SpillName(m.id), content |-> m.id] \in store

LEMMA ReadableStays ==
    ASSUME NEW m, NEW store, Readable(m, store), NEW id
    PROVE  Readable(m, Spilled(store, id))
PROOF
<1>1. CASE m.id = id
  BY <1>1 DEF Readable, Spilled
<1>2. CASE m.id # id
  BY <1>2 DEF Readable, Spilled, SpillName
<1> QED
  BY <1>1, <1>2

\* A message that says its result was spilled names a file that holds it, however
\* many spills, compactions and runs come after it (context.py:393-419).
THEOREM SpillsStayReadable == Spec => []SpillReadable
PROOF
<1> DEFINE S == \A i \in DOMAIN messages : Readable(messages[i], files)
<1>1. Init => S
  BY DEF Init, SystemMessage, Readable
<1>2. IInv /\ S /\ [Next]_vars => S'
  <2> SUFFICES ASSUME IInv, S, [Next]_vars PROVE S'
    OBVIOUS
  <2>1. messages \in Seq(Message)
    BY DEF IInv, TypeOK
  <2>2. CASE RunTool
    <3>1. PICK size \in ResultSizes, saved \in BOOLEAN :
            LET kind == ResultKind(size, saved)
                id == step.calls[step.results + 1]
            IN  /\ messages' = Append(messages,
                        ToolMessage(kind, run, added + 1, TrimmedCost(size), id))
                /\ files' = IF kind = "spilled" THEN Spilled(files, id) ELSE files
      BY <2>2 DEF RunTool
    <3> DEFINE id == step.calls[step.results + 1]
               kind == ResultKind(size, saved)
               m == ToolMessage(kind, run, added + 1, TrimmedCost(size), id)
    <3>2. m.kind = kind /\ m.id = id
      BY DEF ToolMessage
    <3>3. files' = IF kind = "spilled" THEN Spilled(files, id) ELSE files
      BY <3>1
    <3>4. messages' = Append(messages, m)
      BY <3>1
    <3> HIDE DEF m, kind, id
    <3>5. Readable(m, files')
      BY <3>2, <3>3 DEF Readable, Spilled
    <3>6. ASSUME NEW i \in DOMAIN messages PROVE Readable(messages[i], files')
      BY <3>3, ReadableStays
    <3>7. \A i \in DOMAIN messages' :
            messages'[i] = m \/ (i \in DOMAIN messages /\ messages'[i] = messages[i])
      BY <2>1, <3>4
    <3> QED
      BY <3>5, <3>6, <3>7
  <2>3. CASE /\ files' = files
             /\ \A i \in DOMAIN messages' :
                    \/ messages'[i].kind # "spilled"
                    \/ i \in DOMAIN messages /\ messages'[i] = messages[i]
    BY <2>3 DEF Readable
  <2>4. CASE UNCHANGED <<messages, files>>
    BY <2>4
  <2>5. CASE BeginRun
    BY <2>1, <2>3, <2>5 DEF BeginRun, UserMessage
  <2>6. CASE Answer
    BY <2>1, <2>3, <2>6 DEF Answer, AssistantMessage
  <2>7. CASE RequestTools
    <3>1. PICK calls :
            /\ messages' = Append(messages,
                    AssistantMessage("calls", run, added + 1, 1, calls))
            /\ files' = files
      BY <2>7 DEF RequestTools
    <3> DEFINE a == AssistantMessage("calls", run, added + 1, 1, calls)
    <3>2. a.kind # "spilled"
      BY DEF AssistantMessage
    <3> HIDE DEF a
    <3>3. messages' = Append(messages, a)
      BY <3>1 DEF a
    <3> QED
      BY <2>1, <2>3, <3>1, <3>2, <3>3
  <2>8. CASE Nudge
    <3> DEFINE a == AssistantMessage("garbage", run, added + 1, 1, <<>>)
               u == UserMessage("nudge", run, added + 2, 1)
    <3>1. a.kind # "spilled" /\ u.kind # "spilled"
      BY DEF AssistantMessage, UserMessage
    <3>2. messages' = messages \o <<a, u>> /\ files' = files
      BY <2>8 DEF Nudge
    <3> HIDE DEF a, u
    <3>3. \A i \in DOMAIN messages' :
            \/ messages'[i] = a \/ messages'[i] = u
            \/ i \in DOMAIN messages /\ messages'[i] = messages[i]
      BY <2>1, <3>2
    <3> QED
      BY <2>3, <3>1, <3>2, <3>3
  <2>9. CASE Compact /\ KnownStrategy
    <3>1. PICK c \in CutPoints(messages), cost \in MarkerCosts :
            messages' = Rebuild(messages, c, cost)
      BY <2>9 DEF Compact
    <3>2. c \in 3..Len(messages) /\ cost \in Nat
      BY <2>1, <3>1, MarkerCostsNat DEF CutPoints, TurnStarts
    <3>3. files' = files
      BY <2>9 DEF Compact, Fitted
    <3>4. ASSUME NEW i \in DOMAIN messages' PROVE Readable(messages'[i], files)
      <4>1. /\ Len(messages') = Len(messages) - c + 3 /\ Len(messages) \in Nat
            /\ DOMAIN messages' = 1..(Len(messages) - c + 3)
            /\ messages'[1] = messages[1] /\ messages'[2] = MarkerMessage(c - 2, cost)
            /\ \A k \in 3..Len(messages') :
                    k + c - 3 \in DOMAIN messages /\ messages'[k] = messages[k + c - 3]
        <5> DEFINE g == Rebuild(messages, c, cost)
        <5>1. /\ Len(g) = Len(messages) - c + 3
              /\ DOMAIN g = 1..(Len(messages) - c + 3)
              /\ g[1] = messages[1] /\ g[2] = MarkerMessage(c - 2, cost)
              /\ \A k \in 3..Len(g) : k + c - 3 \in DOMAIN messages /\ g[k] = messages[k + c - 3]
          BY <2>1, <3>2, RebuildShape
        <5> HIDE DEF g
        <5>2. messages' = g
          BY <3>1 DEF g
        <5> QED
          BY <2>1, <5>1, <5>2
      <4>2. Readable(MarkerMessage(c - 2, cost), files)
        BY DEF MarkerMessage, Readable
      <4>3. i = 1 \/ i = 2 \/ i \in 3..Len(messages')
        BY <3>2, <4>1
      <4>4. 1 \in DOMAIN messages
        BY <2>1, <3>2
      <4> QED
        BY <4>1, <4>2, <4>3, <4>4
    <3> QED
      BY <3>3, <3>4
  <2>10. CASE Fits \/ CannotFit \/ Quit \/ ModelFails \/ GiveUpParsing
              \/ ToolEscapes \/ LoopExhausted \/ Exited \/ UNCHANGED vars
              \/ (Compact /\ ~KnownStrategy)
    BY <2>4, <2>10 DEF Fits, CannotFit, Fitted, Quit, ModelFails, GiveUpParsing,
       ToolEscapes, LoopExhausted, Exited, vars, Compact
  <2> QED
    BY <2>2, <2>5, <2>6, <2>7, <2>8, <2>9, <2>10 DEF Next, RunStep
<1>3. S => SpillReadable
  BY DEF SpillReadable, Readable
<1> QED
  BY <1>1, <1>2, <1>3, Invariance, PTL DEF Spec
=============================================================================
