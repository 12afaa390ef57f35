----------------------------- MODULE Rag_proofs -----------------------------
(***************************************************************************)
(* Proofs about search_docs.                                               *)
(*                                                                         *)
(* First split_text, for every document, size and overlap.  What a window  *)
(* leaves behind is an invariant of the loop: every fact that begins       *)
(* before `pos` is in a chunk.  That it suffices rests on two bounds of a  *)
(* window: it ends after the last third begins, and at most `size` after   *)
(* its own start.                                                          *)
(*                                                                         *)
(* Then the index, for any number of threads, processes, chunks, searches  *)
(* and crashes.  A thread changes its own process only, so one lemma says  *)
(* what a step must keep for the rest to be undisturbed, and each action   *)
(* is shown to keep it.                                                    *)
(***************************************************************************)
EXTENDS Rag, TLAPS

\* Where the loop is, and the chunks so far.
SplitState ==
    /\ doc \in Seq(Letters)
    /\ size \in Int
    /\ overlap \in Nat
    /\ pos \in Nat
    /\ chunks \in Seq([start : Nat, from : Nat, to : Nat])
    /\ split \in {"raw", "loop", "done", "refused"}
    /\ split \in {"raw", "refused"} => pos = 0 /\ chunks = <<>>
    /\ split = "loop" => 0 < size /\ overlap < size /\ pos < Len(doc)

\* Facts that begin where the loop has been are in one chunk.
FactsPassed ==
    overlap <= (2 * size) \div 3 =>
        \A i \in 1..Len(doc), j \in 1..Len(doc) :
            /\ i <= Passed
            /\ i <= j /\ j - i < overlap
            /\ doc[i] \notin Spaces /\ doc[j] \notin Spaces
            => \E k \in DOMAIN chunks : Within(chunks[k], i, j)

SplitInv == SplitState /\ Bounded /\ Covered /\ FactsPassed

-----------------------------------------------------------------------------
\* A window is not empty, no longer than asked for, and ends in its last third
\* unless the text does.
LEMMA WindowBounds ==
    ASSUME SplitState, split = "loop",
           NEW end \in 0..Len(doc), WindowEnds(end)
    PROVE  /\ pos < end /\ end <= pos + size
           /\ end < Len(doc) => pos + (2 * size) \div 3 < end
PROOF
<1>1. Len(doc) \in Nat /\ pos < Len(doc) /\ pos \in Nat /\ size \in Int /\ 0 < size
  BY DEF SplitState
<1>2. PICK third \in Nat : third = (2 * size) \div 3 /\ third < size
  BY <1>1
<1>3. /\ Full \in Int /\ Full <= pos + size /\ Full <= Len(doc)
      /\ Full < Len(doc) => Full = pos + size
      /\ pos < Full
  BY <1>1 DEF Full
<1>4. CASE end = Full
  BY <1>1, <1>2, <1>3, <1>4
<1>5. CASE \E r \in DOMAIN Ladder : end \in Breaks(r, LastThird, Full)
  <2>1. PICK r \in DOMAIN Ladder : end \in Breaks(r, LastThird, Full)
    BY <1>5
  <2>2. PICK n \in 1..2 : Len(Ladder[r]) = n
    <3>1. r = 1 \/ r = 2 \/ r = 3 \/ r = 4 \/ r = 5
      BY DEF Ladder
    <3>2. Len(Ladder[1]) = 2
      <4>1. Ladder[1] = <<"\n", "\n">>
        BY DEF Ladder
      <4>2. Len(<<"\n", "\n">>) = 2
        OBVIOUS
      <4>. QED
        BY <4>1, <4>2, Zenon
    <3>3. Len(Ladder[2]) = 1
      <4>1. Ladder[2] = <<"\n">>
        BY DEF Ladder
      <4>2. Len(<<"\n">>) = 1
        OBVIOUS
      <4>. QED
        BY <4>1, <4>2, Zenon
    <3>4. Len(Ladder[3]) = 2
      <4>1. Ladder[3] = <<".", " ">>
        BY DEF Ladder
      <4>2. Len(<<".", " ">>) = 2
        OBVIOUS
      <4>. QED
        BY <4>1, <4>2, Zenon
    <3>5. Len(Ladder[4]) = 2
      <4>1. Ladder[4] = <<",", " ">>
        BY DEF Ladder
      <4>2. Len(<<",", " ">>) = 2
        OBVIOUS
      <4>. QED
        BY <4>1, <4>2, Zenon
    <3>6. Len(Ladder[5]) = 1
      <4>1. Ladder[5] = <<" ">>
        BY DEF Ladder
      <4>2. Len(<<" ">>) = 1
        OBVIOUS
      <4>. QED
        BY <4>1, <4>2, Zenon
    <3>. QED
      BY <3>1, <3>2, <3>3, <3>4, <3>5, <3>6
  <2>3. end <= Full /\ end - n >= pos + third
    BY <2>1, <2>2, <1>2 DEF Breaks, LastThird
  <2>4. pos + third < end
    BY <2>3, <1>1, <1>2
  <2>. QED
    BY <1>1, <1>2, <1>3, <2>3, <2>4
<1>. QED
  BY <1>4, <1>5 DEF WindowEnds

\* A character of a window that is not a space is not stripped.
LEMMA StripsKeeps ==
    ASSUME NEW a \in Nat, NEW b \in Nat, NEW from \in Nat, NEW to \in Nat,
           Strips(a, b, from, to),
           NEW i \in Nat, a < i, i <= b, doc[i] \notin Spaces
    PROVE  from < i /\ i <= to
BY DEF Strips, Blank

-----------------------------------------------------------------------------
LEMMA SplitInitially == ASSUME InitSplit PROVE SplitInv
PROOF
<1>1. SplitState
  BY ChunkingAssumption DEF InitSplit, SplitState
<1>2. Passed = 0
  BY DEF InitSplit, Passed
<1>. QED
  BY <1>1, <1>2 DEF InitSplit, SplitInv, SplitState, Bounded, Covered, FactsPassed

LEMMA SplitRefused == ASSUME SplitInv, SizesRefused PROVE SplitInv'
PROOF
<1>1. Passed' = 0 /\ pos = 0 /\ chunks = <<>> /\ Passed = 0
  BY DEF SplitInv, SplitState, SizesRefused, Passed
<1>. QED
  BY <1>1 DEF SplitInv, SplitState, SizesRefused, Bounded, Covered, FactsPassed

LEMMA SplitNothing == ASSUME SplitInv, NothingToSplit PROVE SplitInv'
PROOF
<1>1. SplitState'
  BY DEF SplitInv, SplitState, NothingToSplit
<1>2. Len(doc') = 0 /\ chunks' = <<>>
  BY DEF SplitInv, SplitState, NothingToSplit
<1>. QED
  BY <1>1, <1>2 DEF SplitInv, Bounded, Covered, FactsPassed

LEMMA SplitStripped == ASSUME SplitInv, StripDocument PROVE SplitInv'
PROOF
<1>1. PICK from \in 0..Len(doc), to \in 0..Len(doc) :
        /\ Strips(0, Len(doc), from, to)
        /\ doc' = SubSeq(doc, from + 1, to)
        /\ \/ /\ to - from <= size
              /\ split' = "done"
              /\ chunks' = <<[start |-> 0, from |-> 0, to |-> to - from]>>
           \/ /\ to - from > size
              /\ split' = "loop"
              /\ UNCHANGED chunks
  BY DEF StripDocument
<1>2. /\ doc \in Seq(Letters) /\ Len(doc) \in Nat /\ from \in Nat /\ to \in Nat
      /\ 0 < size /\ overlap < size /\ size \in Int /\ overlap \in Nat
      /\ pos = 0 /\ chunks = <<>> /\ size' = size /\ overlap' = overlap /\ pos' = pos
  BY DEF SplitInv, SplitState, StripDocument
<1>3. from < to /\ doc[from + 1] \notin Spaces /\ doc[to] \notin Spaces
  BY <1>1 DEF Strips
<1>4. doc' \in Seq(Letters) /\ Len(doc') = to - from
  BY <1>1, <1>2, <1>3
<1>5. doc'[1] = doc[from + 1] /\ doc'[to - from] = doc[to]
  BY <1>1, <1>2, <1>3
<1>6. CASE split' = "done" /\ chunks' = <<[start |-> 0, from |-> 0, to |-> to - from]>> /\ to - from <= size
  <2>1. SplitState'
    BY <1>2, <1>3, <1>4, <1>6 DEF SplitState
  <2>2. /\ DOMAIN chunks' = {1} /\ chunks'[1].start = 0 /\ chunks'[1].from = 0
        /\ chunks'[1].to = Len(doc')
    BY <1>4, <1>6
  <2>3. Bounded'
    BY <1>2, <1>3, <1>4, <1>5, <1>6, <2>2 DEF Bounded
  <2>4. \A i, j \in 1..Len(doc') : Within(chunks'[1], i, j)
    BY <1>4, <2>2, <1>2, <1>3 DEF Within
  <2>5. Covered' /\ FactsPassed'
    BY <2>2, <2>4 DEF Covered, FactsPassed, Within
  <2>. QED
    BY <2>1, <2>3, <2>5 DEF SplitInv
<1>7. CASE split' = "loop" /\ chunks' = chunks /\ to - from > size
  <2>1. SplitState'
    BY <1>2, <1>3, <1>4, <1>7 DEF SplitState
  <2>2. Passed' = 0
    BY <1>2, <1>7 DEF Passed
  <2>. QED
    BY <1>2, <1>7, <2>1, <2>2 DEF SplitInv, Bounded, Covered, FactsPassed
<1>. QED
  BY <1>1, <1>6, <1>7

\* A window keeps what is in chunks, and adds all it has but the spaces at its ends.
LEMMA SplitWindow == ASSUME SplitInv, Window PROVE SplitInv'
PROOF
<1>1. PICK end \in 0..Len(doc) :
        /\ WindowEnds(end)
        /\ \/ Blank(pos, end) /\ UNCHANGED chunks
           \/ \E from \in pos..end, to \in pos..end :
                /\ Strips(pos, end, from, to)
                /\ chunks' = Append(chunks, [start |-> pos, from |-> from, to |-> to])
        /\ \/ end = Len(doc) /\ split' = "done" /\ UNCHANGED pos
           \/ end < Len(doc) /\ pos' = NextPos(end) /\ UNCHANGED split
  BY DEF Window
<1>2. /\ split = "loop" /\ doc \in Seq(Letters) /\ Len(doc) \in Nat /\ pos \in Nat
      /\ size \in Int /\ 0 < size /\ overlap \in Nat /\ overlap < size
      /\ chunks \in Seq([start : Nat, from : Nat, to : Nat])
      /\ doc' = doc /\ size' = size /\ overlap' = overlap /\ Passed = pos
  BY DEF SplitInv, SplitState, Window, Passed
<1>3. /\ pos < end /\ end <= pos + size
      /\ end < Len(doc) => pos + (2 * size) \div 3 < end
  BY <1>1, <1>2, WindowBounds DEF SplitInv
<1>4. \* A chunk is added, and those there were stay where they are.
      /\ chunks' \in Seq([start : Nat, from : Nat, to : Nat])
      /\ \A k \in DOMAIN chunks : k \in DOMAIN chunks' /\ chunks'[k] = chunks[k]
  <2>1. CASE UNCHANGED chunks
    BY <1>2, <2>1
  <2>2. CASE \E from \in pos..end, to \in pos..end :
                chunks' = Append(chunks, [start |-> pos, from |-> from, to |-> to])
    BY <1>2, <2>2
  <2>. QED
    BY <1>1, <2>1, <2>2
<1>5. \* All of the window that is not blank is in one chunk.
      \A i, j \in 1..Len(doc) :
        /\ pos < i /\ i <= j /\ j <= end
        /\ doc[i] \notin Spaces /\ doc[j] \notin Spaces
        => \E k \in DOMAIN chunks' : Within(chunks'[k], i, j)
  <2>. SUFFICES ASSUME NEW i \in 1..Len(doc), NEW j \in 1..Len(doc),
                       pos < i, i <= j, j <= end,
                       doc[i] \notin Spaces, doc[j] \notin Spaces
                PROVE  \E k \in DOMAIN chunks' : Within(chunks'[k], i, j)
    OBVIOUS
  <2>1. ~Blank(pos, end)
    BY <1>2 DEF Blank
  <2>2. PICK from \in pos..end, to \in pos..end :
            /\ Strips(pos, end, from, to)
            /\ chunks' = Append(chunks, [start |-> pos, from |-> from, to |-> to])
    BY <1>1, <2>1
  <2>3. /\ from \in Nat /\ to \in Nat /\ end \in Nat
        /\ i \in Nat /\ j \in Nat /\ pos < j /\ i <= end
    BY <1>2
  <2>4. from < i
    BY <1>2, <2>2, <2>3, StripsKeeps
  <2>5. j <= to
    BY <1>2, <2>2, <2>3, StripsKeeps
  <2>6. Len(chunks) + 1 \in DOMAIN chunks'
        /\ chunks'[Len(chunks) + 1] = [start |-> pos, from |-> from, to |-> to]
    BY <1>2, <2>2
  <2>7. Within(chunks'[Len(chunks) + 1], i, j)
    BY <2>4, <2>5, <2>6 DEF Within
  <2>. QED
    BY <2>6, <2>7
<1>6. SplitState'
  <2>1. CASE end = Len(doc) /\ split' = "done" /\ UNCHANGED pos
    BY <1>2, <1>4, <2>1 DEF SplitState
  <2>2. CASE end < Len(doc) /\ pos' = NextPos(end) /\ UNCHANGED split
    <3>1. pos' \in Nat /\ pos' < Len(doc)
      BY <1>2, <1>3, <2>2 DEF NextPos
    <3>. QED
      BY <1>2, <1>4, <2>2, <3>1 DEF SplitState
  <2>. QED
    BY <1>1, <2>1, <2>2
<1>7. Bounded'
  <2>1. CASE UNCHANGED chunks
    BY <1>2, <2>1 DEF Bounded, SplitInv
  <2>2. CASE \E from \in pos..end, to \in pos..end :
                /\ Strips(pos, end, from, to)
                /\ chunks' = Append(chunks, [start |-> pos, from |-> from, to |-> to])
    <3>1. PICK from \in pos..end, to \in pos..end :
                /\ Strips(pos, end, from, to)
                /\ chunks' = Append(chunks, [start |-> pos, from |-> from, to |-> to])
      BY <2>2
    <3>. SUFFICES ASSUME NEW k \in DOMAIN chunks'
                  PROVE  /\ 0 < chunks'[k].to - chunks'[k].from
                         /\ chunks'[k].to - chunks'[k].from <= size
                         /\ chunks'[k].start <= chunks'[k].from
                         /\ chunks'[k].to <= Len(doc)
                         /\ doc[chunks'[k].from + 1] \notin Spaces
                         /\ doc[chunks'[k].to] \notin Spaces
      BY <1>2 DEF Bounded
    <3>2. CASE k \in DOMAIN chunks
      BY <1>4, <3>2 DEF Bounded, SplitInv
    <3>3. CASE k \notin DOMAIN chunks
      <4>1. chunks'[k] = [start |-> pos, from |-> from, to |-> to]
        BY <1>2, <3>1, <3>3
      <4>2. from < to /\ doc[from + 1] \notin Spaces /\ doc[to] \notin Spaces
        BY <3>1 DEF Strips
      <4>. QED
        BY <1>2, <1>3, <4>1, <4>2
    <3>. QED
      BY <3>2, <3>3
  <2>. QED
    BY <1>1, <2>1, <2>2
<1>8. Passed' <= end /\ Passed' \in Nat
  <2>1. CASE end = Len(doc) /\ split' = "done" /\ UNCHANGED pos
    BY <1>2, <2>1 DEF Passed
  <2>2. CASE end < Len(doc) /\ pos' = NextPos(end) /\ UNCHANGED split
    BY <1>2, <1>3, <2>2 DEF Passed, NextPos
  <2>. QED
    BY <1>1, <2>1, <2>2
<1>9. Covered'
  <2>. SUFFICES ASSUME NEW i \in 1..Len(doc), i <= Passed', doc[i] \notin Spaces
                PROVE  \E k \in DOMAIN chunks' : Within(chunks'[k], i, i)
    BY <1>2 DEF Covered
  <2>1. CASE i <= pos
    <3>1. PICK k \in DOMAIN chunks : Within(chunks[k], i, i)
      BY <1>2, <2>1 DEF Covered, SplitInv
    <3>. QED
      BY <1>4, <3>1
  <2>2. CASE pos < i
    BY <1>2, <1>5, <1>8, <2>2
  <2>. QED
    BY <1>2, <2>1, <2>2
<1>10. FactsPassed'
  <2>. SUFFICES ASSUME overlap <= (2 * size) \div 3,
                       NEW i \in 1..Len(doc), NEW j \in 1..Len(doc),
                       i <= Passed', i <= j, j - i < overlap,
                       doc[i] \notin Spaces, doc[j] \notin Spaces
                PROVE  \E k \in DOMAIN chunks' : Within(chunks'[k], i, j)
    BY <1>2 DEF FactsPassed
  <2>1. CASE i <= pos
    <3>1. PICK k \in DOMAIN chunks : Within(chunks[k], i, j)
      BY <1>2, <2>1 DEF FactsPassed, SplitInv
    <3>. QED
      BY <1>4, <3>1
  <2>2. CASE pos < i
    <3>1. j <= end
      <4>1. CASE end = Len(doc)
        BY <4>1, <1>2
      <4>2. CASE end < Len(doc)
        <5>1. Passed' = NextPos(end)
          BY <1>1, <1>2, <4>2 DEF Passed
        <5>2. overlap < end - pos
          BY <1>2, <1>3, <4>2
        <5>3. Passed' = end - overlap
          BY <1>2, <5>1, <5>2 DEF NextPos
        <5>. QED
          BY <1>2, <5>3
      <4>. QED
        BY <1>2, <4>1, <4>2
    <3>. QED
      BY <1>5, <2>2, <3>1
  <2>. QED
    BY <1>2, <2>1, <2>2
<1>. QED
  BY <1>6, <1>7, <1>9, <1>10 DEF SplitInv

-----------------------------------------------------------------------------
\* What the loop keeps, for every corpus, size and overlap (chunking.py:127-173).
THEOREM SplitInvariance == SpecSplit => []SplitInv
PROOF
<1>1. InitSplit => SplitInv
  BY SplitInitially
<1>2. SplitInv /\ [Split]_splitter => SplitInv'
  <2>. SUFFICES ASSUME SplitInv, [Split]_splitter
                PROVE  SplitInv'
    OBVIOUS
  <2>1. CASE UNCHANGED splitter
    BY <2>1 DEF splitter, SplitInv, SplitState, Bounded, Covered, FactsPassed, Passed
  <2>. QED
    BY <2>1, SplitRefused, SplitNothing, SplitStripped, SplitWindow DEF Split
<1>. QED
  BY <1>1, <1>2, PTL DEF SpecSplit

\* Chunks are neither empty nor longer than was asked for (chunking.py:148-173).
THEOREM ChunksBounded == SpecSplit => []Bounded
  BY SplitInvariance, PTL DEF SplitInv

\* No character of a document is lost to retrieval (chunking.py:148-173).
THEOREM NothingLost == SpecSplit => []Covered
  BY SplitInvariance, PTL DEF SplitInv

\* A fact no longer than the overlap is whole in one chunk (chunking.py:52-55,
\* 148-171).
THEOREM NoFactCut == SpecSplit => []FactsWhole
PROOF
<1>1. SplitInv => FactsWhole
  BY DEF SplitInv, SplitState, FactsPassed, FactsWhole, Passed
<1>. QED
  BY <1>1, SplitInvariance, PTL

-----------------------------------------------------------------------------
(***************************************************************************)
(* The index.                                                              *)
(***************************************************************************)


Keys == 0..MaxParts

\* The steps of a search that need the index of the process.
Asking == {"query", "batch?", "save?", "saving?", "ask"}

RagTypes ==
    /\ kind \in [Processes -> {"numpy", "qdrant"}]
    /\ lock \in [Processes -> Workers \union {Nobody}]
    /\ index \in [Processes -> BOOLEAN]
    /\ mem \in [Processes -> SUBSET Keys]
    /\ stored \in [Processes -> SUBSET Keys]
    /\ at \in [Workers -> Places]
    /\ todo \in [Workers -> SUBSET Keys]
    /\ cache \in {NoFile, Torn} \union SUBSET Keys

\* Nothing is searched before the corpus is split.
SplitFirst ==
    /\ parts \in -1..MaxParts
    /\ split = "loaded" => parts >= 0
    /\ split # "loaded" => parts = -1 /\ SplitInv
    /\ parts = -1 =>
        /\ \A w \in Workers : at[w] = "idle"
        /\ \A p \in Processes : stored[p] = {} /\ ~index[p]
        /\ collection = NoCollection

\* A lock that is held is held by a thread of the process that builds.
LockHeld(p) ==
    lock[p] # Nobody => Process(lock[p]) = p /\ at[lock[p]] \in Building

\* Who builds has the lock and no index; who asks has the index; and the keys a
\* thread relies on are in memory or on its list.
ThreadInv(w) ==
    /\ at[w] \in Building => lock[Process(w)] = w /\ ~index[Process(w)]
    /\ at[w] \in Building \ {"load"} => parts >= 1
    /\ at[w] \in Asking => index[Process(w)]
    /\ at[w] = "batch" => Corpus \subseteq mem[Process(w)] \union todo[w]
    /\ at[w] \in {"save", "saving", "add"} => Corpus \subseteq mem[Process(w)]
    /\ at[w] = "batch?" => 0 \in mem[Process(w)] \union todo[w]
    /\ at[w] \in {"save?", "saving?", "ask"} => 0 \in mem[Process(w)]

StoreInv(p) ==
    /\ stored[p] \in {{}, Corpus}
    /\ index[p] => stored[p] = Corpus /\ parts >= 1

CollectionInv ==
    collection # NoCollection =>
        /\ collection \in [maker : Processes, points : SUBSET Corpus]
        /\ \A p \in Processes :
            index[p] /\ kind[p] = "qdrant" /\ collection.maker = p
                => collection.points = Corpus

RagInv ==
    /\ RagTypes
    /\ SplitFirst
    /\ \A p \in Processes : LockHeld(p) /\ StoreInv(p)
    /\ \A w \in Workers : ThreadInv(w)
    /\ CollectionInv

-----------------------------------------------------------------------------
\* What a step of a thread leaves alone: other threads, other processes, and what
\* a thread that has the index or the lock of this process relies on.
Keeps(w) ==
    /\ UNCHANGED <<splitter, parts, kind>>
    /\ parts >= 0
    /\ RagTypes'
    /\ \A v \in Workers \ {w} : at'[v] = at[v] /\ todo'[v] = todo[v]
    /\ \A p \in Processes \ {Process(w)} :
        /\ lock'[p] = lock[p] /\ index'[p] = index[p]
        /\ mem'[p] = mem[p] /\ stored'[p] = stored[p]
    /\ lock[Process(w)] \notin {Nobody, w} => lock'[Process(w)] = lock[Process(w)]
    /\ index[Process(w)] \/ lock[Process(w)] \notin {Nobody, w} =>
        /\ index'[Process(w)] = index[Process(w)]
        /\ mem[Process(w)] \subseteq mem'[Process(w)]

LEMMA StepKeeps ==
    ASSUME RagInv, NEW w \in Workers, Keeps(w),
           LockHeld(Process(w))', StoreInv(Process(w))', ThreadInv(w)', CollectionInv'
    PROVE  RagInv'
PROOF
<1>1. /\ parts' = parts /\ parts >= 0 /\ parts \in -1..MaxParts
      /\ Process(w) \in Processes /\ Corpus' = Corpus
  BY RagAssumption DEF Keeps, RagInv, SplitFirst, Corpus
<1>2. SplitFirst'
  <2>1. split' = split /\ split = "loaded"
    BY <1>1 DEF Keeps, RagInv, SplitFirst, splitter
  <2>. QED
    BY <1>1, <2>1 DEF SplitFirst
<1>3. ASSUME NEW p \in Processes PROVE LockHeld(p)' /\ StoreInv(p)'
  <2>1. CASE p = Process(w)
    BY <2>1
  <2>2. CASE p # Process(w)
    <3>1. lock'[p] = lock[p] /\ index'[p] = index[p] /\ stored'[p] = stored[p]
      BY <2>2 DEF Keeps
    <3>2. lock[p] # Nobody => lock[p] \in Workers \ {w} /\ Process(lock[p]) = p
      BY <2>2 DEF RagInv, RagTypes, LockHeld
    <3>3. LockHeld(p)'
      BY <3>1, <3>2 DEF Keeps, RagInv, LockHeld
    <3>. QED
      BY <1>1, <3>1, <3>3 DEF RagInv, StoreInv
  <2>. QED
    BY <2>1, <2>2
<1>4. ASSUME NEW v \in Workers PROVE ThreadInv(v)'
  <2>1. CASE v = w
    BY <2>1
  <2>2. CASE v # w
    <3>1. at'[v] = at[v] /\ todo'[v] = todo[v] /\ ThreadInv(v)
          /\ Process(v) \in Processes /\ v # Nobody
      BY <2>2, RagAssumption DEF Keeps, RagInv
    <3>2. CASE at[v] \in Building
      <4>1. lock[Process(v)] = v /\ ~index[Process(v)]
        BY <3>1, <3>2 DEF ThreadInv
      <4>2. /\ lock'[Process(v)] = lock[Process(v)]
            /\ index'[Process(v)] = index[Process(v)]
            /\ mem[Process(v)] \subseteq mem'[Process(v)]
        BY <2>2, <3>1, <4>1 DEF Keeps
      <4>3. at[v] \notin Asking
        BY <3>2 DEF Building, Asking
      <4>. QED
        BY <1>1, <3>1, <4>1, <4>2, <4>3 DEF ThreadInv, Asking
    <3>3. CASE at[v] \in Asking
      <4>1. index[Process(v)]
        BY <3>1, <3>3 DEF ThreadInv
      <4>2. /\ index'[Process(v)] = index[Process(v)]
            /\ mem[Process(v)] \subseteq mem'[Process(v)]
        BY <3>1, <4>1 DEF Keeps
      <4>3. at[v] \notin Building
        BY <3>3 DEF Building, Asking
      <4>. QED
        BY <1>1, <3>1, <4>1, <4>2, <4>3 DEF ThreadInv, Building
    <3>4. CASE at[v] \notin Building \union Asking
      BY <3>1, <3>4 DEF ThreadInv, Building, Asking
    <3>. QED
      BY <3>2, <3>3, <3>4
  <2>. QED
    BY <2>1, <2>2
<1>. QED
  BY <1>2, <1>3, <1>4 DEF RagInv, Keeps

-----------------------------------------------------------------------------
\* What the steps below have in common: the thread, its process and their types.
LEMMA ThreadFacts ==
    ASSUME RagInv, NEW w \in Workers
    PROVE  /\ RagTypes /\ ThreadInv(w) /\ CollectionInv
           /\ LockHeld(Process(w)) /\ StoreInv(Process(w))
           /\ Process(w) \in Processes /\ w # Nobody /\ Corpus \subseteq Keys
           /\ at[w] # "idle" => parts >= 0
           /\ parts \in Int
BY RagAssumption DEF RagInv, SplitFirst, Corpus, Keys

\* With index and collection as they were, so is what is said of them.
LEMMA CollectionKept ==
    ASSUME CollectionInv, UNCHANGED <<collection, index, kind, parts>>
    PROVE  CollectionInv'
BY DEF CollectionInv, Corpus

LEMMA MarkOfBuilder ==
    ASSUME NEW w \in Workers, at[w] \in Building,
           NEW place \in {"batch", "save", "saving", "add"}
    PROVE  Mark(w, place) = place
BY DEF Mark

LEMMA MarkOfAsker ==
    ASSUME NEW w \in Workers, at[w] \notin Building
    PROVE  /\ Mark(w, "batch") = "batch?" /\ Mark(w, "save") = "save?"
           /\ Mark(w, "saving") = "saving?" /\ Mark(w, "add") = "ask"
BY DEF Mark

\* A thread that begins to search, or finds the index, or takes the lock.
LEMMA BeginKeeps ==
    ASSUME RagInv, NEW w \in Workers, Begin(w)
    PROVE  RagInv'
PROOF
<1>1. /\ at[w] = "idle" /\ at' = [at EXCEPT ![w] = "lock"] /\ parts >= 0
      /\ UNCHANGED <<splitter, parts, process, todo, service>>
  BY DEF Begin, Search, Go
<1>2. RagTypes /\ LockHeld(Process(w)) /\ StoreInv(Process(w)) /\ CollectionInv
      /\ Process(w) \in Processes
  BY ThreadFacts
<1>3. at'[w] = "lock" /\ \A v \in Workers \ {w} : at'[v] = at[v]
  BY <1>1, <1>2 DEF RagTypes
<1>4. RagTypes'
  <2>1. at' \in [Workers -> Places]
    BY <1>1, <1>2 DEF RagTypes, Places
  <2>. QED
    BY <1>1, <1>2, <2>1 DEF RagTypes, process, service
<1>5. Keeps(w)
  BY <1>1, <1>3, <1>4 DEF Keeps, process
<1>6. LockHeld(Process(w))'
  <2>1. lock[Process(w)] # Nobody => lock[Process(w)] \in Workers \ {w}
    BY <1>1, <1>2 DEF LockHeld, RagTypes, Building
  <2>. QED
    BY <1>1, <1>2, <1>3, <2>1 DEF LockHeld, process
<1>7. StoreInv(Process(w))' /\ CollectionInv'
  BY <1>1, <1>2, CollectionKept DEF StoreInv, Corpus, process, service
<1>8. ThreadInv(w)'
  BY <1>3 DEF ThreadInv, Building, Asking
<1>. QED
  BY <1>5, <1>6, <1>7, <1>8, StepKeeps

LEMMA GetIndexKeeps ==
    ASSUME RagInv, NEW w \in Workers, GetIndex(w), UNCHANGED <<splitter, parts, crashes>>
    PROVE  RagInv'
PROOF
<1>. DEFINE P == Process(w)
<1>1. /\ RagTypes /\ ThreadInv(w) /\ LockHeld(P) /\ StoreInv(P) /\ CollectionInv
      /\ P \in Processes /\ w # Nobody /\ parts >= 0
  BY ThreadFacts DEF GetIndex
<1>2. /\ at[w] = "lock" /\ lock[P] = Nobody
      /\ UNCHANGED <<kind, index, mem, stored, todo, left, service>>
  BY DEF GetIndex
<1>3. StoreInv(P)' /\ CollectionInv'
  BY <1>1, <1>2, CollectionKept DEF StoreInv, Corpus, service
<1>4. CASE index[P]
  <2>1. at' = [at EXCEPT ![w] = "query"] /\ lock' = lock
    BY <1>4 DEF GetIndex, Go
  <2>2. at'[w] = "query" /\ \A v \in Workers \ {w} : at'[v] = at[v]
    BY <1>1, <2>1 DEF RagTypes
  <2>3. RagTypes'
    <3>1. at' \in [Workers -> Places]
      BY <1>1, <2>1 DEF RagTypes, Places
    <3>. QED
      BY <1>1, <1>2, <2>1, <3>1 DEF RagTypes, service
  <2>4. Keeps(w)
    BY <1>1, <1>2, <2>1, <2>2, <2>3 DEF Keeps
  <2>5. LockHeld(P)'
    BY <1>2, <2>1 DEF LockHeld
  <2>6. ThreadInv(w)'
    BY <1>2, <1>4, <2>2 DEF ThreadInv, Building, Asking
  <2>. QED
    BY <1>3, <2>4, <2>5, <2>6, StepKeeps
<1>5. CASE ~index[P]
  <2>1. at' = [at EXCEPT ![w] = "load"] /\ lock' = [lock EXCEPT ![P] = w]
    BY <1>5 DEF GetIndex, Go
  <2>2. at'[w] = "load" /\ \A v \in Workers \ {w} : at'[v] = at[v]
    BY <1>1, <2>1 DEF RagTypes
  <2>3. lock'[P] = w /\ \A p \in Processes \ {P} : lock'[p] = lock[p]
    BY <1>1, <2>1 DEF RagTypes
  <2>4. RagTypes'
    <3>1. at' \in [Workers -> Places]
      BY <1>1, <2>1 DEF RagTypes, Places, Building
    <3>2. lock' \in [Processes -> Workers \union {Nobody}]
      BY <1>1, <2>1 DEF RagTypes
    <3>. QED
      BY <1>1, <1>2, <3>1, <3>2 DEF RagTypes, service
  <2>5. Keeps(w)
    BY <1>1, <1>2, <2>2, <2>3, <2>4 DEF Keeps
  <2>6. LockHeld(P)'
    BY <2>2, <2>3 DEF LockHeld, Building
  <2>7. ThreadInv(w)'
    BY <1>2, <1>5, <2>2, <2>3 DEF ThreadInv, Building, Asking
  <2>. QED
    BY <1>3, <2>5, <2>6, <2>7, StepKeeps
<1>. QED
  BY <1>4, <1>5

-----------------------------------------------------------------------------
\* A search that fails lets go of the lock, whether or not it held it.
LEMMA RaiseKeeps ==
    ASSUME RagInv, NEW w \in Workers, at[w] # "idle", Raise(w), CollectionInv',
           UNCHANGED <<splitter, parts, kind, index, mem, stored, cache>>
    PROVE  RagInv'
PROOF
<1>. DEFINE P == Process(w)
<1>1. /\ RagTypes /\ ThreadInv(w) /\ LockHeld(P) /\ StoreInv(P)
      /\ P \in Processes /\ w # Nobody /\ parts >= 0
  BY ThreadFacts
<1>2. /\ at' = [at EXCEPT ![w] = "idle"] /\ todo' = [todo EXCEPT ![w] = {}]
      /\ lock' = [p \in Processes |-> IF lock[p] = w THEN Nobody ELSE lock[p]]
  BY DEF Raise, Go, Release
<1>3. /\ at'[w] = "idle"
      /\ \A v \in Workers \ {w} : at'[v] = at[v] /\ todo'[v] = todo[v]
  BY <1>1, <1>2 DEF RagTypes
<1>4. \A p \in Processes \ {P} : lock'[p] = lock[p]
  <2>. SUFFICES ASSUME NEW p \in Processes \ {P} PROVE lock'[p] = lock[p]
    OBVIOUS
  <2>1. lock[p] # w
    BY <1>1 DEF RagInv, LockHeld
  <2>. QED
    BY <1>2, <2>1
<1>5. RagTypes'
  <2>1. at' \in [Workers -> Places]
    BY <1>1, <1>2 DEF RagTypes, Places
  <2>2. todo' \in [Workers -> SUBSET Keys]
    BY <1>1, <1>2 DEF RagTypes
  <2>3. lock' \in [Processes -> Workers \union {Nobody}]
    BY <1>1, <1>2 DEF RagTypes
  <2>. QED
    BY <1>1, <2>1, <2>2, <2>3 DEF RagTypes
<1>6. lock[P] \notin {Nobody, w} => lock'[P] = lock[P]
  BY <1>1, <1>2
<1>7. Keeps(w)
  BY <1>1, <1>3, <1>4, <1>5, <1>6 DEF Keeps
<1>8. LockHeld(P)'
  <2>1. lock'[P] # Nobody => lock'[P] = lock[P] /\ lock[P] \in Workers \ {w}
    BY <1>1, <1>2 DEF RagTypes
  <2>. QED
    BY <1>1, <1>3, <2>1 DEF LockHeld
<1>9. StoreInv(P)'
  BY <1>1 DEF StoreInv, Corpus
<1>10. ThreadInv(w)'
  BY <1>3 DEF ThreadInv, Building, Asking
<1>. QED
  BY <1>7, <1>8, <1>9, <1>10, StepKeeps

\* A server that did what it was asked, or not, holds what the collection may.
LEMMA RemoteFailsKeeps ==
    ASSUME RagInv, NEW w \in Workers, RemoteFails(w), UNCHANGED <<splitter, parts, crashes>>
    PROVE  RagInv'
PROOF
<1>. DEFINE P == Process(w)
<1>1. /\ RagTypes /\ ThreadInv(w) /\ CollectionInv /\ P \in Processes
      /\ parts \in Int
  BY ThreadFacts
<1>2. /\ at[w] # "idle" /\ Raise(w)
      /\ UNCHANGED <<kind, index, mem, stored, cache>>
  BY DEF RemoteFails
<1>3. \/ collection' = collection
      \/ collection' = NoCollection
      \/ at[w] = "create" /\ collection' = NewCollection(w)
      \/ at[w] = "add" /\ collection # NoCollection /\ collection' = Upserted
  BY DEF RemoteFails
<1>4. CollectionInv'
  <2>1. CASE collection' = collection
    BY <1>1, <1>2, <2>1, CollectionKept
  <2>2. CASE collection' = NoCollection
    BY <2>2 DEF CollectionInv
  <2>3. CASE at[w] = "create" /\ collection' = NewCollection(w)
    <3>1. ~index'[P]
      BY <1>1, <1>2, <2>3 DEF ThreadInv, Building
    <3>2. collection' = [maker |-> P, points |-> {}]
      BY <2>3 DEF NewCollection
    <3>. QED
      BY <1>1, <3>1, <3>2 DEF CollectionInv
  <2>4. CASE at[w] = "add" /\ collection # NoCollection /\ collection' = Upserted
    <3>1. collection \in [maker : Processes, points : SUBSET Corpus]
      BY <1>1, <2>4 DEF CollectionInv
    <3>2. /\ collection' \in [maker : Processes, points : SUBSET Corpus]
          /\ collection'.points = Corpus
      BY <2>4, <3>1 DEF Upserted
    <3>. QED
      BY <3>2 DEF CollectionInv, Corpus
  <2>. QED
    BY <1>3, <2>1, <2>2, <2>3, <2>4
<1>. QED
  BY <1>2, <1>4, RaiseKeeps

-----------------------------------------------------------------------------
\* Who builds disturbs nobody else: the others neither hold the lock nor have the
\* index.
LEMMA BuilderKeeps ==
    ASSUME RagInv, NEW w \in Workers, at[w] \in Building,
           UNCHANGED <<splitter, parts, kind>>, RagTypes',
           \A v \in Workers \ {w} : at'[v] = at[v] /\ todo'[v] = todo[v],
           \A p \in Processes \ {Process(w)} :
                /\ lock'[p] = lock[p] /\ index'[p] = index[p]
                /\ mem'[p] = mem[p] /\ stored'[p] = stored[p]
    PROVE  Keeps(w)
PROOF
<1>1. lock[Process(w)] = w /\ ~index[Process(w)] /\ parts >= 0
  <2>1. ThreadInv(w) /\ (at[w] # "idle" => parts >= 0)
    BY ThreadFacts
  <2>. QED
    BY <2>1 DEF ThreadInv, Building
<1>. QED
  BY <1>1 DEF Keeps

LEMMA LoadCorpusKeeps ==
    ASSUME RagInv, NEW w \in Workers, LoadCorpus(w), UNCHANGED <<splitter, parts, crashes>>
    PROVE  RagInv'
PROOF
<1>. DEFINE P == Process(w)
<1>1. /\ RagTypes /\ ThreadInv(w) /\ CollectionInv /\ LockHeld(P) /\ P \in Processes
      /\ parts \in Int /\ parts >= 0 /\ w # Nobody
  BY ThreadFacts DEF LoadCorpus
<1>2. /\ at[w] = "load" /\ UNCHANGED <<kind, index, left, service>>
      /\ lock[P] = w /\ ~index[P]
  BY <1>1 DEF LoadCorpus, ThreadInv, Building
<1>3. CollectionInv'
  BY <1>1, <1>2, CollectionKept DEF service
<1>4. CASE parts = 0
  <2>1. Raise(w) /\ UNCHANGED <<mem, stored>>
    BY <1>4 DEF LoadCorpus
  <2>. QED
    BY <1>2, <1>3, <2>1, RaiseKeeps DEF service
<1>5. CASE parts # 0
  <2>. DEFINE held == IF cache \in {NoFile, Torn} THEN {} ELSE cache
  <2>1. PICK place \in {"exists", "embed"} :
            /\ at' = [at EXCEPT ![w] = place]
            /\ mem' = [mem EXCEPT ![P] = held]
            /\ stored' = [stored EXCEPT ![P] = {}]
            /\ UNCHANGED <<lock, todo>>
    BY <1>5 DEF LoadCorpus, Go
  <2>2. held \in SUBSET Keys
    BY <1>1, <2>1 DEF RagTypes
  <2>3. /\ at'[w] = place /\ stored'[P] = {}
        /\ \A v \in Workers \ {w} : at'[v] = at[v]
        /\ \A p \in Processes \ {P} : mem'[p] = mem[p] /\ stored'[p] = stored[p]
    BY <1>1, <2>1 DEF RagTypes
  <2>4. RagTypes'
    <3>1. at' \in [Workers -> Places]
      BY <1>1, <2>1 DEF RagTypes, Places, Building
    <3>2. mem' \in [Processes -> SUBSET Keys] /\ stored' \in [Processes -> SUBSET Keys]
      BY <1>1, <2>1, <2>2 DEF RagTypes
    <3>. QED
      BY <1>1, <1>2, <2>1, <3>1, <3>2 DEF RagTypes, service
  <2>5. at[w] \in Building
    BY <1>2 DEF Building
  <2>6. Keeps(w)
    BY <1>2, <2>1, <2>3, <2>4, <2>5, BuilderKeeps
  <2>7. LockHeld(P)'
    BY <1>2, <2>1, <2>3 DEF LockHeld, Building
  <2>8. StoreInv(P)'
    BY <1>2, <2>3 DEF StoreInv
  <2>9. ThreadInv(w)'
    BY <1>1, <1>2, <1>5, <2>1, <2>3 DEF ThreadInv, Building, Asking
  <2>. QED
    BY <1>3, <2>6, <2>7, <2>8, <2>9, StepKeeps
<1>. QED
  BY <1>4, <1>5

\* The steps of the Qdrant store that go on: only the collection may be another.
LEMMA ServerKeeps ==
    ASSUME RagInv, NEW w \in Workers, at[w] \in {"exists", "reset", "create"},
           NEW place \in {"reset", "create", "embed"},
           at' = [at EXCEPT ![w] = place], CollectionInv',
           UNCHANGED <<splitter, parts, process, todo, cache>>
    PROVE  RagInv'
PROOF
<1>. DEFINE P == Process(w)
<1>1. /\ RagTypes /\ ThreadInv(w) /\ LockHeld(P) /\ StoreInv(P) /\ P \in Processes
  BY ThreadFacts
<1>2. at'[w] = place /\ \A v \in Workers \ {w} : at'[v] = at[v]
  BY <1>1 DEF RagTypes
<1>3. RagTypes'
  <2>1. at' \in [Workers -> Places]
    BY <1>1 DEF RagTypes, Places, Building
  <2>. QED
    BY <1>1, <2>1 DEF RagTypes, process
<1>4. at[w] \in Building /\ place \in Building /\ at[w] # "load" /\ place \notin Asking
  BY DEF Building, Asking
<1>5. Keeps(w)
  BY <1>2, <1>3, <1>4, BuilderKeeps DEF process
<1>6. LockHeld(P)'
  BY <1>1, <1>2, <1>4 DEF LockHeld, ThreadInv, process
<1>7. StoreInv(P)'
  BY <1>1 DEF StoreInv, Corpus, process
<1>8. ThreadInv(w)'
  <2>1. /\ lock'[P] = w /\ ~index'[P] /\ parts' >= 1
    BY <1>1, <1>4 DEF ThreadInv, process
  <2>. QED
    BY <1>2, <1>4, <2>1 DEF ThreadInv
<1>. QED
  BY <1>5, <1>6, <1>7, <1>8, StepKeeps

LEMMA CollectionExistsKeeps ==
    ASSUME RagInv, NEW w \in Workers, CollectionExists(w),
           UNCHANGED <<splitter, parts, crashes>>
    PROVE  RagInv'
PROOF
<1>1. PICK place \in {"reset", "create"} : at' = [at EXCEPT ![w] = place]
  BY DEF CollectionExists, Go
<1>2. at[w] = "exists" /\ UNCHANGED <<process, todo, left, service>>
  BY DEF CollectionExists
<1>3. CollectionInv'
  BY <1>2, ThreadFacts, CollectionKept DEF process, service
<1>. QED
  BY <1>1, <1>2, <1>3, ServerKeeps DEF service

LEMMA DeleteCollectionKeeps ==
    ASSUME RagInv, NEW w \in Workers, DeleteCollection(w),
           UNCHANGED <<splitter, parts, crashes>>
    PROVE  RagInv'
PROOF
<1>1. /\ at[w] = "reset" /\ at' = [at EXCEPT ![w] = "create"]
      /\ collection' = NoCollection /\ UNCHANGED <<process, todo, left, cache>>
  BY DEF DeleteCollection, Go
<1>2. CollectionInv'
  BY <1>1 DEF CollectionInv
<1>. QED
  BY <1>1, <1>2, ServerKeeps

LEMMA CreateCollectionKeeps ==
    ASSUME RagInv, NEW w \in Workers, CreateCollection(w),
           UNCHANGED <<splitter, parts, crashes>>
    PROVE  RagInv'
PROOF
<1>1. RagTypes /\ ThreadInv(w) /\ CollectionInv /\ Process(w) \in Processes
  BY ThreadFacts
<1>2. at[w] = "create" /\ UNCHANGED <<kind, index, mem, stored, left, cache>>
  BY DEF CreateCollection
<1>3. CASE collection = NoCollection
  <2>1. /\ collection' = [maker |-> Process(w), points |-> {}]
        /\ at' = [at EXCEPT ![w] = "embed"] /\ UNCHANGED <<todo, lock>>
    BY <1>3 DEF CreateCollection, NewCollection, Go
  <2>2. ~index'[Process(w)]
    BY <1>1, <1>2 DEF ThreadInv, Building
  <2>3. CollectionInv'
    BY <1>1, <2>1, <2>2 DEF CollectionInv
  <2>. QED
    BY <1>2, <2>1, <2>3, ServerKeeps DEF process
<1>4. CASE collection # NoCollection
  <2>1. Raise(w) /\ UNCHANGED collection
    BY <1>4 DEF CreateCollection
  <2>2. CollectionInv'
    BY <1>1, <1>2, <2>1, CollectionKept
  <2>. QED
    BY <1>2, <2>1, <2>2, RaiseKeeps
<1>. QED
  BY <1>3, <1>4

-----------------------------------------------------------------------------
\* The keys a thread relies on.
KeysReady(w) ==
    /\ at[w] = "batch" => Corpus \subseteq mem[Process(w)] \union todo[w]
    /\ at[w] \in {"save", "saving", "add"} => Corpus \subseteq mem[Process(w)]
    /\ at[w] = "batch?" => 0 \in mem[Process(w)] \union todo[w]
    /\ at[w] \in {"save?", "saving?", "ask"} => 0 \in mem[Process(w)]

\* embed() forgets no vector, and changes neither lock nor index nor store.
LEMMA EmbedKeeps ==
    ASSUME RagInv, NEW w \in Workers, NEW place, NEW keys, NEW vectors,
           at[w] \in (Building \ {"load"}) \union Asking,
           place \in IF at[w] \in Building THEN Building \ {"load"} ELSE Asking,
           keys \subseteq Keys, vectors \subseteq Keys, mem[Process(w)] \subseteq vectors,
           at' = [at EXCEPT ![w] = place],
           todo' = [todo EXCEPT ![w] = keys],
           mem' = [mem EXCEPT ![Process(w)] = vectors],
           cache' \in {NoFile, Torn} \union SUBSET Keys,
           UNCHANGED <<splitter, parts, kind, lock, index, stored, collection>>,
           KeysReady(w)'
    PROVE  RagInv'
PROOF
<1>. DEFINE P == Process(w)
<1>1. /\ RagTypes /\ ThreadInv(w) /\ CollectionInv /\ LockHeld(P) /\ StoreInv(P)
      /\ P \in Processes /\ parts >= 0
  BY ThreadFacts DEF Building, Asking
<1>2. /\ at'[w] = place /\ mem'[P] = vectors
      /\ \A v \in Workers \ {w} : at'[v] = at[v] /\ todo'[v] = todo[v]
      /\ \A p \in Processes \ {P} : mem'[p] = mem[p]
  BY <1>1 DEF RagTypes
<1>3. RagTypes'
  <2>1. at' \in [Workers -> Places]
    <3>1. place \in Places
      BY DEF Places, Asking
    <3>. QED
      BY <1>1, <3>1 DEF RagTypes
  <2>2. mem' \in [Processes -> SUBSET Keys] /\ todo' \in [Workers -> SUBSET Keys]
    BY <1>1 DEF RagTypes
  <2>. QED
    BY <1>1, <2>1, <2>2 DEF RagTypes
<1>4. Keeps(w)
  BY <1>1, <1>2, <1>3 DEF Keeps
<1>5. CollectionInv'
  BY <1>1, CollectionKept
<1>6. StoreInv(P)'
  BY <1>1 DEF StoreInv, Corpus
<1>7. CASE at[w] \in Building
  <2>1. place \in Building \ {"load"} /\ place \notin Asking /\ at[w] # "load"
    BY <1>7 DEF Building, Asking
  <2>2. lock'[P] = w /\ ~index'[P] /\ parts' >= 1
    BY <1>1, <1>7, <2>1 DEF ThreadInv
  <2>3. LockHeld(P)'
    BY <1>2, <2>1, <2>2 DEF LockHeld
  <2>4. ThreadInv(w)'
    BY <1>2, <2>1, <2>2 DEF ThreadInv, KeysReady
  <2>. QED
    BY <1>4, <1>5, <1>6, <2>3, <2>4, StepKeeps
<1>8. CASE at[w] \notin Building
  <2>1. place \in Asking /\ place \notin Building /\ at[w] \in Asking
    BY <1>8 DEF Building, Asking
  <2>2. index'[P]
    BY <1>1, <2>1 DEF ThreadInv
  <2>3. lock[P] # Nobody => lock[P] \in Workers \ {w}
    BY <1>1, <1>8 DEF LockHeld, RagTypes
  <2>4. LockHeld(P)'
    BY <1>1, <1>2, <2>3 DEF LockHeld
  <2>5. ThreadInv(w)'
    BY <1>2, <2>1, <2>2 DEF ThreadInv, KeysReady
  <2>. QED
    BY <1>4, <1>5, <1>6, <2>4, <2>5, StepKeeps
<1>. QED
  BY <1>7, <1>8

LEMMA FindMissingKeeps ==
    ASSUME RagInv, NEW w \in Workers, FindMissing(w), UNCHANGED <<splitter, parts, crashes>>
    PROVE  RagInv'
PROOF
<1>. DEFINE P == Process(w)
            missing == Wanted(w) \ mem[P]
            place == Mark(w, IF missing = {} THEN "add" ELSE "batch")
<1>1. RagTypes /\ P \in Processes /\ Corpus \subseteq Keys /\ 0 \in Keys
  BY ThreadFacts, RagAssumption DEF Keys
<1>2. /\ at[w] \in {"embed", "query"} /\ todo' = [todo EXCEPT ![w] = missing]
      /\ at' = [at EXCEPT ![w] = place] /\ UNCHANGED <<process, left, service>>
  BY DEF FindMissing, Go
<1>3. /\ at'[w] = place /\ todo'[w] = missing
      /\ mem' = [mem EXCEPT ![P] = mem[P]] /\ mem[P] \subseteq Keys
  BY <1>1, <1>2 DEF RagTypes, process
<1>4. missing \subseteq Keys /\ cache' \in {NoFile, Torn} \union SUBSET Keys
  BY <1>1, <1>2 DEF Wanted, service, RagTypes
<1>5. CASE at[w] = "embed"
  <2>1. at[w] \in Building /\ Wanted(w) = Corpus
    BY <1>5 DEF Building, Wanted
  <2>2. /\ place \in {"add", "batch"} /\ place \in Building \ {"load"}
        /\ place = "add" => missing = {}
    BY <2>1, MarkOfBuilder DEF Building
  <2>3. KeysReady(w)'
    BY <1>2, <1>3, <2>1, <2>2 DEF KeysReady, process, Corpus
  <2>. QED
    <3>. HIDE DEF missing, place
    <3>1. at[w] \in Building \ {"load"}
      BY <1>5 DEF Building
    <3>. QED
      BY <1>2, <1>3, <1>4, <2>2, <2>3, <3>1, EmbedKeeps DEF process, service
<1>6. CASE at[w] = "query"
  <2>1. at[w] \notin Building /\ at[w] \in Asking /\ Wanted(w) = {0}
    BY <1>6 DEF Building, Wanted, Asking
  <2>2. /\ place \in {"ask", "batch?"} /\ place \in Asking
        /\ place = "ask" => missing = {}
    BY <2>1, MarkOfAsker DEF Asking
  <2>3. KeysReady(w)'
    BY <1>2, <1>3, <2>1, <2>2 DEF KeysReady, process
  <2>. QED
    <3>. HIDE DEF missing, place
    <3>. QED
      BY <1>2, <1>3, <1>4, <2>1, <2>2, <2>3, EmbedKeeps DEF process, service
<1>. QED
  BY <1>2, <1>5, <1>6

LEMMA EmbedBatchKeeps ==
    ASSUME RagInv, NEW w \in Workers, EmbedBatch(w), UNCHANGED <<splitter, parts, crashes>>
    PROVE  RagInv'
PROOF
<1>. DEFINE P == Process(w)
            first == FirstOf(todo[w])
            rest == todo[w] \ first
            place == IF rest = {} THEN Mark(w, "save") ELSE at[w]
<1>1. RagTypes /\ ThreadInv(w) /\ P \in Processes
  BY ThreadFacts
<1>2. /\ at[w] \in {"batch", "batch?"}
      /\ mem' = [mem EXCEPT ![P] = mem[P] \union first]
      /\ todo' = [todo EXCEPT ![w] = rest]
      /\ UNCHANGED <<kind, lock, index, stored, left, service>>
  BY DEF EmbedBatch
<1>3. /\ todo'[w] = rest /\ mem'[P] = mem[P] \union first
      /\ mem[P] \subseteq Keys /\ todo[w] \subseteq Keys
  BY <1>1, <1>2 DEF RagTypes
<1>4. at' = [at EXCEPT ![w] = place] /\ at'[w] = place
  BY <1>1, <1>3 DEF EmbedBatch, Go, RagTypes
<1>5. /\ first \subseteq todo[w] /\ rest \subseteq Keys
      /\ mem[P] \union first \subseteq Keys
      /\ cache' \in {NoFile, Torn} \union SUBSET Keys
  BY <1>1, <1>2, <1>3 DEF FirstOf, service, RagTypes
<1>6. CASE at[w] = "batch"
  <2>1. at[w] \in Building /\ Corpus \subseteq mem[P] \union todo[w] /\ Corpus' = Corpus
    BY <1>1, <1>6 DEF Building, ThreadInv, Corpus
  <2>2. /\ place \in {"save", "batch"} /\ place \in Building \ {"load"}
        /\ place = "save" => rest = {}
    BY <1>6, <2>1, MarkOfBuilder DEF Building
  <2>3. KeysReady(w)'
    BY <1>3, <1>4, <2>1, <2>2 DEF KeysReady
  <2>. QED
    <3>1. at[w] \in Building \ {"load"}
      BY <1>6 DEF Building
    <3>2. mem[P] \subseteq mem[P] \union first
      OBVIOUS
    <3>. HIDE DEF first, rest, place
    <3>. QED
      BY <1>2, <1>4, <1>5, <2>2, <2>3, <3>1, <3>2, EmbedKeeps DEF service
<1>7. CASE at[w] = "batch?"
  <2>1. at[w] \notin Building /\ at[w] \in Asking /\ 0 \in mem[P] \union todo[w]
    BY <1>1, <1>7 DEF Building, ThreadInv, Asking
  <2>2. /\ place \in {"save?", "batch?"} /\ place \in Asking
        /\ place = "save?" => rest = {}
    BY <1>7, <2>1, MarkOfAsker DEF Asking
  <2>3. KeysReady(w)'
    BY <1>3, <1>4, <2>1, <2>2 DEF KeysReady
  <2>. QED
    <3>1. mem[P] \subseteq mem[P] \union first
      OBVIOUS
    <3>. HIDE DEF first, rest, place
    <3>. QED
      BY <1>2, <1>4, <1>5, <2>1, <2>2, <2>3, <3>1, EmbedKeeps DEF service
<1>. QED
  BY <1>2, <1>6, <1>7

\* Saving leaves the vectors in memory, whatever becomes of the file.
LEMMA SaveKeeps ==
    ASSUME RagInv, NEW w \in Workers, BeginSave(w) \/ EndSave(w),
           UNCHANGED <<splitter, parts, crashes>>
    PROVE  RagInv'
PROOF
<1>. DEFINE P == Process(w)
<1>1. RagTypes /\ ThreadInv(w) /\ P \in Processes
  BY ThreadFacts
<1>2. /\ at[w] \in {"save", "save?", "saving", "saving?"}
      /\ UNCHANGED <<process, left, collection>>
  BY DEF BeginSave, EndSave
<1>3. PICK keys \in SUBSET Keys, place \in {Mark(w, "saving"), Mark(w, "add")} :
        /\ todo' = [todo EXCEPT ![w] = keys]
        /\ at' = [at EXCEPT ![w] = place]
        /\ cache' \in {NoFile, Torn} \union SUBSET Keys
  <2>1. todo[w] \subseteq Keys /\ mem[P] \subseteq Keys /\ {} \subseteq Keys
        /\ todo = [todo EXCEPT ![w] = todo[w]]
        /\ cache \in {NoFile, Torn} \union SUBSET Keys
    BY <1>1 DEF RagTypes
  <2>2. CASE BeginSave(w)
    <3>1. CASE cache' = Torn /\ todo' = [todo EXCEPT ![w] = mem[P]] /\ Go(w, Mark(w, "saving"))
      BY <2>1, <3>1 DEF Go
    <3>2. CASE UNCHANGED <<cache, todo>> /\ Go(w, Mark(w, "add"))
      BY <2>1, <3>2 DEF Go
    <3>. QED
      BY <2>2, <3>1, <3>2 DEF BeginSave
  <2>3. CASE EndSave(w)
    <3>1. cache' \in {NoFile, Torn} \union SUBSET Keys
      BY <2>1, <2>3 DEF EndSave
    <3>2. todo' = [todo EXCEPT ![w] = {}] /\ at' = [at EXCEPT ![w] = Mark(w, "add")]
      BY <2>3 DEF EndSave, Go
    <3>3. {} \in SUBSET Keys /\ Mark(w, "add") \in {Mark(w, "saving"), Mark(w, "add")}
      OBVIOUS
    <3>. QED
      BY <3>1, <3>2, <3>3
  <2>. QED
    BY <2>2, <2>3
<1>4. /\ at'[w] = place
      /\ mem' = [mem EXCEPT ![P] = mem[P]] /\ mem[P] \subseteq Keys
  BY <1>1, <1>2, <1>3 DEF RagTypes, process
<1>5. CASE at[w] \in {"save", "saving"}
  <2>1. at[w] \in Building \ {"load"} /\ Corpus \subseteq mem[P] /\ Corpus' = Corpus
    BY <1>1, <1>5 DEF Building, ThreadInv, Corpus
  <2>2. place \in {"saving", "add"} /\ place \in Building \ {"load"}
    BY <1>3, <2>1, MarkOfBuilder DEF Building
  <2>3. KeysReady(w)'
    BY <1>2, <1>4, <2>1, <2>2 DEF KeysReady, process
  <2>. QED
    BY <1>1, <1>2, <1>3, <1>4, <2>1, <2>2, <2>3, EmbedKeeps DEF process
<1>6. CASE at[w] \in {"save?", "saving?"}
  <2>1. at[w] \notin Building /\ at[w] \in Asking /\ 0 \in mem[P]
    BY <1>1, <1>6 DEF Building, ThreadInv, Asking
  <2>2. place \in {"saving?", "ask"} /\ place \in Asking
    BY <1>3, <2>1, MarkOfAsker DEF Asking
  <2>3. KeysReady(w)'
    BY <1>2, <1>4, <2>1, <2>2 DEF KeysReady, process
  <2>. QED
    BY <1>1, <1>2, <1>3, <1>4, <2>1, <2>2, <2>3, EmbedKeeps DEF process
<1>. QED
  BY <1>2, <1>5, <1>6

-----------------------------------------------------------------------------
\* The store is filled and the index set: the whole corpus is in both.
LEMMA AddKeeps ==
    ASSUME RagInv, NEW w \in Workers, Add(w), UNCHANGED <<splitter, parts, crashes>>
    PROVE  RagInv'
PROOF
<1>. DEFINE P == Process(w)
<1>1. /\ RagTypes /\ ThreadInv(w) /\ CollectionInv /\ P \in Processes
      /\ parts \in Int /\ w # Nobody /\ Corpus \subseteq Keys /\ LockHeld(P)
  BY ThreadFacts
<1>2. at[w] = "add" /\ UNCHANGED <<kind, mem, left, cache>>
  BY DEF Add
<1>3. at[w] \in Building /\ parts >= 1 /\ lock[P] = w /\ ~index[P] /\ Corpus' = Corpus
  BY <1>1, <1>2 DEF Building, ThreadInv, Corpus
<1>4. CASE kind[P] = "qdrant" /\ collection = NoCollection
  <2>1. Raise(w) /\ UNCHANGED <<stored, index, collection>>
    BY <1>4 DEF Add
  <2>2. CollectionInv'
    BY <1>1, <1>2, <2>1, CollectionKept
  <2>. QED
    BY <1>2, <2>1, <2>2, RaiseKeeps
<1>5. CASE ~(kind[P] = "qdrant" /\ collection = NoCollection)
  <2>1. /\ stored' = [stored EXCEPT ![P] = Corpus]
        /\ collection' = IF kind[P] = "qdrant" THEN Upserted ELSE collection
        /\ index' = [index EXCEPT ![P] = TRUE]
        /\ lock' = [p \in Processes |-> IF lock[p] = w THEN Nobody ELSE lock[p]]
        /\ at' = [at EXCEPT ![w] = "query"]
        /\ UNCHANGED todo
    BY <1>5 DEF Add, Release, Go
  <2>2. /\ at'[w] = "query" /\ \A v \in Workers \ {w} : at'[v] = at[v]
        /\ stored'[P] = Corpus /\ index'[P] /\ lock'[P] = Nobody
        /\ \A p \in Processes \ {P} : index'[p] = index[p] /\ stored'[p] = stored[p]
    BY <1>1, <1>3, <2>1 DEF RagTypes
  <2>3. \A p \in Processes \ {P} : lock'[p] = lock[p]
    <3>. SUFFICES ASSUME NEW p \in Processes \ {P} PROVE lock'[p] = lock[p]
      OBVIOUS
    <3>1. lock[p] # w
      BY <1>1 DEF RagInv, LockHeld
    <3>. QED
      BY <2>1, <3>1
  <2>4. RagTypes'
    <3>1. at' \in [Workers -> Places]
      BY <1>1, <2>1 DEF RagTypes, Places
    <3>2. stored' \in [Processes -> SUBSET Keys] /\ index' \in [Processes -> BOOLEAN]
      BY <1>1, <2>1 DEF RagTypes
    <3>3. lock' \in [Processes -> Workers \union {Nobody}]
      BY <1>1, <2>1 DEF RagTypes
    <3>. QED
      BY <1>1, <1>2, <2>1, <3>1, <3>2, <3>3 DEF RagTypes
  <2>5. Keeps(w)
    BY <1>2, <1>3, <2>1, <2>2, <2>3, <2>4, BuilderKeeps
  <2>6. LockHeld(P)' /\ StoreInv(P)' /\ ThreadInv(w)'
    BY <1>3, <2>2 DEF LockHeld, StoreInv, ThreadInv, Building, Asking
  <2>7. CollectionInv'
    <3>1. CASE kind[P] = "qdrant"
      <4>1. collection \in [maker : Processes, points : SUBSET Corpus]
        BY <1>1, <1>5, <3>1 DEF CollectionInv
      <4>2. /\ collection' \in [maker : Processes, points : SUBSET Corpus]
            /\ collection'.points = Corpus
        BY <2>1, <3>1, <4>1 DEF Upserted
      <4>. QED
        BY <1>3, <4>2 DEF CollectionInv
    <3>2. CASE kind[P] # "qdrant"
      <4>1. collection' = collection /\ kind' = kind
        BY <1>2, <2>1, <3>2
      <4>. QED
        BY <1>1, <1>3, <2>2, <3>2, <4>1 DEF CollectionInv
    <3>. QED
      BY <3>1, <3>2
  <2>. QED
    BY <2>5, <2>6, <2>7, StepKeeps
<1>. QED
  BY <1>4, <1>5

LEMMA HitsKeeps ==
    ASSUME RagInv, NEW w \in Workers, Hits(w), UNCHANGED <<splitter, parts, crashes>>
    PROVE  RagInv'
PROOF
<1>. DEFINE P == Process(w)
<1>1. /\ RagTypes /\ LockHeld(P) /\ StoreInv(P) /\ CollectionInv /\ P \in Processes
      /\ parts >= 0
  BY ThreadFacts DEF Hits
<1>2. /\ at[w] = "ask" /\ at' = [at EXCEPT ![w] = "idle"]
      /\ UNCHANGED <<process, todo, left, service>>
  BY DEF Hits, Go
<1>3. at'[w] = "idle" /\ \A v \in Workers \ {w} : at'[v] = at[v]
  BY <1>1, <1>2 DEF RagTypes
<1>4. RagTypes'
  <2>1. at' \in [Workers -> Places]
    BY <1>1, <1>2 DEF RagTypes, Places
  <2>. QED
    BY <1>1, <1>2, <2>1 DEF RagTypes, process, service
<1>5. Keeps(w)
  BY <1>1, <1>2, <1>3, <1>4 DEF Keeps, process
<1>6. LockHeld(P)'
  <2>1. lock[P] # Nobody => lock[P] \in Workers \ {w}
    BY <1>1, <1>2 DEF LockHeld, RagTypes, Building
  <2>. QED
    BY <1>1, <1>2, <1>3, <2>1 DEF LockHeld, process
<1>7. StoreInv(P)' /\ CollectionInv'
  BY <1>1, <1>2, CollectionKept DEF StoreInv, Corpus, process, service
<1>8. ThreadInv(w)'
  BY <1>3 DEF ThreadInv, Building, Asking
<1>. QED
  BY <1>5, <1>6, <1>7, <1>8, StepKeeps

-----------------------------------------------------------------------------
\* A process that dies takes its threads with it, and nothing of the others.
LEMMA CrashKeeps ==
    ASSUME RagInv, NEW d \in Processes, Crash(d)
    PROVE  RagInv'
PROOF
<1>1. /\ RagTypes /\ CollectionInv /\ parts >= 0 /\ SplitFirst
      /\ UNCHANGED <<splitter, parts, kind, left, service>>
      /\ Corpus' = Corpus
  BY DEF RagInv, Crash, Corpus
<1>2. /\ lock' = [lock EXCEPT ![d] = Nobody]
      /\ index' = [index EXCEPT ![d] = FALSE]
      /\ mem' = [mem EXCEPT ![d] = {}]
      /\ stored' = [stored EXCEPT ![d] = {}]
      /\ at' = [w \in Workers |-> IF Process(w) = d THEN "idle" ELSE at[w]]
      /\ todo' = [w \in Workers |-> IF Process(w) = d THEN {} ELSE todo[w]]
  BY DEF Crash
<1>3. /\ lock'[d] = Nobody /\ stored'[d] = {} /\ ~index'[d]
      /\ \A p \in Processes \ {d} :
            /\ lock'[p] = lock[p] /\ index'[p] = index[p]
            /\ mem'[p] = mem[p] /\ stored'[p] = stored[p]
      /\ \A w \in Workers : IF Process(w) = d THEN at'[w] = "idle"
                            ELSE at'[w] = at[w] /\ todo'[w] = todo[w]
  BY <1>1, <1>2 DEF RagTypes
<1>4. RagTypes'
  <2>1. /\ lock' \in [Processes -> Workers \union {Nobody}]
        /\ index' \in [Processes -> BOOLEAN]
    BY <1>1, <1>2 DEF RagTypes
  <2>2. /\ mem' \in [Processes -> SUBSET Keys]
        /\ stored' \in [Processes -> SUBSET Keys]
    BY <1>1, <1>2 DEF RagTypes
  <2>3. at' \in [Workers -> Places]
    BY <1>1, <1>2 DEF RagTypes, Places
  <2>4. todo' \in [Workers -> SUBSET Keys]
    BY <1>1, <1>2 DEF RagTypes
  <2>. QED
    BY <1>1, <2>1, <2>2, <2>3, <2>4 DEF RagTypes, service
<1>5. SplitFirst'
  <2>1. split' = split /\ split = "loaded" /\ parts' = parts
    BY <1>1 DEF SplitFirst, splitter
  <2>. QED
    BY <1>1, <2>1 DEF SplitFirst
<1>6. ASSUME NEW p \in Processes PROVE LockHeld(p)' /\ StoreInv(p)'
  <2>1. CASE p = d
    BY <1>3, <2>1 DEF LockHeld, StoreInv
  <2>2. CASE p # d
    <3>1. LockHeld(p) /\ StoreInv(p)
      BY DEF RagInv
    <3>2. lock[p] # Nobody => lock[p] \in Workers
      BY <1>1 DEF RagTypes
    <3>. QED
      BY <1>1, <1>3, <2>2, <3>1, <3>2 DEF LockHeld, StoreInv
  <2>. QED
    BY <2>1, <2>2
<1>7. ASSUME NEW w \in Workers PROVE ThreadInv(w)'
  <2>1. CASE Process(w) = d
    BY <1>3, <2>1 DEF ThreadInv, Building, Asking
  <2>2. CASE Process(w) # d
    BY <1>1, <1>3, <2>2, RagAssumption DEF RagInv, ThreadInv
  <2>. QED
    BY <2>1, <2>2
<1>8. CollectionInv'
  <2>1. collection' = collection /\ kind' = kind
    BY <1>1 DEF service
  <2>2. \A p \in Processes : index'[p] => index[p]
    BY <1>3
  <2>. QED
    BY <1>1, <2>1, <2>2 DEF CollectionInv
<1>. QED
  BY <1>4, <1>5, <1>6, <1>7, <1>8 DEF RagInv

-----------------------------------------------------------------------------
\* The corpus is split before anything else.
LEMMA SplitSteps == ASSUME SplitInv, Split PROVE SplitInv'
BY SplitRefused, SplitNothing, SplitStripped, SplitWindow DEF Split

LEMMA SplitKeeps ==
    ASSUME RagInv, Split, UNCHANGED rag
    PROVE  RagInv'
PROOF
<1>1. split # "loaded" /\ split' # "loaded"
  BY DEF Split, SizesRefused, NothingToSplit, StripDocument, Window
<1>2. SplitFirst'
  <2>1. SplitInv'
    BY <1>1, SplitSteps DEF RagInv, SplitFirst
  <2>. QED
    BY <1>1, <2>1 DEF RagInv, SplitFirst, rag, process, thread, service
<1>3. UNCHANGED <<parts, kind, lock, index, mem, stored, at, todo, cache, collection>>
  BY DEF rag, process, thread, service
<1>. QED
  BY <1>2, <1>3 DEF RagInv, RagTypes, LockHeld, StoreInv, ThreadInv, CollectionInv, Corpus

LEMMA LoadedKeeps ==
    ASSUME RagInv, Loaded
    PROVE  RagInv'
PROOF
<1>1. /\ split # "loaded" /\ split' = "loaded"
      /\ parts' = IF Len(chunks) > MaxParts THEN MaxParts ELSE Len(chunks)
      /\ UNCHANGED <<kind, lock, index, mem, stored, at, todo, cache, collection>>
  BY DEF Loaded, process, thread, service
<1>2. /\ \A w \in Workers : at[w] = "idle"
      /\ \A p \in Processes : stored[p] = {} /\ ~index[p]
      /\ collection = NoCollection /\ SplitInv
  BY <1>1 DEF RagInv, SplitFirst
<1>3. parts' \in 0..MaxParts
  BY <1>1, <1>2, RagAssumption DEF SplitInv, SplitState
<1>4. SplitFirst'
  BY <1>1, <1>3, RagAssumption DEF SplitFirst
<1>5. \A w \in Workers : ThreadInv(w)'
  BY <1>1, <1>2 DEF ThreadInv, Building, Asking
<1>6. \A p \in Processes : LockHeld(p)' /\ StoreInv(p)'
  BY <1>1, <1>2 DEF RagInv, LockHeld, StoreInv
<1>7. CollectionInv' /\ RagTypes'
  BY <1>1, <1>2 DEF RagInv, RagTypes, CollectionInv
<1>. QED
  BY <1>4, <1>5, <1>6, <1>7 DEF RagInv

LEMMA RagInitially == ASSUME Init PROVE RagInv
PROOF
<1>1. SplitInv /\ split = "raw"
  BY SplitInitially DEF Init, InitSplit
<1>2. RagTypes
  <2>1. kind \in [Processes -> {"numpy", "qdrant"}]
    BY RagAssumption DEF Init, InitRag
  <2>2. at \in [Workers -> Places] /\ todo \in [Workers -> SUBSET Keys]
    BY DEF Init, InitRag, Places
  <2>3. /\ lock \in [Processes -> Workers \union {Nobody}]
        /\ index \in [Processes -> BOOLEAN]
        /\ mem \in [Processes -> SUBSET Keys] /\ stored \in [Processes -> SUBSET Keys]
    BY DEF Init, InitRag
  <2>. QED
    BY <2>1, <2>2, <2>3 DEF RagTypes, Init, InitRag
<1>3. SplitFirst
  BY <1>1, RagAssumption DEF SplitFirst, Init, InitRag
<1>4. /\ \A p \in Processes : LockHeld(p) /\ StoreInv(p)
      /\ \A w \in Workers : ThreadInv(w)
      /\ CollectionInv
  BY DEF Init, InitRag, LockHeld, StoreInv, ThreadInv, CollectionInv, Building, Asking
<1>. QED
  BY <1>2, <1>3, <1>4 DEF RagInv

LEMMA RagStuttering == ASSUME RagInv, UNCHANGED vars PROVE RagInv'
PROOF
<1>1. UNCHANGED <<parts, kind, lock, index, mem, stored, at, todo, cache, collection>>
      /\ UNCHANGED <<doc, size, overlap, pos, chunks, split>>
  BY DEF vars, rag, process, thread, service, splitter
<1>2. SplitInv' <=> SplitInv
  BY <1>1 DEF SplitInv, SplitState, Bounded, Covered, FactsPassed, Passed, Within
<1>. QED
  BY <1>1, <1>2 DEF RagInv, RagTypes, SplitFirst, LockHeld, StoreInv, ThreadInv,
                    CollectionInv, Corpus

LEMMA RagNext == ASSUME RagInv, [Next]_vars PROVE RagInv'
PROOF
<1>1. CASE Split /\ UNCHANGED rag
  BY <1>1, SplitKeeps
<1>2. CASE Loaded
  BY <1>2, LoadedKeeps
<1>3. ASSUME NEW w \in Workers, Begin(w) PROVE RagInv'
  BY <1>3, BeginKeeps
<1>4. ASSUME NEW w \in Workers, Step(w) PROVE RagInv'
  BY <1>4, GetIndexKeeps, RemoteFailsKeeps, LoadCorpusKeeps, CollectionExistsKeeps,
     DeleteCollectionKeeps, CreateCollectionKeeps, FindMissingKeeps, EmbedBatchKeeps,
     SaveKeeps, AddKeeps, HitsKeeps DEF Step
<1>5. ASSUME NEW p \in Processes, Crash(p) PROVE RagInv'
  BY <1>5, CrashKeeps
<1>6. CASE Finished \/ UNCHANGED vars
  BY <1>6, RagStuttering DEF Finished
<1>. QED
  BY <1>1, <1>2, <1>3, <1>4, <1>5, <1>6 DEF Next

-----------------------------------------------------------------------------
\* The inductive invariant: who builds has the lock, who asks has the index, and
\* neither loses the vectors it relies on (retrieve.py:71-111, embed.py:113-152).
THEOREM RagInvariance == Spec => []RagInv
PROOF
<1>1. Init => RagInv
  BY RagInitially
<1>2. RagInv /\ [Next]_vars => RagInv'
  BY RagNext
<1>. QED
  BY <1>1, <1>2, PTL DEF Spec

\* The lock is held exactly while a thread of the process builds, and stores and
\* keys are as their types say (retrieve.py:71-111).
THEOREM RagTypeCorrect == Spec => []TypeOK
PROOF
<1>1. RagInv => TypeOK
  <2>. SUFFICES ASSUME RagInv PROVE TypeOK
    OBVIOUS
  <2>1. split \in {"raw", "loop", "done", "refused", "loaded"} /\ parts \in -1..MaxParts
    BY DEF RagInv, SplitFirst, SplitInv, SplitState
  <2>2. \A p \in Processes :
            /\ lock[p] \in {Nobody} \union {w \in Workers : at[w] \in Building}
            /\ mem[p] \subseteq 0..MaxParts
            /\ stored[p] \in {{}, Corpus}
    BY DEF RagInv, RagTypes, LockHeld, StoreInv, Keys
  <2>3. \A w \in Workers :
            /\ todo[w] \subseteq 0..MaxParts
            /\ at[w] \in Building => lock[Process(w)] = w
    BY DEF RagInv, RagTypes, ThreadInv, Keys
  <2>4. collection # NoCollection => collection.points \subseteq Corpus
    BY DEF RagInv, CollectionInv
  <2>. QED
    BY <2>1, <2>2, <2>3, <2>4 DEF TypeOK, RagInv, RagTypes, Keys
<1>. QED
  BY <1>1, RagInvariance, PTL

\* Batches that failed and threads beside it leave no gap in what embed() returns
\* (embed.py:113-131).
THEOREM VectorsAlwaysReady == Spec => []VectorsReady
PROOF
<1>1. RagInv => VectorsReady
  BY DEF RagInv, ThreadInv, VectorsReady
<1>. QED
  BY <1>1, RagInvariance, PTL

\* What a process searches is the whole corpus, in its own store or in a collection
\* that it created and no other process replaced (retrieve.py:71-111,
\* store_qdrant.py:122-137).
THEOREM IndexAlwaysWhole == Spec => []IndexWhole
PROOF
<1>1. RagInv => IndexWhole
  <2>. SUFFICES ASSUME RagInv, NEW p \in Processes, index[p]
                PROVE  /\ stored[p] = Corpus /\ Corpus # {}
                       /\ kind[p] = "qdrant" /\ collection # NoCollection
                          /\ collection.maker = p => collection.points = Corpus
    BY DEF IndexWhole
  <2>1. stored[p] = Corpus /\ parts >= 1 /\ parts \in Int
    BY RagAssumption DEF RagInv, StoreInv, SplitFirst
  <2>2. 1 \in Corpus
    BY <2>1 DEF Corpus
  <2>. QED
    BY <2>1, <2>2 DEF RagInv, CollectionInv
<1>. QED
  BY <1>1, RagInvariance, PTL
=============================================================================
