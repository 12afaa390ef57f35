------------------------------ MODULE Chunking ------------------------------
(***************************************************************************)
(* split_text (rag/chunking.py): a document is cut into windows of a       *)
(* bounded size that overlap, each ending at the best break in its last    *)
(* third.  Offsets count from 0: the character at offset i is doc[i + 1].  *)
(***************************************************************************)
EXTENDS Integers, Sequences

CONSTANTS
    Documents,     \* texts of the corpus
    Sizes,         \* chunk sizes and overlaps a program may ask for
    Overlaps

Spaces == {" ", "\n"}
Letters == Spaces \union {".", ",", "x"}

ASSUME ChunkingAssumption ==
    /\ Documents \subseteq Seq(Letters)
    /\ Sizes \subseteq Int
    /\ Overlaps \subseteq Nat

VARIABLES
    doc,       \* the text, stripped once the loop begins
    size, overlap,
    pos,       \* where the next window begins
    chunks,    \* [(chunk, start)]: the start, and what is left between from and
               \* to when the chunk is stripped
    split      \* "raw", "loop", "done" or "refused"

splitter == <<doc, size, overlap, pos, chunks, split>>

-----------------------------------------------------------------------------
(***************************************************************************)
(* Strings.                                                                *)
(***************************************************************************)

Blank(a, b) == \A i \in (a + 1)..b : doc[i] \in Spaces

\* str.strip leaves the text between from and to of that between a and b.
Strips(a, b, from, to) ==
    /\ Blank(a, from) /\ Blank(to, b)
    /\ from < to
    /\ doc[from + 1] \notin Spaces
    /\ doc[to] \notin Spaces

\* _SPLIT_PATTERNS, the best first: paragraph, line, sentence, clause, word.
Ladder == <<<<"\n", "\n">>, <<"\n">>, <<".", " ">>, <<",", " ">>, <<" ">>>>

\* Where text between a and b may be cut after a pattern of the ladder.
Breaks(r, a, b) ==
    {i \in a..b : /\ i - Len(Ladder[r]) >= a
                  /\ SubSeq(doc, i - Len(Ladder[r]) + 1, i) = Ladder[r]}

-----------------------------------------------------------------------------
(***************************************************************************)
(* The loop.                                                               *)
(***************************************************************************)

\* Sizes that would make no progress raise ValueError.
SizesRefused ==
    /\ split = "raw"
    /\ size <= 0 \/ overlap >= size
    /\ split' = "refused"
    /\ UNCHANGED <<doc, size, overlap, pos, chunks>>

\* Nothing is left of the document when it is stripped.
NothingToSplit ==
    /\ split = "raw"
    /\ size > 0 /\ overlap < size
    /\ Blank(0, Len(doc))
    /\ split' = "done"
    /\ doc' = <<>>
    /\ UNCHANGED <<size, overlap, pos, chunks>>

\* A short document is one chunk; the loop begins on a longer one.
StripDocument ==
    /\ split = "raw"
    /\ size > 0 /\ overlap < size
    /\ \E from \in 0..Len(doc), to \in 0..Len(doc) :
        /\ Strips(0, Len(doc), from, to)
        /\ doc' = SubSeq(doc, from + 1, to)
        /\ \/ /\ to - from <= size
              /\ split' = "done"
              /\ chunks' = <<[start |-> 0, from |-> 0, to |-> to - from]>>
           \/ /\ to - from > size
              /\ split' = "loop"
              /\ UNCHANGED chunks
    /\ UNCHANGED <<size, overlap, pos>>

\* Mutant: breaks are looked for in the whole window.
LastThirdAnywhere == pos

\* Breaks are looked for in the last third of a window.
LastThird == pos + (2 * size) \div 3

Full == IF pos + size < Len(doc) THEN pos + size ELSE Len(doc)

\* Mutant: a window may end one character further.
WindowEndsLate(end) == end = IF Full < Len(doc) THEN Full + 1 ELSE Full

\* Where a window ends: the last break of the best kind there is, or all of it.
WindowEnds(end) ==
    \/ Full = Len(doc) /\ end = Full
    \/ /\ Full < Len(doc)
       /\ \/ \E r \in DOMAIN Ladder :
                /\ end \in Breaks(r, LastThird, Full)
                /\ \A i \in Breaks(r, LastThird, Full) : i <= end
                /\ \A q \in 1..(r - 1) : Breaks(q, LastThird, Full) = {}
          \/ /\ \A r \in DOMAIN Ladder : Breaks(r, LastThird, Full) = {}
             /\ end = Full

\* Mutant: the next window may begin where this one did.
NextPosStuck(end) == end - overlap

\* Mutant: it begins one character late.
NextPosLate(end) == end + 1

NextPos(end) == IF end - overlap > pos THEN end - overlap ELSE pos + 1

Window ==
    /\ split = "loop"
    /\ \E end \in 0..Len(doc) :
        /\ WindowEnds(end)
        /\ \/ Blank(pos, end) /\ UNCHANGED chunks
           \/ \E from \in pos..end, to \in pos..end :
                /\ Strips(pos, end, from, to)
                /\ chunks' = Append(chunks, [start |-> pos, from |-> from, to |-> to])
        /\ \/ end = Len(doc) /\ split' = "done" /\ UNCHANGED pos
           \/ end < Len(doc) /\ pos' = NextPos(end) /\ UNCHANGED split
    /\ UNCHANGED <<doc, size, overlap>>

InitSplit ==
    /\ doc \in Documents
    /\ size \in Sizes
    /\ overlap \in Overlaps
    /\ pos = 0
    /\ chunks = <<>>
    /\ split = "raw"

Split == SizesRefused \/ NothingToSplit \/ StripDocument \/ Window

SpecSplit == InitSplit /\ [][Split]_splitter /\ WF_splitter(Split)

-----------------------------------------------------------------------------
(***************************************************************************)
(* Properties.                                                             *)
(***************************************************************************)

Within(c, i, j) == c.from < i /\ j <= c.to

\* A chunk is never longer than was asked for, and never empty or blank at its
\* ends: it is embedded and given to the model as it is (chunking.py:148-173).
Bounded ==
    \A k \in DOMAIN chunks :
        /\ 0 < chunks[k].to - chunks[k].from /\ chunks[k].to - chunks[k].from <= size
        /\ chunks[k].start <= chunks[k].from /\ chunks[k].to <= Len(doc)
        /\ doc[chunks[k].from + 1] \notin Spaces /\ doc[chunks[k].to] \notin Spaces

\* No character of a document is lost to retrieval (chunking.py:148-173): what
\* the windows passed is in a chunk, and in the end they passed it all.
Passed == IF split = "done" THEN Len(doc) ELSE pos

Covered ==
    \A i \in 1..Len(doc) :
        i <= Passed /\ doc[i] \notin Spaces =>
            \E k \in DOMAIN chunks : Within(chunks[k], i, i)

\* A fact no longer than the overlap is never cut by a boundary: one chunk has
\* it whole (chunking.py:52-55), as long as the overlap is at most two thirds of
\* the size.  That windows may end early, at a break, does not matter.
FactsWhole ==
    split = "done" /\ overlap <= (2 * size) \div 3 =>
        \A i \in 1..Len(doc), j \in 1..Len(doc) :
            /\ i <= j /\ j - i < overlap
            /\ doc[i] \notin Spaces /\ doc[j] \notin Spaces
            => \E k \in DOMAIN chunks : Within(chunks[k], i, j)

\* Splitting ends: it never hangs (chunking.py:134-137, "I did hang it once").
SplitEnds == <>(split \in {"done", "refused"})
=============================================================================
