--------------------------- MODULE Scanner_proofs ---------------------------
(***************************************************************************)
(* Proofs about balanced_spans (parsing.py:170-223), for texts of any      *)
(* length: the spans it finds are regions of the text, apart and in order, *)
(* from an opening bracket to a closing one or to the end, and an object   *)
(* that was closed is found, whatever prose comes before it.  The last     *)
(* part is about _close_unbalanced (parsing.py:282-313): what it repairs   *)
(* is such an object.                                                      *)
(*                                                                         *)
(* What a closed object is, Scanner says by recursion on the length of a   *)
(* text (Balanced).  A recursive definition is a choice of a function that *)
(* solves its equation, so the proofs begin with why there is one.         *)
(***************************************************************************)
EXTENDS ToolCalls, TLAPS, WellFoundedInduction, FiniteSetTheorems

-----------------------------------------------------------------------------
(***************************************************************************)
(* Recursive definitions have solutions.                                   *)
(***************************************************************************)
LEMMA LeastNat ==
    ASSUME NEW T, T \subseteq Nat, T # {}
    PROVE  \E x \in T : \A y \in T : x <= y
PROOF
<1>1. IsWellFoundedOn(OpToRel(<, Nat), Nat)
  BY NatLessThanWellFounded, Zenon
<1>2. PICK x \in T : \A y \in T : ~(<<y, x>> \in OpToRel(<, Nat))
  BY <1>1, WFMin, Zenon
<1>3. ASSUME NEW y \in T PROVE x <= y
  <2>1. ~(<<y, x>> \in OpToRel(<, Nat))
    BY <1>2, Zenon
  <2>. QED
    BY <2>1 DEF OpToRel
<1>. QED
  BY <1>3

\* Induction over the natural numbers, for a set of them.
LEMMA NatSet ==
    ASSUME NEW T, 0 \in T, \A n \in Nat : n \in T => n + 1 \in T
    PROVE  \A n \in Nat : n \in T
PROOF
<1>. DEFINE D == {n \in Nat : n \notin T}
<1>. SUFFICES ASSUME D # {} PROVE FALSE
  OBVIOUS
<1>1. PICK x \in D : \A y \in D : x <= y
  BY LeastNat
<1>2. x # 0 /\ x - 1 \in Nat
  BY <1>1
<1>3. x - 1 \in T
  BY <1>1, <1>2
<1>. QED
  BY <1>1, <1>2, <1>3

\* A recursive definition whose calls are on smaller arguments has a solution.
Solves(f, F) == f = F[f]

Decreasing(S, T, size, F) ==
    \A g, h \in [S -> T], x \in S :
        (\A y \in S : size[y] < size[x] => g[y] = h[y]) => F[g][x] = F[h][x]

LEMMA RecursionHolds ==
    ASSUME NEW S, NEW T, NEW size, NEW F, T # {}, size \in [S -> Nat],
           F \in [[S -> T] -> [S -> T]], Decreasing(S, T, size, F)
    PROVE  \E f \in [S -> T] : Solves(f, F)
PROOF
<1>. DEFINE Good(n) == {g \in [S -> T] : \A x \in S : size[x] < n => g[x] = F[g][x]}
<1>1. \A n \in Nat : Good(n) # {}
  <2>. DEFINE D == {n \in Nat : Good(n) # {}}
  <2>1. 0 \in D
    <3>1. PICK v \in T : TRUE
      OBVIOUS
    <3>2. [x \in S |-> v] \in Good(0)
      OBVIOUS
    <3>. QED
      BY <3>2
  <2>2. ASSUME NEW n \in Nat, n \in D PROVE n + 1 \in D
    <3>1. PICK g \in Good(n) : TRUE
      BY <2>2
    <3>2. g \in [S -> T] /\ F[g] \in [S -> T] /\ F[F[g]] \in [S -> T]
      OBVIOUS
    <3>3. ASSUME NEW x \in S, size[x] < n + 1 PROVE F[g][x] = F[F[g]][x]
      <4>1. \A y \in S : size[y] < size[x] => g[y] = F[g][y]
        BY <3>1, <3>3
      <4>. QED
        BY <3>2, <4>1 DEF Decreasing
    <3>4. F[g] \in Good(n + 1)
      BY <3>2, <3>3
    <3>. QED
      BY <3>4
  <2>. HIDE DEF D
  <2>3. \A n \in Nat : n \in D
    BY <2>1, <2>2, NatSet
  <2>. QED
    BY <2>3 DEF D
<1>2. ASSUME NEW n \in Nat, NEW g \in Good(n), NEW h \in Good(n), NEW x \in S, size[x] < n
      PROVE  g[x] = h[x]
  <2>. DEFINE D == {k \in Nat : \E y \in S : size[y] = k /\ k < n /\ g[y] # h[y]}
  <2>. SUFFICES ASSUME D # {} PROVE FALSE
    BY <1>2
  <2>1. PICK k \in D : \A j \in D : k <= j
    BY LeastNat
  <2>2. PICK y \in S : size[y] = k /\ k < n /\ g[y] # h[y]
    BY <2>1
  <2>3. \A z \in S : size[z] < size[y] => g[z] = h[z]
    BY <2>1, <2>2
  <2>4. F[g][y] = F[h][y]
    BY <2>3 DEF Decreasing
  <2>. QED
    BY <2>2, <2>4
<1>. DEFINE G(n) == CHOOSE g \in Good(n) : TRUE
            f == [x \in S |-> G(size[x] + 1)[x]]
<1>3. \A x \in S : G(size[x] + 1) \in Good(size[x] + 1)
  <2>1. ASSUME NEW x \in S PROVE G(size[x] + 1) \in Good(size[x] + 1)
    <3>1. size[x] + 1 \in Nat
      OBVIOUS
    <3>. HIDE DEF Good
    <3>2. Good(size[x] + 1) # {}
      BY <1>1, <3>1
    <3>. QED
      BY <3>2
  <2>. QED
    BY <2>1
<1>4. ASSUME NEW x \in S, NEW y \in S, size[y] <= size[x] PROVE f[y] = G(size[x] + 1)[y]
  <2>. HIDE DEF G
  <2>1. G(size[x] + 1) \in Good(size[x] + 1) /\ G(size[y] + 1) \in Good(size[y] + 1)
    BY <1>3
  <2>2. G(size[x] + 1) \in Good(size[y] + 1)
    BY <1>4, <2>1
  <2>3. size[y] + 1 \in Nat /\ size[y] < size[y] + 1
    OBVIOUS
  <2>4. f[y] = G(size[y] + 1)[y]
    OBVIOUS
  <2>. HIDE DEF Good, f
  <2>. QED
    BY <1>2, <2>1, <2>2, <2>3, <2>4
<1>5. f \in [S -> T]
  <2>1. ASSUME NEW x \in S PROVE G(size[x] + 1)[x] \in T
    <3>. HIDE DEF G
    <3>1. G(size[x] + 1) \in Good(size[x] + 1)
      BY <1>3
    <3>. QED
      BY <3>1
  <2>. QED
    BY <2>1
<1>6. ASSUME NEW x \in S PROVE f[x] = F[f][x]
  <2>. DEFINE g == G(size[x] + 1)
  <2>. HIDE DEF G
  <2>1. g \in Good(size[x] + 1) /\ g \in [S -> T]
    BY <1>3
  <2>2. \A y \in S : size[y] <= size[x] => f[y] = g[y]
    BY <1>4
  <2>3. g[x] = F[g][x]
    BY <2>1
  <2>. HIDE DEF g, f
  <2>4. F[f][x] = F[g][x]
    BY <1>5, <2>1, <2>2 DEF Decreasing
  <2>. QED
    BY <2>2, <2>3, <2>4
<1>7. F[f] \in [S -> T]
  BY <1>5
<1>8. f = F[f]
  <2>. HIDE DEF f
  <2>. QED
    BY <1>5, <1>6, <1>7
<1>. QED
  BY <1>5, <1>8 DEF Solves

-----------------------------------------------------------------------------
(***************************************************************************)
(* Pieces of a sequence.                                                   *)
(***************************************************************************)
LEMMA Pieces ==
    ASSUME NEW S, NEW t \in Seq(S), NEW i \in 1..(Len(t) + 1), NEW j \in 0..Len(t)
    PROVE  /\ SubSeq(t, i, j) \in Seq(S)
           /\ i <= j => Len(SubSeq(t, i, j)) = j - i + 1
           /\ i > j => Len(SubSeq(t, i, j)) = 0
           /\ \A k \in 1..(j - i + 1) : SubSeq(t, i, j)[k] = t[i + k - 1]
  OBVIOUS

LEMMA SameSequence ==
    ASSUME NEW S, NEW u \in Seq(S), NEW v \in Seq(S), Len(u) = Len(v),
           \A k \in 1..Len(u) : u[k] = v[k]
    PROVE  u = v
  OBVIOUS

\* A piece of a piece.
LEMMA PieceOfPiece ==
    ASSUME NEW S, NEW t \in Seq(S), NEW a \in 0..Len(t), NEW m \in 0..(Len(t) - a),
           NEW i \in 1..(m + 1), NEW j \in 0..m
    PROVE  SubSeq(SubSeq(t, a + 1, a + m), i, j) = SubSeq(t, a + i, a + j)
PROOF
<1>. DEFINE p == SubSeq(t, a + 1, a + m)
            u == SubSeq(p, i, j)
            v == SubSeq(t, a + i, a + j)
<1>0. /\ Len(t) \in Nat /\ a \in Nat /\ m \in Nat /\ i \in Nat /\ j \in Nat
      /\ a + m <= Len(t) /\ i <= m + 1 /\ j <= m /\ 1 <= i
  OBVIOUS
<1>1. p \in Seq(S) /\ Len(p) = m
  BY <1>0, Pieces
<1>2. \A k \in 1..m : p[k] = t[a + k]
  <2>1. \A k \in 1..((a + m) - (a + 1) + 1) : p[k] = t[(a + 1) + k - 1]
    BY <1>0, Pieces
  <2>2. (a + m) - (a + 1) + 1 = m
    BY <1>0
  <2>3. \A k \in 1..m : (a + 1) + k - 1 = a + k
    BY <1>0
  <2>. HIDE DEF p
  <2>. QED
    BY <2>1, <2>2, <2>3
<1>. HIDE DEF p
<1>3. u \in Seq(S) /\ (IF i <= j THEN Len(u) = j - i + 1 ELSE Len(u) = 0)
  BY <1>0, <1>1, Pieces
<1>4. \A k \in 1..(j - i + 1) : u[k] = p[i + k - 1]
  BY <1>0, <1>1, Pieces
<1>5. v \in Seq(S) /\ (IF i <= j THEN Len(v) = j - i + 1 ELSE Len(v) = 0)
  <2>1. a + i \in 1..(Len(t) + 1) /\ a + j \in 0..Len(t) /\ (a + j) - (a + i) + 1 = j - i + 1
        /\ (a + i <= a + j <=> i <= j)
    BY <1>0
  <2>. QED
    BY <1>0, <2>1, Pieces
<1>6. \A k \in 1..(j - i + 1) : v[k] = t[a + i + k - 1]
  <2>1. a + i \in 1..(Len(t) + 1) /\ a + j \in 0..Len(t) /\ (a + j) - (a + i) + 1 = j - i + 1
    BY <1>0
  <2>2. \A k \in 1..((a + j) - (a + i) + 1) : v[k] = t[(a + i) + k - 1]
    BY <2>1, Pieces
  <2>. HIDE DEF v
  <2>. QED
    BY <2>1, <2>2
<1>. HIDE DEF u, v
<1>7. \A k \in 1..(j - i + 1) : u[k] = v[k]
  <2>1. ASSUME NEW k \in 1..(j - i + 1) PROVE u[k] = v[k]
    <3>1. i + k - 1 \in 1..m /\ a + (i + k - 1) = a + i + k - 1
      BY <1>0
    <3>. QED
      BY <1>2, <1>4, <1>6, <3>1
  <2>. QED
    BY <2>1
<1>. QED
  <2>1. Len(u) = Len(v) /\ \A k \in 1..Len(u) : u[k] = v[k]
    BY <1>0, <1>3, <1>5, <1>7
  <2>. QED
    BY <1>3, <1>5, <2>1, SameSequence DEF u, v, p

-----------------------------------------------------------------------------
(***************************************************************************)
(* Spans are regions, apart and in order.                                  *)
(***************************************************************************)
Span == Nat \X Nat

\* The locals of the loop.
Locals(s) ==
    /\ DOMAIN s = {"at", "depth", "start", "in_str", "quote", "esc", "spans"}
    /\ s.at \in Nat
    /\ s.depth \in Nat
    /\ s.start \in Int
    /\ s.in_str \in BOOLEAN
    /\ s.spans \in Seq(Span)

\* A span that was closed.
IsSpan(t, span) ==
    /\ span[1] < span[2] /\ span[2] <= Len(t)
    /\ t[span[1] + 1] \in Openers
    /\ t[span[2]] \in Closers

\* The bracket that is open at depth 0, after the spans so far.
IsOpen(t, s) ==
    /\ s.start \in Nat /\ s.start < Len(t)
    /\ t[s.start + 1] \in Openers
    /\ \A i \in DOMAIN s.spans : s.spans[i][2] <= s.start

\* The scanner s has read t.
HasRead(t, s) ==
    /\ t \in Seq(Chars)
    /\ Locals(s)
    /\ s.at = Len(t)
    /\ s.in_str => s.depth > 0
    /\ s.depth > 0 => IsOpen(t, s)
    /\ \A i \in DOMAIN s.spans : IsSpan(t, s.spans[i])
    /\ \A i, j \in DOMAIN s.spans : i < j => s.spans[i][2] <= s.spans[j][1]

-----------------------------------------------------------------------------
LEMMA FreshHasRead == HasRead(<<>>, Fresh)
PROOF
<1>1. Locals(Fresh)
  BY DEF Fresh, Locals
<1>2. <<>> \in Seq(Chars) /\ Len(<<>>) = 0
  OBVIOUS
<1>3. Fresh.at = 0 /\ Fresh.depth = 0 /\ Fresh.in_str = FALSE /\ Fresh.spans = <<>>
  BY DEF Fresh
<1>4. DOMAIN Fresh.spans = {}
  BY <1>3
<1>. QED
  BY <1>1, <1>2, <1>3, <1>4 DEF HasRead

\* What was read stays where it is.
LEMMA TextGrows ==
    ASSUME NEW t \in Seq(Chars), NEW c \in Chars
    PROVE  /\ Append(t, c) \in Seq(Chars)
           /\ Len(Append(t, c)) = Len(t) + 1
           /\ Append(t, c)[Len(t) + 1] = c
           /\ \A i \in 1..Len(t) : Append(t, c)[i] = t[i]
OBVIOUS

\* The loop reads one more character.
LEMMA FeedReads ==
    ASSUME NEW t, NEW s, HasRead(t, s), NEW c \in Chars
    PROVE  HasRead(Append(t, c), Feed(s, c))
PROOF
<1> DEFINE u == Append(t, c)
           r == Feed(s, c)
<1>1. /\ t \in Seq(Chars) /\ Locals(s) /\ s.at = Len(t) /\ Len(t) \in Nat
      /\ s.depth \in Nat /\ s.start \in Int /\ s.spans \in Seq(Span)
      /\ s.in_str \in BOOLEAN
  BY DEF HasRead, Locals
<1>2. /\ u \in Seq(Chars) /\ Len(u) = Len(t) + 1 /\ u[Len(t) + 1] = c
      /\ \A i \in 1..Len(t) : u[i] = t[i]
  BY <1>1, TextGrows
<1>3. \A i \in DOMAIN s.spans : IsSpan(u, s.spans[i])
  <2>1. ASSUME NEW i \in DOMAIN s.spans PROVE IsSpan(u, s.spans[i])
    <3>1. s.spans[i] \in Span /\ IsSpan(t, s.spans[i])
      BY <1>1 DEF HasRead
    <3>2. s.spans[i][1] \in Nat /\ s.spans[i][2] \in Nat
      BY <3>1 DEF Span
    <3>. DEFINE i1 == s.spans[i][1]
                i2 == s.spans[i][2]
    <3>3. /\ i1 \in Nat /\ i2 \in Nat /\ i1 < i2 /\ i2 <= Len(t)
          /\ t[i1 + 1] \in Openers /\ t[i2] \in Closers
      BY <3>1, <3>2 DEF IsSpan
    <3>. HIDE DEF i1, i2
    <3>4. i1 + 1 \in 1..Len(t) /\ i2 \in 1..Len(t) /\ i2 <= Len(u)
      BY <1>1, <1>2, <3>3
    <3>. QED
      BY <1>2, <3>3, <3>4 DEF IsSpan, i1, i2
  <2>. QED
    BY <2>1
<1>4. s.depth > 0 => IsOpen(u, s)
  BY <1>1, <1>2 DEF HasRead, IsOpen
<1>. SUFFICES HasRead(u, r)
  OBVIOUS
<1>. HIDE DEF u, r
\* The loop goes on with the bracket, if there is one, that is open already.
<1>5. ASSUME /\ Locals(r) /\ r.at = s.at + 1 /\ r.spans = s.spans /\ r.start = s.start
             /\ r.in_str => r.depth > 0
             /\ r.depth > 0 => s.depth > 0
      PROVE  HasRead(u, r)
  BY <1>1, <1>2, <1>3, <1>4, <1>5 DEF HasRead, IsOpen
<1>0. /\ c \in Openers => c \notin Quotes /\ c \notin Closers
      /\ c \in Closers => c \notin Quotes /\ c \notin Openers
  BY DEF Openers, Closers, Quotes
<1>6. CASE s.in_str
  <2>1. r = [[s EXCEPT !.esc = ~s.esc /\ c = "\\", !.in_str = s.esc \/ c # s.quote]
                EXCEPT !.at = s.at + 1]
    BY <1>1, <1>6 DEF r, Feed, Char, InString, Locals
  <2>2. /\ Locals(r) /\ r.at = s.at + 1 /\ r.spans = s.spans /\ r.start = s.start
        /\ r.depth = s.depth
    BY <1>1, <2>1 DEF Locals
  <2>3. s.depth > 0
    BY <1>6 DEF HasRead
  <2>. QED
    BY <1>5, <2>2, <2>3
<1>7. CASE ~s.in_str /\ s.depth > 0 /\ c \in Quotes
  <2>1. r = [[s EXCEPT !.in_str = TRUE, !.quote = c] EXCEPT !.at = s.at + 1]
    BY <1>0, <1>1, <1>7 DEF r, Feed, Char, OpenString, Locals
  <2>2. /\ Locals(r) /\ r.at = s.at + 1 /\ r.spans = s.spans /\ r.start = s.start
        /\ r.depth = s.depth
    BY <1>1, <1>7, <2>1 DEF Locals
  <2>3. r.depth > 0
    BY <1>7, <2>2
  <2>. QED
    BY <1>5, <1>7, <2>2, <2>3
<1>8. CASE ~s.in_str /\ c \in Openers
  <2>1. r = [[s EXCEPT !.depth = s.depth + 1,
                       !.start = IF s.depth = 0 THEN s.at ELSE s.start]
                EXCEPT !.at = s.at + 1]
    BY <1>0, <1>1, <1>8 DEF r, Feed, Char, OpenBracket, Locals
  <2>2. /\ Locals(r) /\ r.at = s.at + 1 /\ r.spans = s.spans
        /\ r.start = (IF s.depth = 0 THEN s.at ELSE s.start)
        /\ r.depth = s.depth + 1 /\ r.in_str = s.in_str
    BY <1>1, <2>1 DEF Locals
  <2>3. IsOpen(u, r)
    <3>1. CASE s.depth = 0
      <4>1. \A i \in DOMAIN s.spans : s.spans[i][2] <= Len(t)
        BY DEF HasRead, IsSpan
      <4>. QED
        BY <1>1, <1>2, <1>8, <2>2, <3>1, <4>1 DEF IsOpen
    <3>2. CASE s.depth # 0
      BY <1>1, <1>4, <2>2, <3>2 DEF IsOpen
    <3>. QED
      BY <3>1, <3>2
  <2>4. r.in_str => r.depth > 0
    BY <1>8, <2>2
  <2>5. /\ \A i \in DOMAIN r.spans : IsSpan(u, r.spans[i])
        /\ \A i, j \in DOMAIN r.spans : i < j => r.spans[i][2] <= r.spans[j][1]
    BY <1>3, <2>2 DEF HasRead
  <2>. QED
    BY <1>1, <1>2, <2>2, <2>3, <2>4, <2>5 DEF HasRead
<1>9. CASE ~s.in_str /\ c \in Closers /\ s.depth > 1
  <2>1. r = [[s EXCEPT !.depth = s.depth - 1] EXCEPT !.at = s.at + 1]
    <3>1. Char(s, c) = CloseBracket(s)
      BY <1>0, <1>1, <1>9 DEF Char
    <3>2. CloseBracket(s) = [s EXCEPT !.depth = s.depth - 1]
      BY <1>9 DEF CloseBracket
    <3>3. [s EXCEPT !.depth = s.depth - 1].at = s.at
      BY <1>1 DEF Locals
    <3>. QED
      BY <3>1, <3>2, <3>3 DEF r, Feed
  <2>2. /\ Locals(r) /\ r.at = s.at + 1 /\ r.spans = s.spans /\ r.start = s.start
        /\ r.in_str = s.in_str
    BY <1>1, <1>9, <2>1 DEF Locals
  <2>3. ~r.in_str /\ s.depth > 0
    BY <1>1, <1>9, <2>2
  <2>. QED
    BY <1>5, <2>2, <2>3
<1>10. CASE ~s.in_str /\ c \in Closers /\ s.depth = 1
  <2> DEFINE span == <<s.start, s.at + 1>>
  <2>1. r = [[s EXCEPT !.depth = 0, !.start = -1, !.spans = Append(s.spans, span)]
                EXCEPT !.at = s.at + 1]
    <3>1. Char(s, c) = CloseBracket(s)
      BY <1>0, <1>1, <1>10 DEF Char
    <3>2. CloseBracket(s) =
            [s EXCEPT !.depth = 0, !.start = -1, !.spans = Append(s.spans, span)]
      BY <1>1, <1>10 DEF CloseBracket, Locals
    <3>3. [s EXCEPT !.depth = 0, !.start = -1, !.spans = Append(s.spans, span)].at = s.at
      BY <1>1 DEF Locals
    <3>. QED
      BY <3>1, <3>2, <3>3 DEF r, Feed
  <2>2. IsOpen(u, s) /\ s.start \in Nat
    BY <1>4, <1>10 DEF IsOpen
  <2>3. span \in Span /\ span[1] = s.start /\ span[2] = Len(u)
    BY <1>1, <1>2, <2>2 DEF Span
  <2>4. IsSpan(u, span)
    BY <1>1, <1>2, <1>10, <2>2, <2>3 DEF IsSpan, IsOpen, HasRead
  <2>. HIDE DEF span
  <2>5. /\ Locals(r) /\ r.at = s.at + 1 /\ r.spans = Append(s.spans, span)
        /\ r.depth = 0 /\ r.in_str = s.in_str
    BY <1>1, <2>1, <2>3 DEF Locals
  <2>6. /\ DOMAIN r.spans = 1..(Len(s.spans) + 1)
        /\ r.spans[Len(s.spans) + 1] = span
        /\ \A i \in 1..Len(s.spans) : r.spans[i] = s.spans[i]
        /\ DOMAIN s.spans = 1..Len(s.spans) /\ Len(s.spans) \in Nat
    BY <1>1, <2>3, <2>5
  <2>7. \A i \in DOMAIN r.spans : IsSpan(u, r.spans[i])
    BY <1>3, <2>4, <2>6
  <2>8. ASSUME NEW i \in DOMAIN r.spans, NEW j \in DOMAIN r.spans, i < j
        PROVE  r.spans[i][2] <= r.spans[j][1]
    <3>1. CASE j \in DOMAIN s.spans
      <4>1. i \in DOMAIN s.spans /\ r.spans[i] = s.spans[i] /\ r.spans[j] = s.spans[j]
        BY <2>6, <2>8, <3>1
      <4>. QED
        BY <2>8, <3>1, <4>1 DEF HasRead
    <3>2. CASE j \notin DOMAIN s.spans
      <4>1. i \in DOMAIN s.spans /\ r.spans[i] = s.spans[i] /\ r.spans[j] = span
        BY <2>6, <2>8, <3>2
      <4>. QED
        BY <2>2, <2>3, <4>1 DEF IsOpen
    <3>. QED
      BY <3>1, <3>2
  <2>9. ~r.in_str /\ ~(r.depth > 0)
    BY <1>10, <2>5
  <2>. QED
    BY <1>1, <1>2, <2>5, <2>7, <2>8, <2>9 DEF HasRead
<1>11. CASE /\ ~s.in_str /\ ~(s.depth > 0 /\ c \in Quotes) /\ c \notin Openers
            /\ ~(c \in Closers /\ s.depth > 0)
  <2>1. r = [s EXCEPT !.at = s.at + 1]
    BY <1>1, <1>11 DEF r, Feed, Char, Locals
  <2>2. /\ Locals(r) /\ r.at = s.at + 1 /\ r.spans = s.spans /\ r.start = s.start
        /\ r.depth = s.depth /\ r.in_str = s.in_str
    BY <1>1, <2>1 DEF Locals
  <2>3. ~r.in_str
    BY <1>11, <2>2
  <2>. QED
    BY <1>5, <2>2, <2>3
<1>12. s.depth = 0 \/ s.depth = 1 \/ s.depth > 1
  BY <1>1
<1>. QED
  BY <1>6, <1>7, <1>8, <1>9, <1>10, <1>11, <1>12

-----------------------------------------------------------------------------
LEMMA ReadNext == HasRead(text, scan) /\ [Next]_vars => HasRead(text, scan)'
PROOF
<1>. SUFFICES ASSUME HasRead(text, scan), [Next]_vars PROVE HasRead(text', scan')
  OBVIOUS
<1>1. CASE Read
  BY <1>1, FeedReads DEF Read
<1>2. CASE EndOfText
  BY <1>2, FreshHasRead DEF EndOfText
<1>3. CASE UNCHANGED <<text, scan>>
  BY <1>3
<1>4. Read \/ EndOfText \/ UNCHANGED <<text, scan>>
  BY DEF Next, Parse, ParseNative, Begun, Done, reading, vars
<1>. QED
  BY <1>1, <1>2, <1>3, <1>4

LEMMA ReadApart == HasRead(text, scan) => SpansApart
PROOF
<1>. SUFFICES ASSUME HasRead(text, scan), NEW i \in DOMAIN Spans(scan)
              PROVE  LET from == Spans(scan)[i][1]
                         to == Spans(scan)[i][2]
                     IN  /\ from < to /\ to <= Len(text)
                         /\ text[from + 1] \in Openers
                         /\ text[to] \in Closers \/ (i = Len(Spans(scan)) /\ Unclosed(scan))
                         /\ i > 1 => Spans(scan)[i - 1][2] <= from
  BY DEF SpansApart
<1>1. /\ scan.spans \in Seq(Span) /\ scan.at = Len(text) /\ Len(text) \in Nat
      /\ scan.start \in Int
  BY DEF HasRead, Locals
<1>2. CASE i \in DOMAIN scan.spans
  <2>1. /\ Spans(scan)[i] = scan.spans[i]
        /\ i > 1 => i - 1 \in DOMAIN scan.spans /\ Spans(scan)[i - 1] = scan.spans[i - 1]
    BY <1>1, <1>2 DEF Spans
  <2>2. /\ IsSpan(text, scan.spans[i])
        /\ i > 1 => scan.spans[i - 1][2] <= scan.spans[i][1]
    BY <1>1, <1>2, <2>1 DEF HasRead
  <2>. QED
    BY <2>1, <2>2 DEF IsSpan
<1>3. CASE i \notin DOMAIN scan.spans
  <2>1. /\ Unclosed(scan) /\ i = Len(Spans(scan)) /\ Spans(scan)[i] = <<scan.start, scan.at>>
        /\ i > 1 => i - 1 \in DOMAIN scan.spans /\ Spans(scan)[i - 1] = scan.spans[i - 1]
    BY <1>1, <1>3 DEF Spans
  <2>2. IsOpen(text, scan)
    BY <2>1 DEF HasRead, Unclosed
  <2>. QED
    BY <1>1, <2>1, <2>2 DEF IsOpen
<1>. QED
  BY <1>2, <1>3

\* Spans are regions of the text, in order and apart (parsing.py:170-223).
THEOREM SpansAlwaysApart == Spec => []SpansApart
PROOF
<1>1. Init => HasRead(text, scan)
  BY FreshHasRead DEF Init
<1>. QED
  BY <1>1, ReadNext, ReadApart, PTL DEF Spec

-----------------------------------------------------------------------------
(***************************************************************************)
(* What a character does to the locals of the loop.                        *)
(***************************************************************************)
Scanners == [at: Nat, depth: Nat, start: Int, in_str: BOOLEAN, quote: Quotes,
             esc: BOOLEAN, spans: Seq(Int \X Nat)]

LEMMA FreshTyped == Fresh \in Scanners
PROOF
<1>1. <<>> \in Seq(Int \X Nat)
  OBVIOUS
<1>. QED
  BY <1>1 DEF Fresh, Scanners, Quotes

\* Every character is of one kind.
LEMMA CharKinds ==
    /\ Openers \subseteq Chars /\ Closers \subseteq Chars /\ Quotes \subseteq Chars
    /\ \A c \in Openers : c \notin Quotes /\ c \notin Closers /\ Partner[c] \in Closers
    /\ \A c \in Closers : c \notin Quotes /\ c \notin Openers
    /\ "\\" \notin Openers /\ "\\" \notin Closers /\ "\\" \notin Quotes
  BY DEF Chars, Openers, Closers, Quotes, Partner

LEMMA ScannerFields ==
    ASSUME NEW s \in Scanners
    PROVE  /\ s.at \in Nat /\ s.depth \in Nat /\ s.start \in Int /\ s.in_str \in BOOLEAN
           /\ s.quote \in Quotes /\ s.esc \in BOOLEAN /\ s.spans \in Seq(Int \X Nat)
           /\ s.at + 1 \in Nat /\ s.depth + 1 \in Nat
  BY DEF Scanners

\* Inside a string.
LEMMA FedInString ==
    ASSUME NEW s \in Scanners, NEW c \in Chars, s.in_str
    PROVE  /\ Feed(s, c) \in Scanners
           /\ Feed(s, c).at = s.at + 1
           /\ Feed(s, c).depth = s.depth
           /\ Feed(s, c).start = s.start
           /\ Feed(s, c).in_str = (s.esc \/ c # s.quote)
           /\ Feed(s, c).quote = s.quote
           /\ Feed(s, c).esc = (~s.esc /\ c = "\\")
           /\ Feed(s, c).spans = s.spans
PROOF
<1>. DEFINE r == Feed(s, c)
            i == s.esc \/ c # s.quote
            e == ~s.esc /\ c = "\\"
<1>1. r = [[s EXCEPT !.in_str = i, !.esc = e] EXCEPT !.at = s.at + 1]
  <2>1. Char(s, c) = InString(s, c)
    BY ScannerFields, CharKinds DEF Char
  <2>. QED
    BY <2>1, ScannerFields DEF Feed, InString, Scanners
<1>2. i \in BOOLEAN /\ e \in BOOLEAN
  OBVIOUS
<1>. HIDE DEF r, i, e
<1>4. r = [at |-> s.at + 1, depth |-> s.depth, start |-> s.start, in_str |-> i,
           quote |-> s.quote, esc |-> e, spans |-> s.spans]
  BY <1>1 DEF Scanners
<1>5. r \in Scanners
  BY <1>4, ScannerFields, <1>2 DEF Scanners
<1>6. /\ r.at = s.at + 1 /\ r.depth = s.depth /\ r.start = s.start /\ r.quote = s.quote
      /\ r.spans = s.spans
  BY <1>4
<1>7. r.in_str = i /\ r.esc = e
  BY <1>4
<1>. QED
  BY <1>5, <1>6, <1>7 DEF r, i, e

\* A quote, within brackets.
LEMMA FedQuote ==
    ASSUME NEW s \in Scanners, NEW c \in Chars, ~s.in_str, s.depth > 0, c \in Quotes
    PROVE  /\ Feed(s, c) \in Scanners
           /\ Feed(s, c).at = s.at + 1
           /\ Feed(s, c).depth = s.depth
           /\ Feed(s, c).start = s.start
           /\ Feed(s, c).in_str = TRUE
           /\ Feed(s, c).quote = c
           /\ Feed(s, c).esc = s.esc
           /\ Feed(s, c).spans = s.spans
PROOF
<1>. DEFINE r == Feed(s, c)
<1>1. r = [[s EXCEPT !.in_str = TRUE, !.quote = c] EXCEPT !.at = s.at + 1]
  <2>1. Char(s, c) = OpenString(s, c)
    BY ScannerFields, CharKinds DEF Char
  <2>. QED
    BY <2>1, ScannerFields DEF Feed, OpenString, Scanners
<1>. HIDE DEF r
<1>4. r = [at |-> s.at + 1, depth |-> s.depth, start |-> s.start, in_str |-> TRUE,
           quote |-> c, esc |-> s.esc, spans |-> s.spans]
  BY <1>1 DEF Scanners
<1>5. r \in Scanners
  BY <1>4, ScannerFields DEF Scanners
<1>6. /\ r.at = s.at + 1 /\ r.depth = s.depth /\ r.start = s.start /\ r.in_str = TRUE
      /\ r.quote = c /\ r.esc = s.esc /\ r.spans = s.spans
  BY <1>4
<1>. QED
  BY <1>5, <1>6 DEF r

\* An opening bracket.
LEMMA FedOpener ==
    ASSUME NEW s \in Scanners, NEW c \in Chars, ~s.in_str, c \in Openers
    PROVE  /\ Feed(s, c) \in Scanners
           /\ Feed(s, c).at = s.at + 1
           /\ Feed(s, c).depth = s.depth + 1
           /\ Feed(s, c).start = (IF s.depth = 0 THEN s.at ELSE s.start)
           /\ Feed(s, c).in_str = s.in_str
           /\ Feed(s, c).quote = s.quote
           /\ Feed(s, c).esc = s.esc
           /\ Feed(s, c).spans = s.spans
PROOF
<1>. DEFINE r == Feed(s, c)
<1>1. r = [[s EXCEPT !.depth = s.depth + 1,
                     !.start = IF s.depth = 0 THEN s.at ELSE s.start] EXCEPT !.at = s.at + 1]
  <2>1. Char(s, c) = OpenBracket(s)
    <3>1. c \notin Quotes /\ c \notin Closers
      BY CharKinds
    <3>2. s.depth > 0 \/ s.depth = 0
      BY ScannerFields
    <3>. QED
      BY <3>1, <3>2 DEF Char
  <2>. QED
    BY <2>1, ScannerFields DEF Feed, OpenBracket, Scanners
<1>. HIDE DEF r
<1>4. r = [at |-> s.at + 1, depth |-> s.depth + 1,
           start |-> IF s.depth = 0 THEN s.at ELSE s.start, in_str |-> s.in_str,
           quote |-> s.quote, esc |-> s.esc, spans |-> s.spans]
  BY <1>1 DEF Scanners
<1>5. r \in Scanners
  BY <1>4, ScannerFields DEF Scanners
<1>6. /\ r.at = s.at + 1 /\ r.depth = s.depth + 1
      /\ r.start = (IF s.depth = 0 THEN s.at ELSE s.start) /\ r.in_str = s.in_str
      /\ r.quote = s.quote /\ r.esc = s.esc /\ r.spans = s.spans
  BY <1>4
<1>. QED
  BY <1>5, <1>6 DEF r

\* A closing bracket, but the last.
LEMMA FedCloser ==
    ASSUME NEW s \in Scanners, NEW c \in Chars, ~s.in_str, c \in Closers, s.depth > 1
    PROVE  /\ Feed(s, c) \in Scanners
           /\ Feed(s, c).at = s.at + 1
           /\ Feed(s, c).depth = s.depth - 1
           /\ Feed(s, c).start = s.start
           /\ Feed(s, c).in_str = s.in_str
           /\ Feed(s, c).quote = s.quote
           /\ Feed(s, c).esc = s.esc
           /\ Feed(s, c).spans = s.spans
PROOF
<1>. DEFINE r == Feed(s, c)
<1>1. r = [[s EXCEPT !.depth = s.depth - 1] EXCEPT !.at = s.at + 1]
  <2>1. Char(s, c) = CloseBracket(s)
    <3>1. c \notin Quotes /\ c \notin Openers
      BY CharKinds
    <3>2. s.depth > 0 \/ s.depth = 0
      BY ScannerFields
    <3>. QED
      BY <3>1, <3>2 DEF Char
  <2>. QED
    BY <2>1, ScannerFields DEF Feed, CloseBracket, Scanners
<1>3. s.depth - 1 \in Nat
  BY ScannerFields
<1>. HIDE DEF r
<1>4. r = [at |-> s.at + 1, depth |-> s.depth - 1, start |-> s.start, in_str |-> s.in_str,
           quote |-> s.quote, esc |-> s.esc, spans |-> s.spans]
  BY <1>1 DEF Scanners
<1>5. r \in Scanners
  BY <1>4, ScannerFields, <1>3 DEF Scanners
<1>6. /\ r.at = s.at + 1 /\ r.depth = s.depth - 1 /\ r.start = s.start
      /\ r.in_str = s.in_str /\ r.quote = s.quote /\ r.esc = s.esc /\ r.spans = s.spans
  BY <1>4
<1>. QED
  BY <1>5, <1>6 DEF r

\* The last closing bracket.
LEMMA FedLast ==
    ASSUME NEW s \in Scanners, NEW c \in Chars, ~s.in_str, c \in Closers, s.depth = 1
    PROVE  /\ Feed(s, c) \in Scanners
           /\ Feed(s, c).at = s.at + 1
           /\ Feed(s, c).depth = 0
           /\ Feed(s, c).start = -1
           /\ Feed(s, c).in_str = s.in_str
           /\ Feed(s, c).quote = s.quote
           /\ Feed(s, c).esc = s.esc
           /\ Feed(s, c).spans = Append(s.spans, <<s.start, s.at + 1>>)
PROOF
<1>. DEFINE r == Feed(s, c)
<1>1. r = [[s EXCEPT !.depth = 0, !.start = -1,
                     !.spans = Append(s.spans, <<s.start, s.at + 1>>)] EXCEPT !.at = s.at + 1]
  <2>1. Char(s, c) = CloseBracket(s)
    <3>1. c \notin Quotes /\ c \notin Openers
      BY CharKinds
    <3>2. s.depth > 0 \/ s.depth = 0
      BY ScannerFields
    <3>. QED
      BY <3>1, <3>2 DEF Char
  <2>. QED
    BY <2>1, ScannerFields DEF Feed, CloseBracket, Scanners
<1>3. Append(s.spans, <<s.start, s.at + 1>>) \in Seq(Int \X Nat)
  BY ScannerFields
<1>. HIDE DEF r
<1>4. r = [at |-> s.at + 1, depth |-> 0, start |-> -1, in_str |-> s.in_str,
           quote |-> s.quote, esc |-> s.esc,
           spans |-> Append(s.spans, <<s.start, s.at + 1>>)]
  BY <1>1 DEF Scanners
<1>5. r \in Scanners
  BY <1>4, ScannerFields, <1>3 DEF Scanners
<1>6. /\ r.at = s.at + 1 /\ r.depth = 0 /\ r.start = -1 /\ r.in_str = s.in_str
      /\ r.quote = s.quote /\ r.esc = s.esc
      /\ r.spans = Append(s.spans, <<s.start, s.at + 1>>)
  BY <1>4
<1>. QED
  BY <1>5, <1>6 DEF r

\* Anything else.
LEMMA FedOther ==
    ASSUME NEW s \in Scanners, NEW c \in Chars, ~s.in_str, c \notin Openers,
           s.depth = 0 \/ c \notin Quotes \union Closers
    PROVE  /\ Feed(s, c) \in Scanners
           /\ Feed(s, c).at = s.at + 1
           /\ Feed(s, c).depth = s.depth
           /\ Feed(s, c).start = s.start
           /\ Feed(s, c).in_str = s.in_str
           /\ Feed(s, c).quote = s.quote
           /\ Feed(s, c).esc = s.esc
           /\ Feed(s, c).spans = s.spans
PROOF
<1>. DEFINE r == Feed(s, c)
<1>1. r = [s EXCEPT !.at = s.at + 1]
  <2>1. Char(s, c) = s
    <3>1. ~(s.depth > 0 /\ c \in Quotes) /\ ~(c \in Closers /\ s.depth > 0)
      BY ScannerFields
    <3>2. s.depth > 0 \/ s.depth = 0
      BY ScannerFields
    <3>. QED
      BY <3>1, <3>2 DEF Char
  <2>. QED
    BY <2>1, ScannerFields DEF Feed, Scanners
<1>. HIDE DEF r
<1>4. r = [at |-> s.at + 1, depth |-> s.depth, start |-> s.start, in_str |-> s.in_str,
           quote |-> s.quote, esc |-> s.esc, spans |-> s.spans]
  BY <1>1 DEF Scanners
<1>5. r \in Scanners
  BY <1>4, ScannerFields DEF Scanners
<1>6. /\ r.at = s.at + 1 /\ r.depth = s.depth /\ r.start = s.start /\ r.in_str = s.in_str
      /\ r.quote = s.quote /\ r.esc = s.esc /\ r.spans = s.spans
  BY <1>4
<1>. QED
  BY <1>5, <1>6 DEF r

-----------------------------------------------------------------------------
(***************************************************************************)
(* What Balanced and Quoted say, as equations.                             *)
(***************************************************************************)
BalancedBy(g, t) ==
    \/ t = <<>>
    \/ t[1] \notin Openers \union Closers \union Quotes /\ g[Tail(t)]
    \/ \E i \in 2..Len(t) :
        /\ \/ Quoted(SubSeq(t, 1, i))
           \/ /\ t[1] \in Openers
              /\ t[i] = Partner[t[1]]
              /\ g[SubSeq(t, 2, i - 1)]
        /\ g[SubSeq(t, i + 1, Len(t))]

LEMMA BalancedHolds ==
    \A t \in Seq(Chars) : Balanced[t] <=> BalancedBy(Balanced, t)
PROOF
<1>. DEFINE S == Seq(Chars)
            size == [t \in S |-> Len(t)]
            F == [g \in [S -> BOOLEAN] |-> [t \in S |-> BalancedBy(g, t)]]
<1>1. size \in [S -> Nat]
  OBVIOUS
<1>2. F \in [[S -> BOOLEAN] -> [S -> BOOLEAN]]
  BY DEF BalancedBy
<1>3. Decreasing(S, BOOLEAN, size, F)
  <2>. SUFFICES ASSUME NEW g \in [S -> BOOLEAN], NEW h \in [S -> BOOLEAN], NEW t \in S,
                       \A u \in S : size[u] < size[t] => g[u] = h[u]
                PROVE  F[g][t] = F[h][t]
    BY Zenon DEF Decreasing
  <2>0. \A u \in S : Len(u) < Len(t) => g[u] = h[u]
    OBVIOUS
  <2>1. t # <<>> => g[Tail(t)] = h[Tail(t)]
    <3>1. t # <<>> => Tail(t) \in S /\ Len(Tail(t)) < Len(t)
      OBVIOUS
    <3>. QED
      BY <2>0, <3>1
  <2>2. ASSUME NEW i \in 2..Len(t)
        PROVE  /\ g[SubSeq(t, 2, i - 1)] = h[SubSeq(t, 2, i - 1)]
               /\ g[SubSeq(t, i + 1, Len(t))] = h[SubSeq(t, i + 1, Len(t))]
    <3>1. SubSeq(t, 2, i - 1) \in S /\ Len(SubSeq(t, 2, i - 1)) < Len(t)
      BY Pieces
    <3>2. SubSeq(t, i + 1, Len(t)) \in S /\ Len(SubSeq(t, i + 1, Len(t))) < Len(t)
      BY Pieces
    <3>. QED
      BY <2>0, <3>1, <3>2
  <2>3. BalancedBy(g, t) = BalancedBy(h, t)
    BY <2>1, <2>2, Zenon DEF BalancedBy
  <2>. QED
    BY <2>3, Zenon
<1>4. PICK f \in [S -> BOOLEAN] : f = F[f]
  <2>. HIDE DEF F, S, size
  <2>1. BOOLEAN # {}
    OBVIOUS
  <2>2. PICK f \in [S -> BOOLEAN] : Solves(f, F)
    BY <1>1, <1>2, <1>3, <2>1, RecursionHolds, Zenon
  <2>. QED
    BY <2>2 DEF Solves
<1>5. \E g : g = [t \in S |-> BalancedBy(g, t)]
  BY <1>4
<1>6. Balanced = [t \in S |-> BalancedBy(Balanced, t)]
  BY <1>5, Zenon DEF Balanced, BalancedBy
<1>. QED
  BY <1>6

LEMMA EscapesHold ==
    ASSUME NEW t, Len(t) \in Nat, Quoted(t)
    PROVE  \E e \in [1..Len(t) -> BOOLEAN] :
              /\ \A i \in 1..Len(t) : e[i] = (i > 2 /\ t[i - 1] = "\\" /\ ~e[i - 1])
              /\ \A i \in 2..Len(t) : t[i] = t[1] => (i = Len(t)) # e[i]
PROOF
<1>. DEFINE S == 1..Len(t)
            By(g, i) == i > 2 /\ t[i - 1] = "\\" /\ ~g[i - 1]
            size == [i \in S |-> i]
            F == [g \in [S -> BOOLEAN] |-> [i \in S |-> By(g, i)]]
            E == CHOOSE e : e = [i \in S |-> i > 2 /\ t[i - 1] = "\\" /\ ~e[i - 1]]
<1>1. size \in [S -> Nat]
  OBVIOUS
<1>2. F \in [[S -> BOOLEAN] -> [S -> BOOLEAN]]
  OBVIOUS
<1>3. Decreasing(S, BOOLEAN, size, F)
  <2>. SUFFICES ASSUME NEW g \in [S -> BOOLEAN], NEW h \in [S -> BOOLEAN], NEW i \in S,
                       \A j \in S : size[j] < size[i] => g[j] = h[j]
                PROVE  F[g][i] = F[h][i]
    BY Zenon DEF Decreasing
  <2>1. i > 2 => i - 1 \in S /\ size[i - 1] < size[i]
    OBVIOUS
  <2>2. i > 2 => g[i - 1] = h[i - 1]
    BY <2>1
  <2>3. By(g, i) = By(h, i)
    BY <2>2, Zenon
  <2>. QED
    BY <2>3, Zenon
<1>4. PICK f \in [S -> BOOLEAN] : f = F[f]
  <2>. HIDE DEF F, S, size
  <2>1. BOOLEAN # {}
    OBVIOUS
  <2>2. PICK f \in [S -> BOOLEAN] : Solves(f, F)
    BY <1>1, <1>2, <1>3, <2>1, RecursionHolds, Zenon
  <2>. QED
    BY <2>2 DEF Solves
<1>5. \E e : e = [i \in S |-> i > 2 /\ t[i - 1] = "\\" /\ ~e[i - 1]]
  <2>1. F[f] = [i \in S |-> i > 2 /\ t[i - 1] = "\\" /\ ~f[i - 1]]
    OBVIOUS
  <2>. HIDE DEF F
  <2>. QED
    BY <1>4, <2>1
<1>6. E = [i \in S |-> i > 2 /\ t[i - 1] = "\\" /\ ~E[i - 1]]
  BY <1>5, Zenon
<1>7. \A i \in 2..Len(t) : t[i] = t[1] => (i = Len(t)) # E[i]
  BY Zenon DEF Quoted
<1>. HIDE DEF E
<1>8. E \in [S -> BOOLEAN] /\ \A i \in S : E[i] = (i > 2 /\ t[i - 1] = "\\" /\ ~E[i - 1])
  BY <1>6, Zenon
<1>. QED
  BY <1>7, <1>8, Zenon

-----------------------------------------------------------------------------
(***************************************************************************)
(* Closed regions are passed.                                              *)
(***************************************************************************)
\* h is what the locals of the loop were before each character of t and after it.
Scanned(h, t) ==
    /\ t \in Seq(Chars)
    /\ h \in [0..Len(t) -> Scanners]
    /\ h[0] = Fresh
    /\ \A i \in 1..Len(t) : h[i] = Feed(h[i - 1], t[i])

\* Back where it was, between strings.
Level(s, r) ==
    ~r.in_str /\ ~r.esc /\ r.depth = s.depth /\ r.start = s.start /\ r.spans = s.spans

LEMMA ScannedAt ==
    ASSUME NEW h, NEW t, Scanned(h, t)
    PROVE  /\ Len(t) \in Nat
           /\ \A i \in 0..Len(t) : h[i] \in Scanners
           /\ \A i \in 1..Len(t) : /\ t[i] \in Chars /\ i - 1 \in 0..Len(t)
                                   /\ h[i] = Feed(h[i - 1], t[i])
  BY DEF Scanned

\* A quoted string is passed.
LEMMA QuotedPassed ==
    ASSUME NEW h, NEW t, Scanned(h, t),
           NEW a \in 0..Len(t), NEW m \in 1..(Len(t) - a), Quoted(SubSeq(t, a + 1, a + m)),
           ~h[a].in_str, ~h[a].esc, h[a].depth > 0
    PROVE  Level(h[a], h[a + m])
PROOF
<1>. DEFINE q == SubSeq(t, a + 1, a + m)
<1>0. /\ a \in Nat /\ m \in Nat /\ m > 0 /\ Len(t) \in Nat /\ a + m <= Len(t)
      /\ \A k \in 1..m : a + k \in 1..Len(t) /\ a + k - 1 \in 0..Len(t)
  BY ScannedAt
<1>1. Len(q) = m /\ \A k \in 1..m : q[k] = t[a + k]
  <2>1. t \in Seq(Chars)
    BY DEF Scanned
  <2>2. /\ a + 1 \in 1..(Len(t) + 1) /\ a + m \in 0..Len(t) /\ a + 1 <= a + m
        /\ (a + m) - (a + 1) + 1 = m
    BY <1>0
  <2>3. \A k \in 1..m : (a + 1) + k - 1 = a + k
    BY <1>0
  <2>. HIDE DEF q
  <2>. QED
    BY <2>1, <2>2, <2>3, Pieces DEF q
<1>. HIDE DEF q
<1>2. PICK e \in [1..m -> BOOLEAN] :
          /\ \A i \in 1..m : e[i] = (i > 2 /\ q[i - 1] = "\\" /\ ~e[i - 1])
          /\ \A i \in 2..m : q[i] = q[1] => (i = m) # e[i]
  <2>1. Quoted(q) /\ Len(q) \in Nat /\ Len(q) = m
    BY <1>0, <1>1 DEF q
  <2>2. \E e \in [1..Len(q) -> BOOLEAN] :
          /\ \A i \in 1..Len(q) : e[i] = (i > 2 /\ q[i - 1] = "\\" /\ ~e[i - 1])
          /\ \A i \in 2..Len(q) : q[i] = q[1] => (i = Len(q)) # e[i]
    BY <2>1, EscapesHold, Zenon
  <2>. QED
    BY <2>1, <2>2, Zenon
<1>3. m >= 2 /\ q[1] \in Quotes /\ q[m] = q[1]
  BY <1>1 DEF Quoted, q
<1>4. \A k \in 1..m : h[a + k] \in Scanners /\ h[a + k - 1] \in Scanners
                      /\ q[k] \in Chars /\ h[a + k] = Feed(h[a + k - 1], q[k])
  BY <1>0, <1>1, ScannedAt
<1>. DEFINE Within(k) ==
        /\ h[a + k].in_str /\ h[a + k].quote = q[1] /\ h[a + k].depth = h[a].depth
        /\ h[a + k].start = h[a].start /\ h[a + k].spans = h[a].spans
        /\ h[a + k].esc = e[k + 1]
<1>5. Within(1)
  <2>1. h[a + 1] = Feed(h[a], q[1]) /\ h[a] \in Scanners /\ q[1] \in Chars
    <3>1. a + 1 - 1 = a /\ 1 \in 1..m
      BY <1>0
    <3>. QED
      BY <1>4, <3>1
  <2>2. e[1 + 1] = FALSE
    <3>1. 1 + 1 \in 1..m /\ ~(1 + 1 > 2)
      BY <1>0, <1>3
    <3>. QED
      BY <1>2, <3>1
  <2>3. h[a].esc = FALSE
    BY <2>1, ScannerFields
  <2>4. /\ h[a + 1].in_str = TRUE /\ h[a + 1].quote = q[1] /\ h[a + 1].depth = h[a].depth
        /\ h[a + 1].start = h[a].start /\ h[a + 1].spans = h[a].spans
        /\ h[a + 1].esc = h[a].esc
    <3>. DEFINE s == h[a]
                c == q[1]
    <3>1. s \in Scanners /\ c \in Chars /\ ~s.in_str /\ s.depth > 0 /\ c \in Quotes
      BY <1>3, <2>1
    <3>. HIDE DEF s, c
    <3>2. /\ Feed(s, c).in_str = TRUE /\ Feed(s, c).quote = c /\ Feed(s, c).depth = s.depth
          /\ Feed(s, c).start = s.start /\ Feed(s, c).spans = s.spans
          /\ Feed(s, c).esc = s.esc
      BY <3>1, FedQuote
    <3>. QED
      BY <2>1, <3>2 DEF s, c
  <2>. QED
    BY <2>2, <2>3, <2>4
<1>6. ASSUME NEW k \in 1..m, k + 1 < m, Within(k) PROVE Within(k + 1)
  <2>1. /\ k + 1 \in 2..m /\ k + 2 \in 1..m /\ k + 1 \in 1..m /\ a + (k + 1) - 1 = a + k
        /\ k + 2 > 2 /\ (k + 2) - 1 = k + 1 /\ k + 1 # m /\ (k + 1) + 1 = k + 2
    <3>1. a \in Nat /\ m \in Nat /\ k \in Nat /\ 1 <= k /\ k + 1 < m
      BY <1>0, <1>6
    <3>. QED
      BY <3>1
  <2>2. h[a + (k + 1)] = Feed(h[a + k], q[k + 1]) /\ h[a + k] \in Scanners /\ q[k + 1] \in Chars
    BY <1>4, <2>1
  <2>3. e[k + 2] = (q[k + 1] = "\\" /\ ~e[k + 1])
    BY <1>2, <2>1
  <2>4. q[k + 1] = q[1] => e[k + 1]
    BY <1>2, <2>1
  <2>5. /\ h[a + (k + 1)].in_str = (h[a + k].esc \/ q[k + 1] # h[a + k].quote)
        /\ h[a + (k + 1)].esc = (~h[a + k].esc /\ q[k + 1] = "\\")
        /\ h[a + (k + 1)].quote = h[a + k].quote /\ h[a + (k + 1)].depth = h[a + k].depth
        /\ h[a + (k + 1)].start = h[a + k].start /\ h[a + (k + 1)].spans = h[a + k].spans
    BY <1>6, <2>2, FedInString
  <2>. QED
    BY <1>6, <2>1, <2>3, <2>4, <2>5
<1>7. Within(m - 1)
  <2>. DEFINE D == {k \in Nat : k + 1 < m => Within(k + 1)}
  <2>1. 0 \in D
    BY <1>5
  <2>2. ASSUME NEW k \in Nat, k \in D PROVE k + 1 \in D
    <3>. SUFFICES ASSUME (k + 1) + 1 < m PROVE Within((k + 1) + 1)
      OBVIOUS
    <3>1. k + 1 \in 1..m /\ (k + 1) + 1 < m /\ k + 1 < m
      BY <1>0
    <3>2. Within(k + 1)
      BY <2>2, <3>1
    <3>. HIDE DEF Within
    <3>. QED
      BY <1>6, <3>1, <3>2
  <2>. HIDE DEF D
  <2>3. \A k \in Nat : k \in D
    BY <2>1, <2>2, NatSet
  <2>4. m - 2 \in Nat /\ (m - 2) + 1 < m /\ (m - 2) + 1 = m - 1
    BY <1>0, <1>3
  <2>5. m - 2 \in D
    BY <2>3, <2>4
  <2>. QED
    BY <2>4, <2>5 DEF D
<1>8. /\ h[a + m] = Feed(h[a + (m - 1)], q[m]) /\ h[a + (m - 1)] \in Scanners /\ q[m] \in Chars
      /\ (m - 1) + 1 = m /\ m \in 2..m
  <2>1. m \in 1..m /\ a + m - 1 = a + (m - 1) /\ (m - 1) + 1 = m /\ m \in 2..m
    BY <1>0, <1>3
  <2>. QED
    BY <1>4, <2>1
<1>9. ~e[m]
  BY <1>2, <1>3, <1>8
<1>10. q[m] # "\\"
  BY <1>3, CharKinds
<1>. QED
  BY <1>3, <1>7, <1>8, <1>9, <1>10, FedInString DEF Level

LEMMA LevelStays ==
    ASSUME NEW s, NEW r, NEW u, Level(s, r), Level(r, u)
    PROVE  Level(s, u)
  BY DEF Level

\* A region the scanner enters between strings, with a bracket open.
Entered(h, a) == ~h[a].in_str /\ ~h[a].esc /\ h[a].depth > 0

LEMMA LevelEntered ==
    ASSUME NEW h, NEW a, NEW b, Entered(h, a), Level(h[a], h[b])
    PROVE  Entered(h, b)
  BY DEF Level, Entered

\* What is passed by longer and longer regions.
Passed(h, t, n) ==
    \A a \in 0..Len(t), m \in 0..n :
        a + m <= Len(t) /\ Balanced[SubSeq(t, a + 1, a + m)] /\ Entered(h, a)
            => Level(h[a], h[a + m])

LEMMA OtherPassed ==
    ASSUME NEW h, NEW t, Scanned(h, t), NEW a \in 0..Len(t), a < Len(t), Entered(h, a),
           t[a + 1] \notin Openers \union Closers \union Quotes
    PROVE  Level(h[a], h[a + 1])
PROOF
<1>1. /\ a + 1 \in 1..Len(t) /\ (a + 1) - 1 = a
  BY ScannedAt
<1>2. h[a] \in Scanners /\ t[a + 1] \in Chars /\ h[a + 1] = Feed(h[a], t[a + 1])
  BY <1>1, ScannedAt
<1>. DEFINE s == h[a]
            c == t[a + 1]
<1>3. /\ s \in Scanners /\ c \in Chars /\ ~s.in_str /\ c \notin Openers
      /\ c \notin Quotes \union Closers
  BY <1>2 DEF Entered
<1>. HIDE DEF s, c
<1>4. /\ Feed(s, c).in_str = s.in_str /\ Feed(s, c).esc = s.esc /\ Feed(s, c).depth = s.depth
      /\ Feed(s, c).start = s.start /\ Feed(s, c).spans = s.spans
  BY <1>3, FedOther
<1>. QED
  BY <1>2, <1>4 DEF s, c, Level, Entered

\* Brackets that belong together, with what is between them passed.
LEMMA PairPassed ==
    ASSUME NEW h, NEW t, Scanned(h, t), NEW a \in 0..Len(t), NEW i \in 2..Len(t), a + i <= Len(t),
           Entered(h, a), t[a + 1] \in Openers, t[a + i] = Partner[t[a + 1]],
           Entered(h, a + 1) => Level(h[a + 1], h[a + i - 1])
    PROVE  Level(h[a], h[a + i])
PROOF
<1>1. /\ /\ a + 1 \in 1..Len(t) /\ (a + 1) - 1 = a /\ a + i \in 1..Len(t)
      /\ a + i - 1 \in 0..Len(t)
  BY ScannedAt
<1>2. h[a] \in Scanners /\ t[a + 1] \in Chars /\ h[a + 1] = Feed(h[a], t[a + 1])
  BY <1>1, ScannedAt
<1>3. /\ /\ h[a + i - 1] \in Scanners /\ t[a + i] \in Chars
      /\ h[a + i] = Feed(h[a + i - 1], t[a + i])
  BY <1>1, ScannedAt
<1>. DEFINE s == h[a]
            c == t[a + 1]
            r == h[a + i - 1]
            d == t[a + i]
<1>4. /\ s \in Scanners /\ c \in Chars /\ ~s.in_str /\ ~s.esc /\ s.depth > 0 /\ c \in Openers
      /\ r \in Scanners /\ d \in Chars
  BY <1>2, <1>3 DEF Entered
<1>5. d \in Closers
  BY CharKinds
<1>. HIDE DEF s, c, r, d
<1>6. /\ /\ Feed(s, c).in_str = s.in_str /\ Feed(s, c).esc = s.esc
      /\ Feed(s, c).depth = s.depth + 1
      /\ Feed(s, c).start = s.start /\ Feed(s, c).spans = s.spans
  BY <1>4, FedOpener, ScannerFields
<1>7. Entered(h, a + 1)
  BY <1>2, <1>4, <1>6, ScannerFields DEF Entered, s, c
<1>8. Level(Feed(s, c), r)
  BY <1>2, <1>7 DEF s, c, r
<1>9. ~r.in_str /\ ~r.esc /\ r.depth = s.depth + 1 /\ r.start = s.start /\ r.spans = s.spans
  BY <1>6, <1>8 DEF Level
<1>10. r.depth > 1 /\ s.depth \in Nat
  BY <1>4, <1>9, ScannerFields
<1>11. /\ /\ Feed(r, d).in_str = r.in_str /\ Feed(r, d).esc = r.esc
       /\ Feed(r, d).depth = r.depth - 1
       /\ Feed(r, d).start = r.start /\ Feed(r, d).spans = r.spans
  BY <1>4, <1>5, <1>9, <1>10, FedCloser
<1>12. Level(s, Feed(r, d))
  BY <1>9, <1>10, <1>11 DEF Level
<1>. QED
  BY <1>3, <1>12 DEF s, r, d

LEMMA PassedMore ==
    ASSUME NEW h, NEW t, Scanned(h, t), NEW n \in Nat, Passed(h, t, n)
    PROVE  Passed(h, t, n + 1)
PROOF
<1>. SUFFICES ASSUME NEW a \in 0..Len(t), NEW m \in 0..(n + 1), a + m <= Len(t),
                     Balanced[SubSeq(t, a + 1, a + m)], Entered(h, a)
              PROVE  Level(h[a], h[a + m])
  BY DEF Passed
<1>. DEFINE u == SubSeq(t, a + 1, a + m)
<1>0. /\ t \in Seq(Chars) /\ Len(t) \in Nat /\ a \in Nat /\ m \in Nat /\ m \in 0..(Len(t) - a)
  BY ScannedAt DEF Scanned
<1>1. CASE m <= n
  <2>1. m \in 0..n
    BY <1>0, <1>1
  <2>. QED
    BY <2>1 DEF Passed
<1>2. CASE m = n + 1
  <2>1. u \in Seq(Chars) /\ Len(u) = m /\ \A k \in 1..m : u[k] = t[a + k]
    <3>1. /\ a + 1 \in 1..(Len(t) + 1) /\ a + m \in 0..Len(t) /\ a + 1 <= a + m
          /\ (a + m) - (a + 1) + 1 = m
      BY <1>0, <1>2
    <3>2. \A k \in 1..m : (a + 1) + k - 1 = a + k
      BY <1>0
    <3>3. /\ u \in Seq(Chars) /\ Len(u) = m
          /\ \A k \in 1..((a + m) - (a + 1) + 1) : u[k] = t[(a + 1) + k - 1]
      BY <1>0, <3>1, Pieces
    <3>. HIDE DEF u
    <3>. QED
      BY <3>1, <3>2, <3>3
  <2>2. BalancedBy(Balanced, u)
    BY <2>1, BalancedHolds
  <2>3. \A i \in 1..(m + 1), j \in 0..m : SubSeq(u, i, j) = SubSeq(t, a + i, a + j)
    BY <1>0, PieceOfPiece
  <2>. HIDE DEF u
  <2>4. u # <<>> /\ 1 \in 1..m
    BY <1>0, <1>2, <2>1
  <2>5. CASE u[1] \notin Openers \union Closers \union Quotes /\ Balanced[Tail(u)]
    <3>1. Level(h[a], h[a + 1])
      <4>1. a < Len(t) /\ u[1] = t[a + 1]
        BY <1>0, <1>2, <2>1, <2>4
      <4>. QED
        BY <2>5, <4>1, OtherPassed
    <3>2. /\ a + 1 \in 0..Len(t) /\ m - 1 \in 0..n /\ (a + 1) + (m - 1) = a + m
          /\ a + 2 = (a + 1) + 1 /\ 2 \in 1..(m + 1) /\ m \in 0..m
      BY <1>0, <1>2
    <3>3. Tail(u) = SubSeq(u, 2, m)
      BY <2>1, <2>4
    <3>4. Tail(u) = SubSeq(t, (a + 1) + 1, (a + 1) + (m - 1))
      BY <2>3, <3>2, <3>3
    <3>5. Entered(h, a + 1)
      BY <3>1, LevelEntered
    <3>6. Level(h[a + 1], h[(a + 1) + (m - 1)])
      BY <2>5, <3>2, <3>4, <3>5 DEF Passed
    <3>. QED
      BY <3>1, <3>2, <3>6, LevelStays
  <2>6. ASSUME NEW i \in 2..m, Level(h[a], h[a + i]), Balanced[SubSeq(u, i + 1, m)]
        PROVE  Level(h[a], h[a + m])
    <3>1. /\ a + i \in 0..Len(t) /\ m - i \in 0..n /\ (a + i) + (m - i) = a + m
          /\ a + (i + 1) = (a + i) + 1 /\ i + 1 \in 1..(m + 1) /\ m \in 0..m
      BY <1>0, <1>2
    <3>2. SubSeq(u, i + 1, m) = SubSeq(t, (a + i) + 1, (a + i) + (m - i))
      BY <2>3, <3>1
    <3>3. Entered(h, a + i)
      BY <2>6, LevelEntered
    <3>4. Level(h[a + i], h[(a + i) + (m - i)])
      BY <2>6, <3>1, <3>2, <3>3 DEF Passed
    <3>. QED
      BY <2>6, <3>1, <3>4, LevelStays
  <2>7. ASSUME NEW i \in 2..m, Quoted(SubSeq(u, 1, i)) PROVE Level(h[a], h[a + i])
    <3>0. 1 \in 1..(m + 1) /\ i \in 0..m /\ i \in 1..(Len(t) - a)
      BY <1>0
    <3>1. SubSeq(u, 1, i) = SubSeq(t, a + 1, a + i)
      BY <2>3, <3>0
    <3>. QED
      BY <2>7, <3>0, <3>1, QuotedPassed DEF Entered
  <2>8. ASSUME NEW i \in 2..m, u[1] \in Openers, u[i] = Partner[u[1]],
               Balanced[SubSeq(u, 2, i - 1)]
        PROVE  Level(h[a], h[a + i])
    <3>1. /\ i \in 1..m /\ i \in 2..Len(t) /\ a + i <= Len(t)
          /\ a + 1 \in 0..Len(t) /\ i - 2 \in 0..n /\ (a + 1) + (i - 2) = a + i - 1
          /\ (a + 1) + (i - 2) <= Len(t)
          /\ a + 2 = (a + 1) + 1 /\ 2 \in 1..(m + 1) /\ i - 1 \in 0..m /\ a + (i - 1) = a + i - 1
      BY <1>0, <1>2
    <3>2. u[1] = t[a + 1] /\ u[i] = t[a + i]
      BY <2>1, <2>4, <3>1
    <3>3. SubSeq(u, 2, i - 1) = SubSeq(t, (a + 1) + 1, (a + 1) + (i - 2))
      BY <2>3, <3>1
    <3>4. Entered(h, a + 1) => Level(h[a + 1], h[a + i - 1])
      BY <2>8, <3>1, <3>3 DEF Passed
    <3>. QED
      BY <2>8, <3>1, <3>2, <3>4, PairPassed
  <2>9. \/ u[1] \notin Openers \union Closers \union Quotes /\ Balanced[Tail(u)]
        \/ \E i \in 2..m :
            /\ \/ Quoted(SubSeq(u, 1, i))
               \/ u[1] \in Openers /\ u[i] = Partner[u[1]] /\ Balanced[SubSeq(u, 2, i - 1)]
            /\ Balanced[SubSeq(u, i + 1, m)]
    BY <2>1, <2>2, <2>4, Zenon DEF BalancedBy
  <2>. QED
    BY <2>5, <2>6, <2>7, <2>8, <2>9
<1>. QED
  BY <1>0, <1>1, <1>2

LEMMA BalancedPassed ==
    ASSUME NEW h, NEW t, Scanned(h, t), NEW a \in 0..Len(t), NEW m \in 0..(Len(t) - a),
           Balanced[SubSeq(t, a + 1, a + m)], Entered(h, a)
    PROVE  Level(h[a], h[a + m])
PROOF
<1>. DEFINE D == {n \in Nat : Passed(h, t, n)}
<1>1. 0 \in D
  <2>1. ASSUME NEW b \in 0..Len(t), Entered(h, b) PROVE Level(h[b], h[b + 0])
    <3>1. b + 0 = b
      BY ScannedAt
    <3>. QED
      BY <2>1, <3>1 DEF Level, Entered
  <2>2. \A k \in 0..0 : k = 0
    OBVIOUS
  <2>. QED
    BY <2>1, <2>2 DEF Passed
<1>2. \A n \in Nat : n \in D => n + 1 \in D
  BY PassedMore
<1>. HIDE DEF D
<1>3. \A n \in Nat : n \in D
  BY <1>1, <1>2, NatSet
<1>4. m \in Nat /\ m \in 0..m /\ a + m <= Len(t)
  BY ScannedAt
<1>5. Passed(h, t, m)
  BY <1>3, <1>4 DEF D
<1>. QED
  BY <1>4, <1>5 DEF Passed

-----------------------------------------------------------------------------
(***************************************************************************)
(* An object is found.                                                     *)
(***************************************************************************)
\* Whatever the character: the index goes up, and spans are only added to.
LEMMA FedAlways ==
    ASSUME NEW s \in Scanners, NEW c \in Chars
    PROVE  /\ Feed(s, c) \in Scanners
           /\ Feed(s, c).at = s.at + 1
           /\ \/ Feed(s, c).spans = s.spans
              \/ Feed(s, c).spans = Append(s.spans, <<s.start, s.at + 1>>)
PROOF
<1>1. CASE s.in_str
  BY <1>1, FedInString
<1>2. CASE ~s.in_str /\ c \in Openers
  BY <1>2, FedOpener
<1>3. CASE ~s.in_str /\ c \in Quotes /\ s.depth > 0
  BY <1>3, FedQuote
<1>4. CASE ~s.in_str /\ c \in Closers /\ s.depth > 1
  BY <1>4, FedCloser
<1>5. CASE ~s.in_str /\ c \in Closers /\ s.depth = 1
  BY <1>5, FedLast
<1>6. CASE ~s.in_str /\ c \notin Openers /\ (s.depth = 0 \/ c \notin Quotes \union Closers)
  BY <1>6, FedOther
<1>7. s.depth = 0 \/ s.depth = 1 \/ s.depth > 1
  BY ScannerFields
<1>8. s.depth > 1 => s.depth > 0
  BY ScannerFields
<1>. QED
  BY <1>1, <1>2, <1>3, <1>4, <1>5, <1>6, <1>7, <1>8

LEMMA AtCounts ==
    ASSUME NEW h, NEW t, Scanned(h, t), NEW i \in 0..Len(t)
    PROVE  h[i].at = i
PROOF
<1>. DEFINE D == {n \in Nat : n <= Len(t) => h[n].at = n}
<1>0. i \in Nat /\ i <= Len(t) /\ Len(t) \in Nat
  BY ScannedAt
<1>1. 0 \in D
  <2>1. h[0] = Fresh /\ Fresh.at = 0
    BY DEF Scanned, Fresh
  <2>. QED
    BY <2>1
<1>2. ASSUME NEW n \in Nat, n \in D PROVE n + 1 \in D
  <2>. SUFFICES ASSUME n + 1 <= Len(t) PROVE h[n + 1].at = n + 1
    OBVIOUS
  <2>1. n \in 0..Len(t) /\ n + 1 \in 1..Len(t) /\ (n + 1) - 1 = n /\ n <= Len(t)
    BY <1>0
  <2>2. h[n] \in Scanners /\ t[n + 1] \in Chars /\ h[n + 1] = Feed(h[n], t[n + 1])
    BY <2>1, ScannedAt
  <2>3. h[n].at = n
    BY <1>2, <2>1
  <2>. QED
    BY <2>2, <2>3, FedAlways
<1>. HIDE DEF D
<1>3. \A n \in Nat : n \in D
  BY <1>1, <1>2, NatSet
<1>. QED
  BY <1>0, <1>3 DEF D

\* In prose, quotes mean nothing and no bracket is open.
LEMMA ProsePassed ==
    ASSUME NEW h, NEW t, Scanned(h, t), NEW i \in 0..Len(t),
           \A g \in 1..i : t[g] \notin Openers \union Closers
    PROVE  Level(Fresh, h[i])
PROOF
<1>. DEFINE D == {n \in Nat : n <= i => Level(Fresh, h[n])}
<1>0. i \in Nat /\ i <= Len(t) /\ Len(t) \in Nat
  BY ScannedAt
<1>1. 0 \in D
  <2>1. h[0] = Fresh /\ ~Fresh.in_str /\ ~Fresh.esc
    BY DEF Scanned, Fresh
  <2>2. Level(Fresh, h[0])
    BY <2>1 DEF Level
  <2>. QED
    BY <2>2
<1>2. ASSUME NEW n \in Nat, n \in D PROVE n + 1 \in D
  <2>. SUFFICES ASSUME n + 1 <= i PROVE Level(Fresh, h[n + 1])
    OBVIOUS
  <2>1. n \in 0..Len(t) /\ n + 1 \in 1..Len(t) /\ (n + 1) - 1 = n /\ n + 1 \in 1..i /\ n <= i
    BY <1>0
  <2>2. h[n] \in Scanners /\ t[n + 1] \in Chars /\ h[n + 1] = Feed(h[n], t[n + 1])
    BY <2>1, ScannedAt
  <2>. DEFINE s == h[n]
              c == t[n + 1]
  <2>3. Level(Fresh, s)
    BY <1>2, <2>1
  <2>4. s \in Scanners /\ c \in Chars /\ ~s.in_str /\ s.depth = 0 /\ c \notin Openers
    BY <2>1, <2>2, <2>3 DEF Level, Fresh
  <2>. HIDE DEF s, c
  <2>5. /\ Feed(s, c).in_str = s.in_str /\ Feed(s, c).esc = s.esc /\ Feed(s, c).depth = s.depth
        /\ Feed(s, c).start = s.start /\ Feed(s, c).spans = s.spans
    BY <2>4, FedOther
  <2>6. Level(Fresh, Feed(s, c))
    BY <2>3, <2>5 DEF Level
  <2>. QED
    BY <2>2, <2>6 DEF s, c
<1>. HIDE DEF D
<1>3. \A n \in Nat : n \in D
  BY <1>1, <1>2, NatSet
<1>. QED
  BY <1>0, <1>3 DEF D

LEMMA AppendFirst ==
    ASSUME NEW S, NEW q \in Seq(S), NEW x \in S, q # <<>>
    PROVE  Append(q, x) # <<>> /\ Append(q, x)[1] = q[1]
PROOF
<1>1. Len(Append(q, x)) = Len(q) + 1 /\ Len(q) \in Nat /\ Len(q) # 0
  OBVIOUS
<1>2. 1 \in 1..Len(q)
  BY <1>1
<1>3. Append(q, x)[1] = q[1]
  BY <1>2
<1>. QED
  BY <1>1, <1>3

\* A span that was found stays the first.
LEMMA FirstStays ==
    ASSUME NEW h, NEW t, Scanned(h, t), NEW j \in 0..Len(t), NEW span,
           h[j].spans # <<>>, h[j].spans[1] = span
    PROVE  h[Len(t)].spans # <<>> /\ h[Len(t)].spans[1] = span
PROOF
<1>. DEFINE First(s) == s.spans # <<>> /\ s.spans[1] = span
            D == {n \in Nat : j + n <= Len(t) => First(h[j + n])}
<1>0. j \in Nat /\ Len(t) \in Nat
  BY ScannedAt
<1>1. 0 \in D
  <2>1. j + 0 = j
    BY <1>0
  <2>. QED
    BY <2>1
<1>2. ASSUME NEW n \in Nat, n \in D PROVE n + 1 \in D
  <2>. SUFFICES ASSUME j + (n + 1) <= Len(t) PROVE First(h[j + (n + 1)])
    OBVIOUS
  <2>1. /\ j + n \in 0..Len(t) /\ j + (n + 1) \in 1..Len(t) /\ (j + (n + 1)) - 1 = j + n
        /\ j + n <= Len(t)
    BY <1>0
  <2>. DEFINE s == h[j + n]
              c == t[j + (n + 1)]
  <2>2. s \in Scanners /\ c \in Chars /\ h[j + (n + 1)] = Feed(s, c)
    BY <2>1, ScannedAt
  <2>3. First(s)
    BY <1>2, <2>1
  <2>. HIDE DEF s, c, First
  <2>4. Feed(s, c).spans = s.spans \/ Feed(s, c).spans = Append(s.spans, <<s.start, s.at + 1>>)
    BY <2>2, FedAlways
  <2>5. s.spans \in Seq(Int \X Nat)
    BY <2>2, ScannerFields
  <2>6. First(Feed(s, c))
    <3>1. s.spans # <<>> /\ s.spans[1] = span
      BY <2>3 DEF First
    <3>2. /\ Append(s.spans, <<s.start, s.at + 1>>) # <<>>
          /\ Append(s.spans, <<s.start, s.at + 1>>)[1] = span
      <4>1. <<s.start, s.at + 1>> \in Int \X Nat
        BY <2>2, ScannerFields
      <4>. QED
        BY <2>5, <3>1, <4>1, AppendFirst
    <3>. QED
      BY <2>4, <3>1, <3>2 DEF First
  <2>. QED
    BY <2>2, <2>6
<1>. HIDE DEF D
<1>3. \A n \in Nat : n \in D
  BY <1>1, <1>2, NatSet
<1>4. Len(t) - j \in Nat /\ j + (Len(t) - j) = Len(t)
  BY <1>0
<1>5. Len(t) - j \in D
  BY <1>3, <1>4
<1>. QED
  BY <1>0, <1>4, <1>5 DEF D

\* An object after prose is the first span.
LEMMA WholeFound ==
    ASSUME NEW h, NEW t, Scanned(h, t), NEW i \in 0..Len(t), NEW j \in 0..Len(t), i < j,
           \A g \in 1..i : t[g] \notin Openers \union Closers,
           Whole(SubSeq(t, i + 1, j))
    PROVE  h[j].spans # <<>> /\ h[j].spans[1] = <<i, j>>
PROOF
<1>. DEFINE m == j - i
            u == SubSeq(t, i + 1, j)
<1>0. /\ /\ t \in Seq(Chars) /\ Len(t) \in Nat /\ i \in Nat /\ j \in Nat /\ m \in Nat
      /\ m \in 0..(Len(t) - i)
      /\ i + m = j
  BY ScannedAt DEF Scanned
<1>1. Len(u) = m /\ \A k \in 1..m : u[k] = t[i + k]
  <2>1. /\ i + 1 \in 1..(Len(t) + 1) /\ j \in 0..Len(t) /\ i + 1 <= j
        /\ j - (i + 1) + 1 = m
    BY <1>0
  <2>2. \A k \in 1..m : (i + 1) + k - 1 = i + k
    BY <1>0
  <2>3. Len(u) = m /\ \A k \in 1..(j - (i + 1) + 1) : u[k] = t[(i + 1) + k - 1]
    BY <1>0, <2>1, Pieces
  <2>. HIDE DEF u, m
  <2>. QED
    BY <2>1, <2>2, <2>3
<1>2. /\ m >= 2 /\ u[1] \in Openers /\ u[m] = Partner[u[1]] /\ Balanced[SubSeq(u, 2, m - 1)]
  <2>. HIDE DEF u, m
  <2>1. Whole(u)
    BY DEF u
  <2>. QED
    BY <1>1, <2>1 DEF Whole
<1>3. u[1] = t[i + 1] /\ u[m] = t[j]
  BY <1>0, <1>1, <1>2
<1>4. SubSeq(u, 2, m - 1) = SubSeq(t, (i + 1) + 1, (i + 1) + (m - 2))
  <2>1. /\ 2 \in 1..(m + 1) /\ m - 1 \in 0..m /\ i + 2 = (i + 1) + 1
        /\ i + (m - 1) = (i + 1) + (m - 2)
    BY <1>0, <1>2
  <2>2. u = SubSeq(t, i + 1, i + m)
    BY <1>0
  <2>. HIDE DEF u, m
  <2>. QED
    BY <1>0, <2>1, <2>2, PieceOfPiece
<1>. HIDE DEF u, m
<1>5. /\ i + 1 \in 0..Len(t) /\ i + 1 \in 1..Len(t) /\ (i + 1) - 1 = i /\ j \in 1..Len(t)
      /\ j - 1 \in 0..Len(t) /\ m - 2 \in 0..(Len(t) - (i + 1)) /\ (i + 1) + (m - 2) = j - 1
      /\ (j - 1) + 1 = j
  BY <1>0, <1>2
<1>. DEFINE s == h[i]
            c == t[i + 1]
            r == h[j - 1]
            d == t[j]
<1>6. s \in Scanners /\ c \in Chars /\ h[i + 1] = Feed(s, c)
      /\ r \in Scanners /\ d \in Chars /\ h[j] = Feed(r, d)
  BY <1>5, ScannedAt
<1>7. ~s.in_str /\ ~s.esc /\ s.depth = 0 /\ s.spans = <<>> /\ s.at = i
  BY ProsePassed, AtCounts DEF Level, Fresh
<1>8. c \in Openers /\ d \in Closers
  BY <1>2, <1>3, CharKinds
<1>. HIDE DEF s, c, r, d
<1>9. /\ Feed(s, c).in_str = s.in_str /\ Feed(s, c).esc = s.esc /\ Feed(s, c).depth = 1
      /\ Feed(s, c).start = i /\ Feed(s, c).spans = <<>>
  BY <1>6, <1>7, <1>8, FedOpener
<1>10. Entered(h, i + 1)
  BY <1>6, <1>7, <1>9 DEF Entered
<1>11. Level(h[i + 1], h[(i + 1) + (m - 2)])
  BY <1>2, <1>4, <1>5, <1>10, BalancedPassed
<1>12. Level(Feed(s, c), r)
  BY <1>5, <1>6, <1>11 DEF r
<1>13. ~r.in_str /\ r.depth = 1 /\ r.start = i /\ r.spans = <<>>
  BY <1>9, <1>12 DEF Level
<1>14. r.at = j - 1
  BY <1>5, AtCounts DEF r
<1>15. Feed(r, d).spans = Append(<<>>, <<i, j>>)
  BY <1>5, <1>6, <1>8, <1>13, <1>14, FedLast
<1>. QED
  BY <1>6, <1>15

\* The locals of the loop are what reading the text so far makes of them.
ReadSoFar == \E h : Scanned(h, text) /\ h[Len(text)] = scan

LEMMA ReadNothing == \E h : Scanned(h, <<>>) /\ h[Len(<<>>)] = Fresh
PROOF
<1>. DEFINE h == [k \in 0..0 |-> Fresh]
<1>1. Len(<<>>) = 0 /\ <<>> \in Seq(Chars) /\ 1..0 = {}
  OBVIOUS
<1>2. h \in [0..0 -> Scanners] /\ h[0] = Fresh
  BY FreshTyped
<1>. QED
  BY <1>1, <1>2 DEF Scanned

LEMMA ReadMore ==
    ASSUME NEW t, NEW s, NEW h, Scanned(h, t), h[Len(t)] = s, NEW c \in Chars
    PROVE  \E g : Scanned(g, Append(t, c)) /\ g[Len(Append(t, c))] = Feed(s, c)
PROOF
<1>. DEFINE n == Len(t)
            u == Append(t, c)
            g == [k \in 0..(n + 1) |-> IF k <= n THEN h[k] ELSE Feed(s, c)]
<1>1. /\ n \in Nat /\ u \in Seq(Chars) /\ Len(u) = n + 1 /\ u[n + 1] = c
      /\ \A i \in 1..n : u[i] = t[i]
  BY ScannedAt, TextGrows DEF Scanned
<1>2. s \in Scanners /\ Feed(s, c) \in Scanners
  <2>1. n \in 0..n
    BY <1>1
  <2>2. s \in Scanners
    BY <2>1, ScannedAt
  <2>. QED
    BY <2>2, FedAlways
<1>3. \A k \in 0..n : h[k] \in Scanners /\ g[k] = h[k]
  BY <1>1, ScannedAt
<1>4. g[n + 1] = Feed(s, c) /\ g \in [0..(n + 1) -> Scanners]
  BY <1>1, <1>2, <1>3
<1>. HIDE DEF g, u
<1>5. g[0] = Fresh
  BY <1>1, <1>3 DEF Scanned
<1>6. ASSUME NEW i \in 1..(n + 1) PROVE g[i] = Feed(g[i - 1], u[i])
  <2>1. CASE i = n + 1
    <3>1. i - 1 = n /\ n \in 0..n
      BY <1>1, <2>1
    <3>. QED
      BY <1>1, <1>3, <1>4, <2>1, <3>1
  <2>2. CASE i # n + 1
    <3>1. i \in 1..n /\ i \in 0..n /\ i - 1 \in 0..n
      BY <1>1, <2>2
    <3>2. h[i] = Feed(h[i - 1], t[i])
      BY <3>1 DEF Scanned
    <3>. QED
      BY <1>1, <1>3, <3>1, <3>2
  <2>. QED
    BY <2>1, <2>2
<1>7. Scanned(g, u)
  BY <1>1, <1>4, <1>5, <1>6 DEF Scanned
<1>. QED
  BY <1>1, <1>4, <1>7 DEF u

LEMMA ReadSoFarNext == ReadSoFar /\ [Next]_vars => ReadSoFar'
PROOF
<1>. SUFFICES ASSUME ReadSoFar, [Next]_vars
              PROVE  \E h : Scanned(h, text') /\ h[Len(text')] = scan'
  BY DEF ReadSoFar
<1>1. CASE Read
  <2>1. PICK c \in Chars : text' = Append(text, c) /\ scan' = Feed(scan, c)
    BY <1>1 DEF Read
  <2>2. PICK h : Scanned(h, text) /\ h[Len(text)] = scan
    BY DEF ReadSoFar
  <2>. QED
    BY <2>1, <2>2, ReadMore
<1>2. CASE EndOfText
  BY <1>2, ReadNothing DEF EndOfText
<1>3. CASE UNCHANGED <<text, scan>>
  BY <1>3 DEF ReadSoFar
<1>4. Read \/ EndOfText \/ UNCHANGED <<text, scan>>
  BY DEF Next, Parse, ParseNative, Begun, Done, reading, vars
<1>. QED
  BY <1>1, <1>2, <1>3, <1>4

LEMMA ReadFinds == ReadSoFar => CallFound
PROOF
<1>. SUFFICES ASSUME ReadSoFar, NEW i \in 0..Len(text), NEW j \in 0..Len(text), i < j,
                     \A g \in 1..i : text[g] \notin Openers \union Closers,
                     Whole(SubSeq(text, i + 1, j))
              PROVE  Spans(scan) # <<>> /\ Spans(scan)[1] = <<i, j>>
  BY DEF CallFound
<1>1. PICK h : Scanned(h, text) /\ h[Len(text)] = scan
  BY DEF ReadSoFar
<1>2. h[j].spans # <<>> /\ h[j].spans[1] = <<i, j>>
  BY <1>1, WholeFound
<1>3. scan.spans # <<>> /\ scan.spans[1] = <<i, j>>
  BY <1>1, <1>2, FirstStays
<1>4. scan \in Scanners /\ Len(text) \in Nat
  <2>1. Len(text) \in Nat /\ Len(text) \in 0..Len(text)
    BY <1>1, ScannedAt
  <2>. QED
    BY <1>1, <2>1, ScannedAt
<1>5. scan.spans \in Seq(Int \X Nat) /\ <<scan.start, scan.at>> \in Int \X Nat
  BY <1>4, ScannerFields
<1>6. /\ Append(scan.spans, <<scan.start, scan.at>>) # <<>>
      /\ Append(scan.spans, <<scan.start, scan.at>>)[1] = scan.spans[1]
  BY <1>3, <1>5, AppendFirst
<1>. QED
  BY <1>3, <1>6 DEF Spans

\* An object the model closed is the first span, whole and nothing but it, in
\* a text of any length, with any prose before it and any nesting, strings and
\* escapes in it (parsing.py:170-223).
THEOREM CallAlwaysFound == Spec => []CallFound
PROOF
<1>1. Init => ReadSoFar
  BY ReadNothing DEF Init, ReadSoFar
<1>. QED
  BY <1>1, ReadSoFarNext, ReadFinds, PTL DEF Spec

-----------------------------------------------------------------------------
(***************************************************************************)
(* What a character does to the locals of _close_unbalanced.               *)
(***************************************************************************)
Stacks == [stack: Seq(Closers), in_str: BOOLEAN, quote: Quotes, esc: BOOLEAN]

LEMMA NothingTyped == Nothing \in Stacks
PROOF
<1>1. <<>> \in Seq(Closers)
  OBVIOUS
<1>. QED
  BY <1>1 DEF Nothing, Stacks, Quotes

LEMMA StackFields ==
    ASSUME NEW k \in Stacks
    PROVE  /\ k.stack \in Seq(Closers) /\ Len(k.stack) \in Nat
           /\ k.in_str \in BOOLEAN /\ k.quote \in Quotes /\ k.esc \in BOOLEAN
  BY DEF Stacks

\* Inside a string.
LEMMA StackInString ==
    ASSUME NEW k \in Stacks, NEW c \in Chars, k.in_str
    PROVE  /\ Stack(k, c) \in Stacks
           /\ Stack(k, c).stack = k.stack
           /\ Stack(k, c).in_str = (k.esc \/ c # k.quote)
           /\ Stack(k, c).quote = k.quote
           /\ Stack(k, c).esc = (~k.esc /\ c = "\\")
PROOF
<1>. DEFINE r == Stack(k, c)
            i == k.esc \/ c # k.quote
            e == ~k.esc /\ c = "\\"
<1>1. r = [k EXCEPT !.in_str = i, !.esc = e]
  BY StackFields DEF Stack, InString, Stacks
<1>2. i \in BOOLEAN /\ e \in BOOLEAN
  OBVIOUS
<1>. HIDE DEF r, i, e
<1>3. r = [stack |-> k.stack, in_str |-> i, quote |-> k.quote, esc |-> e]
  BY <1>1 DEF Stacks
<1>4. r \in Stacks
  BY <1>2, <1>3, StackFields DEF Stacks
<1>. QED
  BY <1>3, <1>4 DEF r, i, e

\* A quote.
LEMMA StackQuote ==
    ASSUME NEW k \in Stacks, NEW c \in Chars, ~k.in_str, c \in Quotes
    PROVE  /\ Stack(k, c) \in Stacks
           /\ Stack(k, c).stack = k.stack
           /\ Stack(k, c).in_str
           /\ Stack(k, c).quote = c
           /\ Stack(k, c).esc = k.esc
PROOF
<1>. DEFINE r == Stack(k, c)
<1>1. r = [k EXCEPT !.in_str = TRUE, !.quote = c]
  BY StackFields, CharKinds DEF Stack, OpenString, Stacks
<1>. HIDE DEF r
<1>2. r = [stack |-> k.stack, in_str |-> TRUE, quote |-> c, esc |-> k.esc]
  BY <1>1 DEF Stacks
<1>3. r \in Stacks
  BY <1>2, StackFields DEF Stacks
<1>. QED
  BY <1>2, <1>3 DEF r

\* An opening bracket: the one that closes it goes on top.
LEMMA StackOpener ==
    ASSUME NEW k \in Stacks, NEW c \in Chars, ~k.in_str, c \in Openers
    PROVE  /\ Stack(k, c) \in Stacks
           /\ Len(Stack(k, c).stack) = Len(k.stack) + 1
           /\ Stack(k, c).stack[1] = Partner[c]
           /\ \A i \in 1..Len(k.stack) : Stack(k, c).stack[i + 1] = k.stack[i]
           /\ ~Stack(k, c).in_str
           /\ Stack(k, c).esc = k.esc
PROOF
<1>. DEFINE r == Stack(k, c)
            st == <<Partner[c]>> \o k.stack
<1>1. r = [k EXCEPT !.stack = st]
  BY StackFields, CharKinds DEF Stack, Stacks
<1>2. /\ st \in Seq(Closers) /\ Len(st) = Len(k.stack) + 1 /\ st[1] = Partner[c]
      /\ \A i \in 1..Len(k.stack) : st[i + 1] = k.stack[i]
  <2>1. Partner[c] \in Closers /\ k.stack \in Seq(Closers)
    BY CharKinds, StackFields
  <2>. QED
    BY <2>1
<1>. HIDE DEF r, st
<1>3. r = [stack |-> st, in_str |-> k.in_str, quote |-> k.quote, esc |-> k.esc]
  BY <1>1 DEF Stacks
<1>4. r \in Stacks
  BY <1>2, <1>3, StackFields DEF Stacks
<1>. QED
  BY <1>2, <1>3, <1>4 DEF r

\* The closing bracket that is due.
LEMMA StackCloser ==
    ASSUME NEW k \in Stacks, NEW c \in Chars, ~k.in_str, c \in Closers,
           k.stack # <<>>, Head(k.stack) = c
    PROVE  /\ Stack(k, c) \in Stacks
           /\ Stack(k, c).stack = Tail(k.stack)
           /\ ~Stack(k, c).in_str
           /\ Stack(k, c).esc = k.esc
PROOF
<1>. DEFINE r == Stack(k, c)
            st == Tail(k.stack)
<1>1. r = [k EXCEPT !.stack = st]
  BY StackFields, CharKinds DEF Stack, Stacks
<1>2. st \in Seq(Closers)
  BY StackFields
<1>. HIDE DEF r, st
<1>3. r = [stack |-> st, in_str |-> k.in_str, quote |-> k.quote, esc |-> k.esc]
  BY <1>1 DEF Stacks
<1>4. r \in Stacks
  BY <1>2, <1>3, StackFields DEF Stacks
<1>. QED
  BY <1>3, <1>4 DEF r, st

\* Anything else, a closing bracket that is not due included.
LEMMA StackOther ==
    ASSUME NEW k \in Stacks, NEW c \in Chars, ~k.in_str, c \notin Openers, c \notin Quotes,
           c \in Closers => ~(k.stack # <<>> /\ Head(k.stack) = c)
    PROVE  Stack(k, c) = k
  BY StackFields, CharKinds DEF Stack

LEMMA StackTyped ==
    ASSUME NEW k \in Stacks, NEW c \in Chars
    PROVE  Stack(k, c) \in Stacks
PROOF
<1>1. CASE k.in_str
  BY <1>1, StackInString
<1>2. CASE ~k.in_str /\ c \in Quotes
  BY <1>2, StackQuote
<1>3. CASE ~k.in_str /\ c \in Openers
  BY <1>3, StackOpener
<1>4. CASE ~k.in_str /\ c \in Closers /\ k.stack # <<>> /\ Head(k.stack) = c
  BY <1>4, StackCloser
<1>5. CASE ~k.in_str /\ c \notin Openers /\ c \notin Quotes
           /\ (c \in Closers => ~(k.stack # <<>> /\ Head(k.stack) = c))
  BY <1>5, StackOther
<1>. QED
  BY <1>1, <1>2, <1>3, <1>4, <1>5

-----------------------------------------------------------------------------
(***************************************************************************)
(* FoldLeft, one character after the other.                                *)
(***************************************************************************)
\* g is what the locals were before each character of t and after it.
Ran(g, t) ==
    /\ t \in Seq(Chars)
    /\ g \in [0..Len(t) -> Stacks]
    /\ g[0] = Nothing
    /\ \A i \in 1..Len(t) : g[i] = Stack(g[i - 1], t[i])

LEMMA RanAt ==
    ASSUME NEW g, NEW t, Ran(g, t)
    PROVE  /\ t \in Seq(Chars) /\ Len(t) \in Nat
           /\ \A i \in 0..Len(t) : g[i] \in Stacks
           /\ \A i \in 1..Len(t) : /\ t[i] \in Chars /\ i - 1 \in 0..Len(t)
                                   /\ g[i] = Stack(g[i - 1], t[i])
  BY DEF Ran

LEMMA LastOfFirst ==
    ASSUME NEW n \in Nat
    PROVE  /\ n # 0 => Max(1..n) = n
           /\ n # 0 => 1..n # {} /\ (1..n) \ {n} = 1..(n - 1)
PROOF
<1>. SUFFICES ASSUME n # 0 PROVE Max(1..n) = n /\ 1..n # {} /\ (1..n) \ {n} = 1..(n - 1)
  OBVIOUS
<1>1. n \in 1..n /\ \A y \in 1..n : n >= y
  OBVIOUS
<1>2. \A x \in 1..n : (\A y \in 1..n : x >= y) => x = n
  OBVIOUS
<1>3. Max(1..n) = n
  <2>1. Max(1..n) \in 1..n /\ \A y \in 1..n : Max(1..n) >= y
    BY <1>1, Zenon DEF Max
  <2>. QED
    BY <1>2, <2>1, Zenon
<1>. QED
  BY <1>3

LEMMA LastOfSome ==
    ASSUME NEW n \in Nat, NEW s, s \subseteq 1..n, s # {}
    PROVE  Max(s) \in s
PROOF
<1>. DEFINE T == {n - x : x \in s}
<1>0. \A x \in s : x \in Int /\ 1 <= x /\ x <= n
  OBVIOUS
<1>1. T \subseteq Nat /\ T # {}
  <2>1. \A x \in s : n - x \in Nat
    BY <1>0
  <2>. QED
    BY <2>1
<1>2. PICK m \in T : \A y \in T : m <= y
  BY <1>1, LeastNat
<1>3. PICK x \in s : m = n - x
  BY <1>2
<1>4. ASSUME NEW y \in s PROVE x >= y
  <2>1. n - y \in T
    OBVIOUS
  <2>2. n - x <= n - y
    BY <1>2, <1>3, <2>1
  <2>. QED
    BY <1>0, <2>2
<1>. QED
  BY <1>3, <1>4, Zenon DEF Max

\* What remains to be folded, by what there is to fold.
FoldBy(f, t, s) == IF s = {} THEN Nothing ELSE Stack(f[s \ {Max(s)}], t[Max(s)])

LEMMA FoldExists ==
    ASSUME NEW t \in Seq(Chars)
    PROVE  \E f \in [SUBSET DOMAIN t -> Stacks] :
               f = [s \in SUBSET DOMAIN t |-> FoldBy(f, t, s)]
PROOF
<1>. DEFINE S == SUBSET DOMAIN t
            size == [s \in S |-> Cardinality(s)]
            F == [f \in [S -> Stacks] |-> [s \in S |-> FoldBy(f, t, s)]]
<1>0. DOMAIN t = 1..Len(t) /\ Len(t) \in Nat
  OBVIOUS
<1>1. ASSUME NEW s \in S
      PROVE  /\ Cardinality(s) \in Nat
             /\ s # {} => /\ Max(s) \in DOMAIN t /\ t[Max(s)] \in Chars
                          /\ s \ {Max(s)} \in S
                          /\ Cardinality(s \ {Max(s)}) < Cardinality(s)
  <2>1. IsFiniteSet(s) /\ Cardinality(s) \in Nat
    <3>1. IsFiniteSet(1..Len(t)) /\ s \subseteq 1..Len(t)
      BY <1>0, FS_Interval
    <3>. QED
      BY <3>1, FS_Subset, FS_CardinalityType, Zenon
  <2>2. s # {} => Max(s) \in s
    BY <1>0, LastOfSome
  <2>3. s # {} => Cardinality(s \ {Max(s)}) = Cardinality(s) - 1
    BY <2>1, <2>2, FS_RemoveElement
  <2>. QED
    BY <1>0, <2>1, <2>2, <2>3
<1>2. size \in [S -> Nat]
  BY <1>1
<1>3. ASSUME NEW f \in [S -> Stacks], NEW s \in S PROVE FoldBy(f, t, s) \in Stacks
  BY <1>1, NothingTyped, StackTyped DEF FoldBy
<1>4. F \in [[S -> Stacks] -> [S -> Stacks]]
  BY <1>3
<1>5. Decreasing(S, Stacks, size, F)
  <2>. SUFFICES ASSUME NEW f \in [S -> Stacks], NEW h \in [S -> Stacks], NEW s \in S,
                       \A u \in S : size[u] < size[s] => f[u] = h[u]
                PROVE  F[f][s] = F[h][s]
    BY Zenon DEF Decreasing
  <2>1. s # {} => f[s \ {Max(s)}] = h[s \ {Max(s)}]
    BY <1>1
  <2>2. FoldBy(f, t, s) = FoldBy(h, t, s)
    BY <2>1, Zenon DEF FoldBy
  <2>. QED
    BY <2>2, Zenon
<1>6. Stacks # {}
  BY NothingTyped
<1>7. PICK f \in [S -> Stacks] : Solves(f, F)
  <2>. HIDE DEF F, S, size
  <2>. QED
    BY <1>2, <1>4, <1>5, <1>6, RecursionHolds, Zenon
<1>. QED
  BY <1>7 DEF Solves

LEMMA FoldRuns ==
    ASSUME NEW t \in Seq(Chars)
    PROVE  \E g : Ran(g, t) /\ FoldLeft(Stack, Nothing, t) = g[Len(t)]
PROOF
<1>. DEFINE it == CHOOSE it : it = [s \in SUBSET DOMAIN t |->
                        IF s = {} THEN Nothing ELSE Stack(it[s \ {Max(s)}], t[Max(s)])]
            g == [i \in 0..Len(t) |-> it[1..i]]
<1>0. DOMAIN t = 1..Len(t) /\ Len(t) \in Nat
  OBVIOUS
<1>1. \E f \in [SUBSET DOMAIN t -> Stacks] : f = [s \in SUBSET DOMAIN t |->
            IF s = {} THEN Nothing ELSE Stack(f[s \ {Max(s)}], t[Max(s)])]
  BY FoldExists, Zenon DEF FoldBy
<1>2. it = [s \in SUBSET DOMAIN t |->
            IF s = {} THEN Nothing ELSE Stack(it[s \ {Max(s)}], t[Max(s)])]
  BY <1>1, Zenon
<1>3. FoldLeft(Stack, Nothing, t) = it[DOMAIN t]
  BY Zenon DEF FoldLeft, MapThenFoldSet
<1>. HIDE DEF it
<1>4. it[{}] = Nothing
  BY <1>2
<1>5. ASSUME NEW i \in 1..Len(t) PROVE it[1..i] = Stack(it[1..(i - 1)], t[i])
  <2>1. i \in Nat /\ i # 0 /\ 1..i \in SUBSET DOMAIN t
    BY <1>0
  <2>2. Max(1..i) = i /\ 1..i # {} /\ (1..i) \ {i} = 1..(i - 1)
    BY <2>1, LastOfFirst, Zenon
  <2>3. it[1..i] = Stack(it[(1..i) \ {Max(1..i)}], t[Max(1..i)])
    BY <1>2, <2>1, <2>2, Zenon
  <2>. QED
    BY <2>2, <2>3, Zenon
<1>6. g[0] = Nothing
  BY <1>0, <1>4
<1>7. ASSUME NEW i \in 1..Len(t) PROVE g[i] = Stack(g[i - 1], t[i])
  <2>1. i \in 0..Len(t) /\ i - 1 \in 0..Len(t)
    OBVIOUS
  <2>. QED
    BY <1>5, <2>1, Zenon
<1>8. \A i \in 0..Len(t) : g[i] \in Stacks
  <2>. DEFINE D == {n \in Nat : n <= Len(t) => g[n] \in Stacks}
  <2>1. 0 \in D
    BY <1>6, NothingTyped
  <2>2. ASSUME NEW n \in Nat, n \in D PROVE n + 1 \in D
    <3>. SUFFICES ASSUME n + 1 <= Len(t) PROVE g[n + 1] \in Stacks
      OBVIOUS
    <3>1. n + 1 \in 1..Len(t) /\ (n + 1) - 1 = n /\ n <= Len(t) /\ t[n + 1] \in Chars
      BY <1>0
    <3>2. g[n] \in Stacks
      BY <2>2, <3>1
    <3>. HIDE DEF g
    <3>3. g[n + 1] = Stack(g[n], t[n + 1])
      BY <1>7, <3>1
    <3>. QED
      BY <3>1, <3>2, <3>3, StackTyped
  <2>. HIDE DEF D
  <2>3. \A n \in Nat : n \in D
    BY <2>1, <2>2, NatSet
  <2>4. \A i \in 0..Len(t) : i \in Nat /\ i <= Len(t)
    BY <1>0
  <2>. HIDE DEF g
  <2>. QED
    BY <2>3, <2>4 DEF D
<1>9. FoldLeft(Stack, Nothing, t) = g[Len(t)]
  BY <1>0, <1>3
<1>10. Ran(g, t)
  <2>1. g \in [0..Len(t) -> Stacks]
    BY <1>8
  <2>. HIDE DEF g
  <2>. QED
    BY <1>6, <1>7, <2>1 DEF Ran
<1>. QED
  BY <1>9, <1>10

\* Escapes are a matter of strings.
LEMMA RanQuiet ==
    ASSUME NEW g, NEW t, Ran(g, t), NEW i \in 0..Len(t), ~g[i].in_str
    PROVE  ~g[i].esc
PROOF
<1>. DEFINE D == {n \in Nat : n <= Len(t) /\ ~g[n].in_str => ~g[n].esc}
<1>0. i \in Nat /\ i <= Len(t) /\ Len(t) \in Nat
  BY RanAt
<1>1. 0 \in D
  <2>1. g[0] = Nothing /\ Nothing.esc = FALSE
    BY DEF Ran, Nothing
  <2>. QED
    BY <2>1
<1>2. ASSUME NEW n \in Nat, n \in D PROVE n + 1 \in D
  <2>. SUFFICES ASSUME n + 1 <= Len(t), ~g[n + 1].in_str PROVE ~g[n + 1].esc
    OBVIOUS
  <2>1. n \in 0..Len(t) /\ n + 1 \in 1..Len(t) /\ (n + 1) - 1 = n /\ n <= Len(t)
    BY <1>0
  <2>. DEFINE k == g[n]
              c == t[n + 1]
  <2>2. k \in Stacks /\ c \in Chars /\ g[n + 1] = Stack(k, c)
    BY <2>1, RanAt
  <2>3. ~k.in_str => ~k.esc
    BY <1>2, <2>1
  <2>. HIDE DEF k, c
  <2>4. CASE k.in_str
    <3>1. /\ Stack(k, c).in_str = (k.esc \/ c # k.quote)
          /\ Stack(k, c).esc = (~k.esc /\ c = "\\")
      BY <2>2, <2>4, StackInString
    <3>2. ~Stack(k, c).in_str
      BY <2>2
    <3>3. c = k.quote
      BY <3>1, <3>2, Zenon
    <3>4. c # "\\"
      BY <2>2, <3>3, StackFields, CharKinds
    <3>5. ~Stack(k, c).esc
      BY <3>1, <3>4, Zenon
    <3>. QED
      BY <2>2, <3>5
  <2>5. CASE ~k.in_str /\ c \in Quotes
    BY <2>2, <2>3, <2>5, StackQuote
  <2>6. CASE ~k.in_str /\ c \in Openers
    BY <2>2, <2>3, <2>6, StackOpener
  <2>7. CASE ~k.in_str /\ c \in Closers /\ k.stack # <<>> /\ Head(k.stack) = c
    BY <2>2, <2>3, <2>7, StackCloser
  <2>8. CASE ~k.in_str /\ c \notin Openers /\ c \notin Quotes
             /\ (c \in Closers => ~(k.stack # <<>> /\ Head(k.stack) = c))
    BY <2>2, <2>3, <2>8, StackOther
  <2>. QED
    BY <2>4, <2>5, <2>6, <2>7, <2>8
<1>. HIDE DEF D
<1>3. \A n \in Nat : n \in D
  BY <1>1, <1>2, NatSet
<1>. QED
  BY <1>0, <1>3 DEF D

-----------------------------------------------------------------------------
(***************************************************************************)
(* A string that was read is a quoted string.                              *)
(***************************************************************************)
\* e says which characters of t are escaped.
Escapes(e, t) ==
    /\ e \in [1..Len(t) -> BOOLEAN]
    /\ \A i \in 1..Len(t) : e[i] = (i > 2 /\ t[i - 1] = "\\" /\ ~e[i - 1])

LEMMA QuotedIf ==
    ASSUME NEW t, Len(t) \in Nat, Len(t) >= 2, t[1] \in Quotes, t[Len(t)] = t[1],
           NEW e, Escapes(e, t),
           \A i \in 2..Len(t) : t[i] = t[1] => (i = Len(t)) # e[i]
    PROVE  Quoted(t)
PROOF
<1>. DEFINE S == 1..Len(t)
            E == CHOOSE f : f = [i \in S |-> i > 2 /\ t[i - 1] = "\\" /\ ~f[i - 1]]
<1>1. e = [i \in S |-> i > 2 /\ t[i - 1] = "\\" /\ ~e[i - 1]]
  BY DEF Escapes
<1>2. E = [i \in S |-> i > 2 /\ t[i - 1] = "\\" /\ ~E[i - 1]]
  BY <1>1, Zenon
<1>. HIDE DEF E
<1>3. E \in [S -> BOOLEAN] /\ \A i \in S : E[i] = (i > 2 /\ t[i - 1] = "\\" /\ ~E[i - 1])
  BY <1>2, Zenon
<1>. DEFINE D == {n \in Nat : n + 1 \in S => E[n + 1] = e[n + 1]}
<1>4. 0 \in D
  <2>1. 0 + 1 \in S => E[0 + 1] = FALSE /\ e[0 + 1] = FALSE
    BY <1>3 DEF Escapes
  <2>. QED
    BY <2>1
<1>5. ASSUME NEW n \in Nat, n \in D PROVE n + 1 \in D
  <2>. SUFFICES ASSUME (n + 1) + 1 \in S PROVE E[(n + 1) + 1] = e[(n + 1) + 1]
    OBVIOUS
  <2>1. n + 1 \in S /\ ((n + 1) + 1) - 1 = n + 1
    OBVIOUS
  <2>2. E[n + 1] = e[n + 1]
    BY <1>5, <2>1
  <2>3. E[(n + 1) + 1] = ((n + 1) + 1 > 2 /\ t[n + 1] = "\\" /\ ~E[n + 1])
    BY <1>3, <2>1
  <2>4. e[(n + 1) + 1] = ((n + 1) + 1 > 2 /\ t[n + 1] = "\\" /\ ~e[n + 1])
    BY <2>1 DEF Escapes
  <2>. QED
    BY <2>2, <2>3, <2>4
<1>. HIDE DEF D
<1>6. \A n \in Nat : n \in D
  BY <1>4, <1>5, NatSet
<1>7. ASSUME NEW i \in S PROVE E[i] = e[i]
  <2>1. i - 1 \in Nat /\ (i - 1) + 1 = i
    OBVIOUS
  <2>2. i - 1 \in D
    BY <1>6, <2>1
  <2>. QED
    BY <2>1, <2>2 DEF D
<1>8. \A i \in 2..Len(t) : t[i] = t[1] => (i = Len(t)) # E[i]
  <2>1. \A i \in 2..Len(t) : i \in S
    OBVIOUS
  <2>. QED
    BY <1>7, <2>1, Zenon
<1>. QED
  BY <1>8, Zenon DEF Quoted, E

LEMMA PieceAt ==
    ASSUME NEW t \in Seq(Chars), NEW a \in 0..Len(t), NEW m \in Nat, a + m <= Len(t)
    PROVE  /\ SubSeq(t, a + 1, a + m) \in Seq(Chars)
           /\ Len(SubSeq(t, a + 1, a + m)) = m
           /\ \A k \in 1..m : SubSeq(t, a + 1, a + m)[k] = t[a + k]
PROOF
<1>. DEFINE u == SubSeq(t, a + 1, a + m)
<1>0. Len(t) \in Nat /\ a \in Nat
  OBVIOUS
<1>1. /\ a + 1 \in 1..(Len(t) + 1) /\ a + m \in 0..Len(t)
      /\ (a + m) - (a + 1) + 1 = m /\ (a + 1 <= a + m <=> m # 0) /\ (a + 1 > a + m <=> m = 0)
  BY <1>0
<1>2. \A k \in 1..m : (a + 1) + k - 1 = a + k
  BY <1>0
<1>3. /\ u \in Seq(Chars)
      /\ a + 1 <= a + m => Len(u) = (a + m) - (a + 1) + 1
      /\ a + 1 > a + m => Len(u) = 0
      /\ \A k \in 1..((a + m) - (a + 1) + 1) : u[k] = t[(a + 1) + k - 1]
  BY <1>1, Pieces
<1>. HIDE DEF u
<1>4. Len(u) = m
  BY <1>1, <1>3
<1>5. \A k \in 1..m : u[k] = t[a + k]
  BY <1>1, <1>2, <1>3
<1>. QED
  BY <1>3, <1>4, <1>5 DEF u

\* From the quote at a + 1 to the first one that closes it, at a + m.
LEMMA StringQuoted ==
    ASSUME NEW g, NEW t, Ran(g, t), NEW a \in 0..Len(t), NEW m \in Nat, m >= 2,
           a + m <= Len(t), ~g[a].in_str, t[a + 1] \in Quotes,
           \A k \in 1..(m - 1) : g[a + k].in_str, ~g[a + m].in_str
    PROVE  Quoted(SubSeq(t, a + 1, a + m)) /\ g[a + m].stack = g[a].stack
PROOF
<1>. DEFINE q == SubSeq(t, a + 1, a + m)
            s == t[a + 1]
            Within(k) == g[a + k].quote = s /\ g[a + k].stack = g[a].stack
            e == [i \in 1..m |-> i > 1 /\ g[a + i - 1].esc]
<1>0. a \in Nat /\ Len(t) \in Nat /\ t \in Seq(Chars)
  BY RanAt
<1>1. Len(q) = m /\ \A k \in 1..m : q[k] = t[a + k]
  BY <1>0, PieceAt
<1>. HIDE DEF q
<1>2. ASSUME NEW k \in 1..m
      PROVE  /\ a + k \in 0..Len(t) /\ a + (k - 1) \in 0..Len(t)
             /\ g[a + k] \in Stacks /\ g[a + (k - 1)] \in Stacks /\ t[a + k] \in Chars
             /\ g[a + k] = Stack(g[a + (k - 1)], t[a + k])
  <2>1. a + k \in 1..Len(t) /\ (a + k) - 1 = a + (k - 1) /\ a + k \in 0..Len(t)
        /\ a + (k - 1) \in 0..Len(t)
    BY <1>0
  <2>. QED
    BY <2>1, RanAt
<1>3. Within(1) /\ g[a + 1].esc = FALSE
  <2>1. 1 \in 1..m /\ a + (1 - 1) = a
    BY <1>0
  <2>2. g[a] \in Stacks /\ s \in Chars /\ g[a + 1] = Stack(g[a], s)
    BY <1>2, <2>1
  <2>3. ~g[a].esc
    BY RanQuiet
  <2>4. g[a].esc \in BOOLEAN
    BY <2>2, StackFields
  <2>. QED
    BY <2>2, <2>3, <2>4, StackQuote
<1>4. ASSUME NEW k \in 1..(m - 1), k # 1, Within(k - 1) PROVE Within(k)
  <2>1. k \in 1..m /\ k - 1 \in 1..(m - 1)
    BY <1>4
  <2>2. g[a + (k - 1)].in_str
    BY <2>1
  <2>3. /\ g[a + (k - 1)] \in Stacks /\ t[a + k] \in Chars
        /\ g[a + k] = Stack(g[a + (k - 1)], t[a + k])
    BY <1>2, <2>1
  <2>4. g[a + k].quote = g[a + (k - 1)].quote /\ g[a + k].stack = g[a + (k - 1)].stack
    BY <2>2, <2>3, StackInString
  <2>. QED
    BY <1>4, <2>4
<1>5. ASSUME NEW k \in 1..(m - 1) PROVE Within(k)
  <2>. DEFINE D == {n \in Nat : n + 1 \in 1..(m - 1) => Within(n + 1)}
  <2>. HIDE DEF Within
  <2>1. 0 \in D
    BY <1>3
  <2>2. ASSUME NEW n \in Nat, n \in D PROVE n + 1 \in D
    <3>. SUFFICES ASSUME (n + 1) + 1 \in 1..(m - 1) PROVE Within((n + 1) + 1)
      OBVIOUS
    <3>1. n + 1 \in 1..(m - 1) /\ ((n + 1) + 1) - 1 = n + 1 /\ (n + 1) + 1 # 1
      OBVIOUS
    <3>2. Within(n + 1)
      BY <2>2, <3>1
    <3>. QED
      BY <1>4, <3>1, <3>2
  <2>. HIDE DEF D
  <2>3. \A n \in Nat : n \in D
    BY <2>1, <2>2, NatSet
  <2>4. k - 1 \in Nat /\ (k - 1) + 1 = k
    OBVIOUS
  <2>5. k - 1 \in D
    BY <2>3, <2>4
  <2>. QED
    BY <2>4, <2>5 DEF D
<1>6. ASSUME NEW k \in 2..m
      PROVE  /\ g[a + k].in_str = (g[a + (k - 1)].esc \/ t[a + k] # s)
             /\ g[a + k].esc = (~g[a + (k - 1)].esc /\ t[a + k] = "\\")
             /\ g[a + k].stack = g[a].stack
  <2>1. k \in 1..m /\ k - 1 \in 1..(m - 1)
    OBVIOUS
  <2>2. g[a + (k - 1)].in_str /\ Within(k - 1)
    BY <1>5, <2>1
  <2>. QED
    BY <1>2, <2>1, <2>2, StackInString
<1>7. e \in [1..m -> BOOLEAN]
  <2>1. ASSUME NEW i \in 1..m, i > 1 PROVE g[a + i - 1].esc \in BOOLEAN
    <3>1. a + i - 1 = a + (i - 1)
      BY <1>0
    <3>. QED
      BY <1>2, <3>1, StackFields
  <2>. QED
    BY <2>1
<1>8. ASSUME NEW i \in 1..m PROVE e[i] = (i > 2 /\ q[i - 1] = "\\" /\ ~e[i - 1])
  <2>0. e[i] = (i > 1 /\ g[a + i - 1].esc)
    OBVIOUS
  <2>1. CASE i = 1
    BY <2>0, <2>1
  <2>2. CASE i = 2
    <3>1. a + i - 1 = a + 1
      BY <1>0, <2>2
    <3>. QED
      BY <1>3, <2>0, <2>2, <3>1
  <2>3. CASE i > 2
    <3>1. /\ i - 1 \in 2..m /\ i - 1 \in 1..m /\ i - 1 > 1 /\ a + i - 1 = a + (i - 1)
          /\ a + (i - 1) - 1 = a + ((i - 1) - 1)
      BY <1>0, <2>3
    <3>2. e[i - 1] = g[a + ((i - 1) - 1)].esc
      <4>1. e[i - 1] = (i - 1 > 1 /\ g[a + (i - 1) - 1].esc)
        BY <3>1
      <4>2. g[a + ((i - 1) - 1)].esc \in BOOLEAN
        BY <1>2, <3>1, StackFields
      <4>. QED
        BY <3>1, <4>1, <4>2
    <3>3. g[a + (i - 1)].esc = (~g[a + ((i - 1) - 1)].esc /\ t[a + (i - 1)] = "\\")
      BY <1>6, <3>1
    <3>4. q[i - 1] = t[a + (i - 1)]
      BY <1>1, <3>1
    <3>5. e[i] = g[a + (i - 1)].esc
      <4>1. g[a + (i - 1)].esc \in BOOLEAN
        BY <1>2, StackFields
      <4>2. g[a + i - 1].esc = g[a + (i - 1)].esc /\ i > 1
        BY <2>3, <3>1
      <4>. HIDE DEF e
      <4>. QED
        BY <2>0, <4>1, <4>2
    <3>. HIDE DEF e
    <3>. QED
      BY <2>3, <3>2, <3>3, <3>4, <3>5, Zenon
  <2>. QED
    BY <2>1, <2>2, <2>3
<1>9. ASSUME NEW i \in 2..m PROVE e[i] = g[a + (i - 1)].esc
  <2>1. i \in 1..m /\ i > 1 /\ a + i - 1 = a + (i - 1)
    BY <1>0
  <2>2. g[a + (i - 1)].esc \in BOOLEAN
    BY <1>2, <2>1, StackFields
  <2>. QED
    BY <2>1, <2>2
<1>. HIDE DEF e
<1>10. ~g[a + (m - 1)].esc /\ t[a + m] = s
  <2>1. m \in 2..m
    OBVIOUS
  <2>2. g[a + m].in_str = (g[a + (m - 1)].esc \/ t[a + m] # s)
    BY <1>6, <2>1
  <2>. QED
    BY <2>2, Zenon
<1>11. 1 \in 1..m /\ m \in 1..m /\ q[1] = s /\ q[m] = s
  BY <1>1, <1>10
<1>12. ASSUME NEW i \in 2..m, q[i] = q[1] PROVE (i = m) # e[i]
  <2>1. q[i] = t[a + i] /\ e[i] = g[a + (i - 1)].esc
    BY <1>1, <1>9
  <2>2. CASE i = m
    BY <1>10, <2>1, <2>2
  <2>3. CASE i # m
    <3>1. i \in 1..(m - 1)
      BY <2>3
    <3>2. g[a + i].in_str
      BY <3>1
    <3>3. e[i]
      BY <1>6, <1>11, <1>12, <2>1, <3>2
    <3>. QED
      BY <2>3, <3>3
  <2>. QED
    BY <2>2, <2>3
<1>13. Escapes(e, q)
  BY <1>1, <1>7, <1>8 DEF Escapes
<1>14. Quoted(q)
  BY <1>1, <1>11, <1>12, <1>13, QuotedIf
<1>15. g[a + m].stack = g[a].stack
  <2>1. m \in 2..m
    OBVIOUS
  <2>. QED
    BY <1>6, <2>1
<1>. QED
  BY <1>14, <1>15 DEF q

-----------------------------------------------------------------------------
(***************************************************************************)
(* What is between two places with the same brackets open is balanced.     *)
(***************************************************************************)
Height(k) == Len(k.stack)

\* No closing bracket but the one that is due.
Tidy(g, t) ==
    /\ Ran(g, t)
    /\ \A i \in 1..Len(t) : ~g[i - 1].in_str /\ t[i] \in Closers =>
            g[i - 1].stack # <<>> /\ Head(g[i - 1].stack) = t[i]

\* s is at the bottom of k.
Under(s, k) ==
    /\ Height(k) >= Height(s)
    /\ \A i \in 0..(Height(s) - 1) : k.stack[Height(k) - i] = s.stack[Height(s) - i]

LEMMA HeightFalls ==
    ASSUME NEW k \in Stacks, NEW c \in Chars, Height(Stack(k, c)) < Height(k)
    PROVE  /\ ~k.in_str /\ ~Stack(k, c).in_str /\ c \in Closers
           /\ k.stack # <<>> /\ Head(k.stack) = c /\ Stack(k, c).stack = Tail(k.stack)
           /\ Height(Stack(k, c)) = Height(k) - 1
PROOF
<1>. DEFINE r == Stack(k, c)
<1>0. Height(k) \in Nat /\ k.stack \in Seq(Closers)
  BY StackFields DEF Height
<1>. HIDE DEF r
<1>1. CASE k.in_str
  <2>1. r.stack = k.stack
    BY <1>1, StackInString DEF r
  <2>. QED
    BY <1>0, <2>1 DEF Height, r
<1>2. CASE ~k.in_str /\ c \in Quotes
  <2>1. r.stack = k.stack
    BY <1>2, StackQuote DEF r
  <2>. QED
    BY <1>0, <2>1 DEF Height, r
<1>3. CASE ~k.in_str /\ c \in Openers
  <2>1. Height(r) = Height(k) + 1
    BY <1>3, StackOpener DEF r, Height
  <2>. QED
    BY <1>0, <2>1 DEF r
<1>4. CASE ~k.in_str /\ c \in Closers /\ k.stack # <<>> /\ Head(k.stack) = c
  <2>1. r.stack = Tail(k.stack) /\ ~r.in_str
    BY <1>4, StackCloser DEF r
  <2>2. Len(Tail(k.stack)) = Len(k.stack) - 1
    BY <1>0, <1>4
  <2>. QED
    BY <1>4, <2>1, <2>2 DEF Height, r
<1>5. CASE ~k.in_str /\ c \notin Openers /\ c \notin Quotes
           /\ (c \in Closers => ~(k.stack # <<>> /\ Head(k.stack) = c))
  <2>1. r = k
    BY <1>5, StackOther DEF r
  <2>. QED
    BY <1>0, <2>1 DEF r
<1>. QED
  BY <1>1, <1>2, <1>3, <1>4, <1>5

LEMMA StaysUnder ==
    ASSUME NEW s \in Stacks, NEW k \in Stacks, NEW c \in Chars, Under(s, k),
           Height(Stack(k, c)) >= Height(s)
    PROVE  Under(s, Stack(k, c))
PROOF
<1>. DEFINE r == Stack(k, c)
<1>0. /\ Height(k) \in Nat /\ k.stack \in Seq(Closers) /\ Height(s) \in Nat
      /\ r \in Stacks /\ Height(r) \in Nat
  BY StackFields, StackTyped DEF Height
<1>. HIDE DEF r
<1>. SUFFICES ASSUME NEW i \in 0..(Height(s) - 1)
              PROVE  r.stack[Height(r) - i] = k.stack[Height(k) - i]
  BY DEF Under, r
<1>1. Height(k) - i \in 1..Height(k) /\ Height(r) - i \in 1..Height(r)
  BY <1>0 DEF Under, r
<1>2. CASE r.stack = k.stack
  BY <1>2 DEF Height
<1>3. CASE k.in_str
  BY <1>2, <1>3, StackInString DEF r
<1>4. CASE ~k.in_str /\ c \in Quotes
  BY <1>2, <1>4, StackQuote DEF r
<1>5. CASE ~k.in_str /\ c \in Openers
  <2>1. /\ Height(r) = Height(k) + 1
        /\ \A j \in 1..Height(k) : r.stack[j + 1] = k.stack[j]
    BY <1>5, StackOpener DEF r, Height
  <2>2. (Height(k) - i) + 1 = Height(r) - i
    BY <1>0, <2>1
  <2>. QED
    BY <1>1, <2>1, <2>2
<1>6. CASE ~k.in_str /\ c \in Closers /\ k.stack # <<>> /\ Head(k.stack) = c
  <2>1. r.stack = Tail(k.stack)
    BY <1>6, StackCloser DEF r
  <2>2. Height(r) = Height(k) - 1 /\ \A j \in 1..Height(r) : r.stack[j] = k.stack[j + 1]
    BY <1>0, <1>6, <2>1 DEF Height
  <2>3. (Height(r) - i) + 1 = Height(k) - i
    BY <1>0, <2>2
  <2>. QED
    BY <1>1, <2>2, <2>3
<1>7. CASE ~k.in_str /\ c \notin Openers /\ c \notin Quotes
           /\ (c \in Closers => ~(k.stack # <<>> /\ Head(k.stack) = c))
  BY <1>2, <1>7, StackOther DEF r
<1>. QED
  BY <1>3, <1>4, <1>5, <1>6, <1>7

LEMMA RemainsUnder ==
    ASSUME NEW g, NEW t, Ran(g, t), NEW a \in 0..Len(t), NEW m \in Nat, a + m <= Len(t),
           \A k \in 0..m : Height(g[a + k]) >= Height(g[a])
    PROVE  Under(g[a], g[a + m])
PROOF
<1>. DEFINE D == {n \in Nat : n <= m => Under(g[a], g[a + n])}
<1>0. a \in Nat /\ Len(t) \in Nat /\ g[a] \in Stacks
  BY RanAt
<1>1. 0 \in D
  <2>1. a + 0 = a /\ Height(g[a]) \in Nat
    BY <1>0, StackFields DEF Height
  <2>2. Under(g[a], g[a])
    BY <2>1 DEF Under
  <2>. QED
    BY <2>1, <2>2
<1>2. ASSUME NEW n \in Nat, n \in D PROVE n + 1 \in D
  <2>. SUFFICES ASSUME n + 1 <= m PROVE Under(g[a], g[a + (n + 1)])
    OBVIOUS
  <2>1. a + (n + 1) \in 1..Len(t) /\ (a + (n + 1)) - 1 = a + n /\ n <= m /\ n + 1 \in 0..m
        /\ a + n \in 0..Len(t)
    BY <1>0
  <2>. DEFINE k == g[a + n]
              c == t[a + (n + 1)]
              s == g[a]
  <2>2. k \in Stacks /\ c \in Chars /\ g[a + (n + 1)] = Stack(k, c)
    BY <2>1, RanAt
  <2>3. s \in Stacks /\ Under(s, k)
    BY <1>0, <1>2, <2>1
  <2>4. Height(g[a + (n + 1)]) >= Height(s)
    BY <2>1
  <2>. HIDE DEF k, c, s
  <2>5. Under(s, Stack(k, c))
    BY <2>2, <2>3, <2>4, StaysUnder
  <2>. QED
    BY <2>2, <2>5 DEF s
<1>. HIDE DEF D
<1>3. \A n \in Nat : n \in D
  BY <1>1, <1>2, NatSet
<1>. QED
  BY <1>3 DEF D

\* Between strings at a and at b, with no bracket closed that was open at a.
Above(g, a, b) ==
    /\ ~g[a].in_str /\ ~g[b].in_str
    /\ Height(g[a]) = Height(g[b])
    /\ \A c \in a..b : Height(g[c]) >= Height(g[a])

Leveled(g, t, n) ==
    \A a \in 0..Len(t), m \in 0..n :
        a + m <= Len(t) /\ Above(g, a, a + m) => Balanced[SubSeq(t, a + 1, a + m)]

\* The first of the places where something is so.
LEMMA FirstPlace ==
    ASSUME NEW m \in Nat, NEW P, P \subseteq 1..m, m \in P
    PROVE  \E i \in P : \A k \in 1..(i - 1) : k \notin P
PROOF
<1>1. P \subseteq Nat /\ P # {}
  OBVIOUS
<1>2. PICK i \in P : \A y \in P : i <= y
  BY <1>1, LeastNat
<1>3. \A k \in 1..(i - 1) : ~(i <= k)
  BY <1>1
<1>. QED
  BY <1>2, <1>3

\* A piece that begins with a plain character, a string or an object.
LEMMA BalancedPlain ==
    ASSUME NEW t \in Seq(Chars), NEW a \in 0..Len(t), NEW m \in Nat, m > 0, a + m <= Len(t),
           t[a + 1] \notin Openers \union Closers \union Quotes,
           Balanced[SubSeq(t, (a + 1) + 1, (a + 1) + (m - 1))]
    PROVE  Balanced[SubSeq(t, a + 1, a + m)]
PROOF
<1>. DEFINE u == SubSeq(t, a + 1, a + m)
<1>0. Len(t) \in Nat /\ a \in Nat /\ m \in 0..(Len(t) - a) /\ 1 \in 1..m
  OBVIOUS
<1>1. u \in Seq(Chars) /\ Len(u) = m /\ \A k \in 1..m : u[k] = t[a + k]
  BY PieceAt
<1>2. SubSeq(u, 2, m) = SubSeq(t, (a + 1) + 1, (a + 1) + (m - 1))
  <2>1. 2 \in 1..(m + 1) /\ m \in 0..m /\ a + 2 = (a + 1) + 1 /\ a + m = (a + 1) + (m - 1)
    BY <1>0
  <2>2. SubSeq(u, 2, m) = SubSeq(t, a + 2, a + m)
    BY <1>0, <2>1, PieceOfPiece
  <2>. HIDE DEF u
  <2>. QED
    BY <2>1, <2>2
<1>. HIDE DEF u
<1>3. u # <<>> /\ Tail(u) = SubSeq(u, 2, m)
  BY <1>1
<1>4. u[1] \notin Openers \union Closers \union Quotes /\ Balanced[Tail(u)]
  BY <1>0, <1>1, <1>2, <1>3
<1>5. BalancedBy(Balanced, u)
  BY <1>4, Zenon DEF BalancedBy
<1>. QED
  BY <1>1, <1>5, BalancedHolds DEF u

LEMMA BalancedRest ==
    ASSUME NEW t \in Seq(Chars), NEW a \in 0..Len(t), NEW m \in Nat, a + m <= Len(t),
           NEW i \in 2..m,
           \/ Quoted(SubSeq(t, a + 1, a + i))
           \/ /\ t[a + 1] \in Openers /\ t[a + i] = Partner[t[a + 1]]
              /\ Balanced[SubSeq(t, (a + 1) + 1, (a + 1) + (i - 2))],
           Balanced[SubSeq(t, (a + i) + 1, (a + i) + (m - i))]
    PROVE  Balanced[SubSeq(t, a + 1, a + m)]
PROOF
<1>. DEFINE u == SubSeq(t, a + 1, a + m)
<1>0. /\ Len(t) \in Nat /\ a \in Nat /\ m \in 0..(Len(t) - a) /\ 1 \in 1..m /\ i \in 1..m
      /\ i \in Nat
  OBVIOUS
<1>1. u \in Seq(Chars) /\ Len(u) = m /\ \A k \in 1..m : u[k] = t[a + k]
  BY PieceAt
<1>2. ASSUME NEW x \in 1..(m + 1), NEW y \in 0..m PROVE SubSeq(u, x, y) = SubSeq(t, a + x, a + y)
  BY <1>0, PieceOfPiece
<1>. HIDE DEF u
<1>3. SubSeq(u, 1, i) = SubSeq(t, a + 1, a + i)
  <2>1. 1 \in 1..(m + 1) /\ i \in 0..m
    BY <1>0
  <2>. QED
    BY <1>2, <2>1
<1>4. SubSeq(u, 2, i - 1) = SubSeq(t, (a + 1) + 1, (a + 1) + (i - 2))
  <2>1. 2 \in 1..(m + 1) /\ i - 1 \in 0..m /\ a + 2 = (a + 1) + 1
        /\ a + (i - 1) = (a + 1) + (i - 2)
    BY <1>0
  <2>. QED
    BY <1>2, <2>1
<1>5. SubSeq(u, i + 1, m) = SubSeq(t, (a + i) + 1, (a + i) + (m - i))
  <2>1. i + 1 \in 1..(m + 1) /\ m \in 0..m /\ a + (i + 1) = (a + i) + 1
        /\ a + m = (a + i) + (m - i)
    BY <1>0
  <2>. QED
    BY <1>2, <2>1
<1>6. u[1] = t[a + 1] /\ u[i] = t[a + i]
  BY <1>0, <1>1
<1>7. /\ \/ Quoted(SubSeq(u, 1, i))
         \/ u[1] \in Openers /\ u[i] = Partner[u[1]] /\ Balanced[SubSeq(u, 2, i - 1)]
      /\ Balanced[SubSeq(u, i + 1, Len(u))]
  BY <1>1, <1>3, <1>4, <1>5, <1>6
<1>8. i \in 2..Len(u)
  BY <1>1
<1>9. BalancedBy(Balanced, u)
  BY <1>7, <1>8, Zenon DEF BalancedBy
<1>. QED
  BY <1>1, <1>9, BalancedHolds DEF u

LEMMA AboveAfter ==
    ASSUME NEW g, NEW t, Ran(g, t), NEW a \in 0..Len(t), NEW m \in Nat, a + m <= Len(t),
           Above(g, a, a + m), NEW i \in 0..m,
           ~g[a + i].in_str, Height(g[a + i]) = Height(g[a])
    PROVE  Above(g, a + i, (a + i) + (m - i))
PROOF
<1>1. (a + i) + (m - i) = a + m /\ \A c \in (a + i)..(a + m) : c \in a..(a + m)
  BY RanAt
<1>. QED
  BY <1>1 DEF Above

LEMMA LeveledMore ==
    ASSUME NEW g, NEW t, Tidy(g, t), NEW n \in Nat, Leveled(g, t, n)
    PROVE  Leveled(g, t, n + 1)
PROOF
<1>. SUFFICES ASSUME NEW a \in 0..Len(t), NEW m \in 0..(n + 1), a + m <= Len(t),
                     Above(g, a, a + m)
              PROVE  Balanced[SubSeq(t, a + 1, a + m)]
  BY DEF Leveled
<1>0. Ran(g, t) /\ t \in Seq(Chars) /\ Len(t) \in Nat /\ a \in Nat /\ m \in Nat
  BY RanAt DEF Tidy
<1>1. CASE m <= n
  <2>1. m \in 0..n
    BY <1>0, <1>1
  <2>. QED
    BY <2>1 DEF Leveled
<1>2. CASE m = n + 1
  <2>. DEFINE c == t[a + 1]
  <2>0. /\ a + 1 \in 1..Len(t) /\ (a + 1) - 1 = a /\ a + 1 \in 0..Len(t) /\ m > 0 /\ 1 \in 0..m
        /\ a + 1 \in a..(a + m)
    BY <1>0, <1>2
  <2>1. /\ g[a] \in Stacks /\ c \in Chars /\ g[a + 1] = Stack(g[a], c) /\ g[a + 1] \in Stacks
        /\ ~g[a].in_str /\ Height(g[a]) \in Nat /\ Height(g[a + 1]) \in Nat
        /\ Height(g[a + 1]) >= Height(g[a])
    BY <1>0, <2>0, RanAt, StackFields DEF Above, Height
  <2>2. ASSUME NEW i \in 2..m, ~g[a + i].in_str, Height(g[a + i]) = Height(g[a])
        PROVE  Balanced[SubSeq(t, (a + i) + 1, (a + i) + (m - i))]
    <3>1. i \in 0..m /\ a + i \in 0..Len(t) /\ m - i \in 0..n /\ (a + i) + (m - i) <= Len(t)
      BY <1>0, <1>2
    <3>2. Above(g, a + i, (a + i) + (m - i))
      BY <1>0, <2>2, <3>1, AboveAfter
    <3>. QED
      BY <3>1, <3>2 DEF Leveled
  <2>3. CASE c \notin Openers \union Closers \union Quotes
    <3>1. g[a + 1] = g[a]
      BY <2>1, <2>3, StackOther
    <3>2. m - 1 \in 0..n /\ (a + 1) + (m - 1) <= Len(t)
      BY <1>0, <1>2
    <3>3. Above(g, a + 1, (a + 1) + (m - 1))
      BY <1>0, <2>0, <2>1, <3>1, AboveAfter
    <3>4. Balanced[SubSeq(t, (a + 1) + 1, (a + 1) + (m - 1))]
      BY <2>0, <3>2, <3>3 DEF Leveled
    <3>. QED
      BY <1>0, <2>0, <2>3, <3>4, BalancedPlain
  <2>4. CASE c \in Quotes
    <3>. DEFINE P == {i \in 1..m : ~g[a + i].in_str}
    <3>1. m \in P
      BY <1>0, <2>0 DEF Above
    <3>2. PICK i \in P : \A k \in 1..(i - 1) : k \notin P
      <4>. HIDE DEF P
      <4>1. P \subseteq 1..m
        BY DEF P
      <4>. QED
        BY <1>0, <3>1, <4>1, FirstPlace
    <3>3. i \in 1..m /\ ~g[a + i].in_str /\ \A k \in 1..(i - 1) : g[a + k].in_str
      <4>1. i \in 1..m /\ \A k \in 1..(i - 1) : k \in 1..m
        BY <1>0, <3>2
      <4>. QED
        BY <3>2, <4>1
    <3>4. g[a + 1].in_str
      BY <2>1, <2>4, StackQuote
    <3>5. i \in 2..m /\ i \in Nat /\ i >= 2 /\ a + i <= Len(t)
      <4>1. i # 1
        BY <3>3, <3>4
      <4>. QED
        BY <1>0, <3>3, <4>1
    <3>6. Quoted(SubSeq(t, a + 1, a + i)) /\ g[a + i].stack = g[a].stack
      BY <1>0, <2>1, <2>4, <3>3, <3>5, StringQuoted
    <3>7. Balanced[SubSeq(t, (a + i) + 1, (a + i) + (m - i))]
      BY <2>2, <3>3, <3>5, <3>6 DEF Height
    <3>. QED
      BY <1>0, <3>5, <3>6, <3>7, BalancedRest
  <2>5. CASE c \in Openers
    <3>. DEFINE P == {i \in 1..m : Height(g[a + i]) = Height(g[a])}
    <3>1. m \in P
      BY <1>0, <2>0 DEF Above
    <3>2. PICK i \in P : \A k \in 1..(i - 1) : k \notin P
      <4>. HIDE DEF P
      <4>1. P \subseteq 1..m
        BY DEF P
      <4>. QED
        BY <1>0, <3>1, <4>1, FirstPlace
    <3>3. /\ i \in 1..m /\ Height(g[a + i]) = Height(g[a])
          /\ \A k \in 1..(i - 1) : Height(g[a + k]) # Height(g[a])
      <4>1. i \in 1..m /\ \A k \in 1..(i - 1) : k \in 1..m
        BY <1>0, <3>2
      <4>. QED
        BY <3>2, <4>1
    <3>4. /\ Height(g[a + 1]) = Height(g[a]) + 1 /\ g[a + 1].stack[1] = Partner[c]
          /\ ~g[a + 1].in_str
      <4>. HIDE DEF c
      <4>1. /\ Len(g[a + 1].stack) = Len(g[a].stack) + 1 /\ g[a + 1].stack[1] = Partner[c]
            /\ ~g[a + 1].in_str
        BY <2>1, <2>5, StackOpener
      <4>. QED
        BY <4>1 DEF Height
    <3>5. i \in 2..m
      <4>1. i # 1
        BY <2>1, <3>3, <3>4
      <4>. QED
        BY <1>0, <3>3, <4>1
    <3>6. /\ i \in Nat /\ a + i \in 1..Len(t) /\ (a + i) - 1 = (a + 1) + (i - 2)
          /\ i - 2 \in 0..n /\ i - 2 \in Nat /\ (a + 1) + (i - 2) <= Len(t)
          /\ (a + 1) + (i - 2) \in 0..Len(t)
      BY <1>0, <1>2, <3>5
    <3>. DEFINE b == (a + 1) + (i - 2)
                d == t[a + i]
    <3>7. /\ g[b] \in Stacks /\ d \in Chars /\ g[a + i] = Stack(g[b], d)
          /\ Height(g[b]) \in Nat
      <4>1. g[b] \in Stacks /\ d \in Chars /\ g[a + i] = Stack(g[b], d)
        BY <1>0, <3>6, RanAt
      <4>. QED
        BY <4>1, StackFields DEF Height
    <3>8. ASSUME NEW k \in 0..(i - 2) PROVE Height(g[(a + 1) + k]) >= Height(g[a + 1])
      <4>1. /\ k + 1 \in 1..(i - 1) /\ a + (k + 1) = (a + 1) + k /\ (a + 1) + k \in a..(a + m)
            /\ (a + 1) + k \in 0..Len(t)
        BY <1>0, <3>5
      <4>2. Height(g[(a + 1) + k]) # Height(g[a]) /\ Height(g[(a + 1) + k]) >= Height(g[a])
        BY <3>3, <4>1 DEF Above
      <4>3. Height(g[(a + 1) + k]) \in Nat
        BY <1>0, <4>1, RanAt, StackFields DEF Height
      <4>. QED
        BY <2>1, <3>4, <4>2, <4>3
    <3>9. Height(g[b]) >= Height(g[a + 1])
      <4>1. i - 2 \in 0..(i - 2)
        BY <3>6
      <4>. QED
        BY <3>8, <4>1
    <3>10. Under(g[a + 1], g[b])
      BY <1>0, <2>0, <3>6, <3>8, RemainsUnder
    <3>11. Height(Stack(g[b], d)) < Height(g[b])
      BY <2>1, <3>3, <3>4, <3>7, <3>9
    <3>12. /\ ~g[b].in_str /\ ~g[a + i].in_str /\ Head(g[b].stack) = d
           /\ g[b].stack # <<>> /\ Height(g[a + i]) = Height(g[b]) - 1
      BY <3>7, <3>11, HeightFalls
    <3>13. Height(g[b]) = Height(g[a + 1])
      BY <2>1, <3>3, <3>4, <3>7, <3>12
    <3>14. d = Partner[c]
      <4>1. Height(g[a + 1]) - 1 \in 0..(Height(g[a + 1]) - 1)
        BY <2>1, <3>4
      <4>2. /\ Height(g[b]) - (Height(g[a + 1]) - 1) = 1
            /\ Height(g[a + 1]) - (Height(g[a + 1]) - 1) = 1
        BY <2>1, <3>13
      <4>3. g[b].stack[1] = g[a + 1].stack[1]
        BY <3>10, <4>1, <4>2 DEF Under
      <4>4. Head(g[b].stack) = g[b].stack[1]
        BY <3>7, <3>12, StackFields
      <4>. QED
        BY <3>4, <3>12, <4>3, <4>4
    <3>15. Above(g, a + 1, b)
      <4>1. ASSUME NEW x \in (a + 1)..b PROVE Height(g[x]) >= Height(g[a + 1])
        <5>1. x - (a + 1) \in 0..(i - 2) /\ (a + 1) + (x - (a + 1)) = x
          BY <1>0, <3>6
        <5>. QED
          BY <3>8, <5>1
      <4>. QED
        BY <3>4, <3>12, <3>13, <4>1 DEF Above
    <3>16. Balanced[SubSeq(t, (a + 1) + 1, (a + 1) + (i - 2))]
      BY <2>0, <3>6, <3>15 DEF Leveled
    <3>17. Balanced[SubSeq(t, (a + i) + 1, (a + i) + (m - i))]
      BY <2>2, <3>3, <3>5, <3>12
    <3>. QED
      BY <1>0, <2>5, <3>5, <3>14, <3>16, <3>17, BalancedRest
  <2>6. CASE c \in Closers
    <3>1. g[a].stack # <<>> /\ Head(g[a].stack) = c
      BY <2>0, <2>1, <2>6 DEF Tidy
    <3>2. g[a + 1].stack = Tail(g[a].stack)
      BY <2>1, <2>6, <3>1, StackCloser
    <3>3. Len(Tail(g[a].stack)) = Len(g[a].stack) - 1
      BY <2>1, <3>1, StackFields
    <3>. QED
      BY <2>1, <3>2, <3>3 DEF Height
  <2>. QED
    BY <2>3, <2>4, <2>5, <2>6
<1>. QED
  BY <1>0, <1>1, <1>2

LEMMA AboveBalanced ==
    ASSUME NEW g, NEW t, Tidy(g, t), NEW a \in 0..Len(t), NEW m \in Nat, a + m <= Len(t),
           Above(g, a, a + m)
    PROVE  Balanced[SubSeq(t, a + 1, a + m)]
PROOF
<1>. DEFINE D == {n \in Nat : Leveled(g, t, n)}
<1>0. t \in Seq(Chars) /\ Len(t) \in Nat
  BY RanAt DEF Tidy
<1>1. 0 \in D
  <2>1. ASSUME NEW b \in 0..Len(t) PROVE Balanced[SubSeq(t, b + 1, b + 0)]
    <3>1. SubSeq(t, b + 1, b + 0) = <<>>
      BY <1>0
    <3>2. <<>> \in Seq(Chars)
      OBVIOUS
    <3>3. BalancedBy(Balanced, <<>>)
      BY DEF BalancedBy
    <3>. QED
      BY <3>1, <3>2, <3>3, BalancedHolds
  <2>2. \A k \in 0..0 : k = 0
    OBVIOUS
  <2>. QED
    BY <2>1, <2>2 DEF Leveled
<1>2. \A n \in Nat : n \in D => n + 1 \in D
  BY LeveledMore
<1>. HIDE DEF D
<1>3. \A n \in Nat : n \in D
  BY <1>1, <1>2, NatSet
<1>4. Leveled(g, t, m) /\ m \in 0..m
  BY <1>3 DEF D
<1>. QED
  BY <1>4 DEF Leveled

-----------------------------------------------------------------------------
(***************************************************************************)
(* The brackets that are due, one after the other, make an object whole.   *)
(***************************************************************************)
\* An opening bracket comes first, and is not closed.
Standing(g, t) ==
    /\ Len(t) >= 1
    /\ t[1] \in Openers
    /\ \A i \in 1..Len(t) : g[i].stack # <<>>

\* st is what would close the text.
Due(g, t, st) ==
    /\ Tidy(g, t) /\ Standing(g, t)
    /\ ~g[Len(t)].in_str /\ g[Len(t)].stack = st

Ready(t, st) == \E g : Due(g, t, st)

LEMMA FirstBracket ==
    ASSUME NEW g, NEW t, Tidy(g, t), Standing(g, t)
    PROVE  /\ Ran(g, t) /\ t \in Seq(Chars) /\ Len(t) \in Nat /\ 1 \in 1..Len(t)
           /\ g[1] \in Stacks /\ ~g[1].in_str /\ Height(g[1]) = 1
           /\ g[1].stack[1] = Partner[t[1]]
           /\ \A i \in 1..Len(t) : g[i] \in Stacks /\ Height(g[i]) \in Nat /\ Height(g[i]) >= 1
PROOF
<1>1. Ran(g, t) /\ t \in Seq(Chars) /\ Len(t) \in Nat /\ 1 \in 1..Len(t)
  BY RanAt DEF Tidy, Standing
<1>2. ASSUME NEW i \in 1..Len(t)
      PROVE  g[i] \in Stacks /\ Height(g[i]) \in Nat /\ Height(g[i]) >= 1
  <2>1. i \in 0..Len(t)
    BY <1>1
  <2>2. g[i] \in Stacks /\ g[i].stack # <<>>
    BY <1>1, <2>1, RanAt DEF Standing
  <2>. QED
    BY <2>2, StackFields DEF Height
<1>3. g[0] \in Stacks /\ t[1] \in Chars /\ g[1] = Stack(g[0], t[1]) /\ g[0] = Nothing
  <2>1. 1 - 1 = 0 /\ 0 \in 0..Len(t)
    BY <1>1
  <2>. QED
    BY <1>1, <2>1, RanAt DEF Ran
<1>4. ~g[0].in_str /\ Len(g[0].stack) = 0
  <2>1. Nothing.in_str = FALSE /\ Nothing.stack = <<>>
    BY DEF Nothing
  <2>. QED
    BY <1>3, <2>1
<1>. DEFINE k == g[0]
            c == t[1]
<1>5. k \in Stacks /\ c \in Chars /\ ~k.in_str /\ c \in Openers /\ Len(k.stack) = 0
  BY <1>3, <1>4 DEF Standing
<1>. HIDE DEF k, c
<1>6. /\ Len(Stack(k, c).stack) = Len(k.stack) + 1 /\ Stack(k, c).stack[1] = Partner[c]
      /\ ~Stack(k, c).in_str
  BY <1>5, StackOpener
<1>7. ~g[1].in_str /\ Height(g[1]) = 1 /\ g[1].stack[1] = Partner[t[1]]
  BY <1>3, <1>5, <1>6 DEF k, c, Height
<1>. QED
  BY <1>1, <1>2, <1>7

LEMMA LastBracket ==
    ASSUME NEW g, NEW t, NEW st, Due(g, t, st), Len(st) = 1
    PROVE  Whole(Append(t, st[1]))
PROOF
<1>. DEFINE n == Len(t)
            u == Append(t, st[1])
<1>0. /\ Tidy(g, t) /\ Standing(g, t) /\ ~g[n].in_str /\ g[n].stack = st /\ Height(g[n]) = 1
  BY DEF Due, Height
<1>1. /\ Ran(g, t) /\ t \in Seq(Chars) /\ n \in Nat /\ 1 \in 1..n
      /\ g[1] \in Stacks /\ ~g[1].in_str /\ Height(g[1]) = 1
      /\ g[1].stack[1] = Partner[t[1]]
      /\ \A i \in 1..n : g[i] \in Stacks /\ Height(g[i]) \in Nat /\ Height(g[i]) >= 1
  BY <1>0, FirstBracket
<1>2. /\ 1 \in 0..n /\ n - 1 \in Nat /\ 1 + (n - 1) = n /\ \A k \in 0..(n - 1) : 1 + k \in 1..n
      /\ 1 + (n - 1) <= n
  BY <1>1
<1>3. Balanced[SubSeq(t, 1 + 1, 1 + (n - 1))]
  <2>1. Above(g, 1, 1 + (n - 1))
    BY <1>0, <1>1, <1>2 DEF Above
  <2>. HIDE DEF n
  <2>. QED
    BY <1>0, <1>2, <2>1, AboveBalanced DEF n
<1>4. st[1] = Partner[t[1]]
  <2>1. \A k \in 0..(n - 1) : Height(g[1 + k]) >= Height(g[1])
    BY <1>1, <1>2
  <2>2. Under(g[1], g[1 + (n - 1)])
    BY <1>1, <1>2, <2>1, RemainsUnder
  <2>3. 0 \in 0..(Height(g[1]) - 1) /\ Height(g[1]) - 0 = 1 /\ Height(g[n]) - 0 = 1
    BY <1>0, <1>1
  <2>4. g[n].stack[1] = g[1].stack[1]
    BY <1>2, <2>2, <2>3 DEF Under
  <2>. QED
    BY <1>0, <1>1, <2>4
<1>5. st[1] \in Chars
  BY <1>4, CharKinds DEF Standing, Due
<1>6. /\ u \in Seq(Chars) /\ Len(u) = n + 1 /\ u[n + 1] = st[1]
      /\ \A i \in 1..n : u[i] = t[i]
  BY <1>1, <1>5, TextGrows
<1>. HIDE DEF u
<1>7. SubSeq(u, 2, n) = SubSeq(t, 1 + 1, 1 + (n - 1))
  <2>1. SubSeq(u, 1 + 1, 1 + (n - 1)) = SubSeq(t, 1 + 1, 1 + (n - 1))
    <3>. DEFINE v == SubSeq(u, 1 + 1, 1 + (n - 1))
                w == SubSeq(t, 1 + 1, 1 + (n - 1))
    <3>1. w \in Seq(Chars) /\ Len(w) = n - 1 /\ \A k \in 1..(n - 1) : w[k] = t[1 + k]
      BY <1>1, <1>2, PieceAt
    <3>2. v \in Seq(Chars) /\ Len(v) = n - 1 /\ \A k \in 1..(n - 1) : v[k] = u[1 + k]
      <4>1. 1 \in 0..Len(u) /\ 1 + (n - 1) <= Len(u)
        BY <1>1, <1>6
      <4>. QED
        BY <1>2, <1>6, <4>1, PieceAt
    <3>3. \A k \in 1..(n - 1) : 1 + k \in 1..n
      BY <1>1
    <3>. HIDE DEF v, w
    <3>4. Len(v) = Len(w) /\ \A k \in 1..Len(v) : v[k] = w[k]
      BY <1>6, <3>1, <3>2, <3>3
    <3>. QED
      BY <3>1, <3>2, <3>4, SameSequence DEF v, w
  <2>2. 1 + 1 = 2 /\ 1 + (n - 1) = n
    BY <1>1
  <2>. QED
    BY <2>1, <2>2
<1>8. u[1] = t[1] /\ t[1] \in Openers
  BY <1>0, <1>1, <1>6 DEF Standing
<1>9. Len(u) >= 2 /\ Len(u) - 1 = n
  BY <1>1, <1>6
<1>10. Whole(u)
  BY <1>3, <1>4, <1>6, <1>7, <1>8, <1>9 DEF Whole
<1>. QED
  BY <1>10 DEF u

LEMMA RanMore ==
    ASSUME NEW g, NEW t, Ran(g, t), NEW c \in Chars
    PROVE  \E f : /\ Ran(f, Append(t, c))
                  /\ \A i \in 0..Len(t) : f[i] = g[i]
                  /\ f[Len(t) + 1] = Stack(g[Len(t)], c)
PROOF
<1>. DEFINE n == Len(t)
            u == Append(t, c)
            f == [k \in 0..(n + 1) |-> IF k <= n THEN g[k] ELSE Stack(g[n], c)]
<1>1. /\ n \in Nat /\ u \in Seq(Chars) /\ Len(u) = n + 1 /\ u[n + 1] = c
      /\ \A i \in 1..n : u[i] = t[i]
  BY RanAt, TextGrows
<1>2. Stack(g[n], c) \in Stacks
  <2>1. n \in 0..n
    BY <1>1
  <2>. QED
    BY <2>1, RanAt, StackTyped
<1>3. \A k \in 0..n : g[k] \in Stacks /\ f[k] = g[k]
  BY <1>1, RanAt
<1>4. f[n + 1] = Stack(g[n], c) /\ f \in [0..(n + 1) -> Stacks]
  <2>1. n + 1 \in 0..(n + 1) /\ ~(n + 1 <= n)
    BY <1>1
  <2>2. ASSUME NEW k \in 0..(n + 1)
        PROVE  (IF k <= n THEN g[k] ELSE Stack(g[n], c)) \in Stacks
    <3>1. k <= n => k \in 0..n
      BY <1>1
    <3>. QED
      BY <1>2, <1>3, <3>1
  <2>3. f \in [0..(n + 1) -> Stacks]
    BY <2>2
  <2>. QED
    BY <2>1, <2>3
<1>. HIDE DEF f, u
<1>5. f[0] = Nothing
  BY <1>1, <1>3 DEF Ran
<1>6. ASSUME NEW i \in 1..(n + 1) PROVE f[i] = Stack(f[i - 1], u[i])
  <2>1. CASE i = n + 1
    <3>1. i - 1 = n /\ n \in 0..n
      BY <1>1, <2>1
    <3>. QED
      BY <1>1, <1>3, <1>4, <2>1, <3>1
  <2>2. CASE i # n + 1
    <3>1. i \in 1..n /\ i \in 0..n /\ i - 1 \in 0..n
      BY <1>1, <2>2
    <3>2. g[i] = Stack(g[i - 1], t[i])
      BY <3>1 DEF Ran
    <3>. QED
      BY <1>1, <1>3, <3>1, <3>2
  <2>. QED
    BY <2>1, <2>2
<1>7. Ran(f, u)
  BY <1>1, <1>4, <1>5, <1>6 DEF Ran
<1>. QED
  BY <1>3, <1>4, <1>7 DEF u

\* One more character that leaves a bracket open.
LEMMA EndsMore ==
    ASSUME NEW g, NEW t, Tidy(g, t), Standing(g, t), NEW c \in Chars,
           ~g[Len(t)].in_str /\ c \in Closers =>
                g[Len(t)].stack # <<>> /\ Head(g[Len(t)].stack) = c,
           ~Stack(g[Len(t)], c).in_str, Stack(g[Len(t)], c).stack # <<>>
    PROVE  Ready(Append(t, c), Stack(g[Len(t)], c).stack)
PROOF
<1>. DEFINE n == Len(t)
            u == Append(t, c)
<1>0. Ran(g, t)
  BY DEF Tidy
<1>1. /\ n \in Nat /\ n >= 1 /\ u \in Seq(Chars) /\ Len(u) = n + 1 /\ u[n + 1] = c
      /\ \A i \in 1..n : u[i] = t[i]
  BY <1>0, RanAt, TextGrows DEF Standing
<1>2. PICK f : /\ Ran(f, u)
               /\ \A i \in 0..n : f[i] = g[i]
               /\ f[n + 1] = Stack(g[n], c)
  BY <1>0, RanMore
<1>. HIDE DEF u
<1>3. ASSUME NEW i \in 1..(n + 1), ~f[i - 1].in_str, u[i] \in Closers
      PROVE  f[i - 1].stack # <<>> /\ Head(f[i - 1].stack) = u[i]
  <2>1. CASE i = n + 1
    <3>1. i - 1 = n /\ n \in 0..n
      BY <1>1, <2>1
    <3>. QED
      BY <1>1, <1>2, <1>3, <2>1, <3>1
  <2>2. CASE i # n + 1
    <3>1. i \in 1..n /\ i - 1 \in 0..n
      BY <1>1, <2>2
    <3>. QED
      BY <1>1, <1>2, <1>3, <3>1 DEF Tidy
  <2>. QED
    BY <2>1, <2>2
<1>4. Tidy(f, u)
  BY <1>1, <1>2, <1>3 DEF Tidy
<1>5. ASSUME NEW i \in 1..(n + 1) PROVE f[i].stack # <<>>
  <2>1. CASE i = n + 1
    BY <1>2, <2>1
  <2>2. CASE i # n + 1
    <3>1. i \in 1..n /\ i \in 0..n
      BY <1>1, <2>2
    <3>. QED
      BY <1>2, <3>1 DEF Standing
  <2>. QED
    BY <2>1, <2>2
<1>6. Standing(f, u)
  <2>1. 1 \in 1..n
    BY <1>1
  <2>. QED
    BY <1>1, <1>5, <2>1 DEF Standing
<1>7. Due(f, u, Stack(g[n], c).stack)
  BY <1>1, <1>2, <1>4, <1>6 DEF Due
<1>. QED
  BY <1>7 DEF Ready, u

LEMMA OneByOne ==
    ASSUME NEW S, NEW t \in Seq(S), NEW st \in Seq(S), st # <<>>
    PROVE  /\ Head(st) \in S /\ Tail(st) \in Seq(S) /\ Len(Tail(st)) = Len(st) - 1
           /\ Head(st) = st[1]
           /\ Append(t, Head(st)) \o Tail(st) = t \o st
           /\ Len(st) = 1 => t \o st = Append(t, st[1])
PROOF
<1>1. /\ Head(st) \in S /\ Tail(st) \in Seq(S) /\ Len(Tail(st)) = Len(st) - 1
      /\ Head(st) = st[1] /\ Len(st) \in Nat /\ Len(st) >= 1
      /\ \A i \in 1..(Len(st) - 1) : Tail(st)[i] = st[i + 1]
  OBVIOUS
<1>. DEFINE u == Append(t, Head(st))
            v == u \o Tail(st)
            w == t \o st
<1>2. /\ u \in Seq(S) /\ Len(u) = Len(t) + 1 /\ u[Len(t) + 1] = st[1]
      /\ \A i \in 1..Len(t) : u[i] = t[i]
  BY <1>1
<1>3. /\ w \in Seq(S) /\ Len(w) = Len(t) + Len(st) /\ Len(t) \in Nat
      /\ \A i \in 1..Len(t) : w[i] = t[i]
      /\ \A i \in 1..Len(st) : w[Len(t) + i] = st[i]
  OBVIOUS
<1>. HIDE DEF u, w
<1>4. /\ v \in Seq(S) /\ Len(v) = Len(u) + Len(Tail(st))
      /\ \A i \in 1..Len(u) : v[i] = u[i]
      /\ \A i \in 1..Len(Tail(st)) : v[Len(u) + i] = Tail(st)[i]
  BY <1>1, <1>2
<1>. HIDE DEF v
<1>5. Len(v) = Len(w)
  BY <1>1, <1>2, <1>3, <1>4
<1>6. ASSUME NEW i \in 1..Len(v) PROVE v[i] = w[i]
  <2>1. CASE i <= Len(t)
    <3>1. i \in 1..Len(t) /\ i \in 1..Len(u)
      BY <1>1, <1>2, <1>3, <1>5, <2>1
    <3>. QED
      BY <1>2, <1>3, <1>4, <3>1
  <2>2. CASE i = Len(t) + 1
    <3>1. i \in 1..Len(u) /\ 1 \in 1..Len(st)
      BY <1>1, <1>2, <1>3, <2>2
    <3>2. v[i] = u[i] /\ w[Len(t) + 1] = st[1]
      BY <1>3, <1>4, <3>1
    <3>. QED
      BY <1>2, <2>2, <3>2
  <2>3. CASE i > Len(t) + 1
    <3>. DEFINE j == i - (Len(t) + 1)
    <3>1. /\ j \in 1..Len(Tail(st)) /\ Len(u) + j = i /\ j \in 1..(Len(st) - 1)
          /\ j + 1 \in 1..Len(st) /\ Len(t) + (j + 1) = i
      BY <1>1, <1>2, <1>3, <1>5, <2>3
    <3>. HIDE DEF j
    <3>2. v[i] = Tail(st)[j] /\ w[i] = st[j + 1]
      BY <1>3, <1>4, <3>1
    <3>. QED
      BY <1>1, <3>1, <3>2
  <2>4. i \in Int /\ Len(t) \in Int
    BY <1>3
  <2>. QED
    BY <2>1, <2>2, <2>3, <2>4
<1>7. v = w
  BY <1>3, <1>4, <1>5, <1>6, SameSequence
<1>8. Len(st) = 1 => t \o st = Append(t, st[1])
  <2>. SUFFICES ASSUME Len(st) = 1 PROVE w = u
    BY <1>1 DEF u, w
  <2>1. Len(u) = Len(w)
    BY <1>2, <1>3
  <2>2. ASSUME NEW i \in 1..Len(u) PROVE u[i] = w[i]
    <3>1. CASE i = Len(t) + 1
      <4>1. 1 \in 1..Len(st)
        OBVIOUS
      <4>. QED
        BY <1>2, <1>3, <3>1, <4>1
    <3>2. CASE i # Len(t) + 1
      <4>1. i \in 1..Len(t)
        BY <1>2, <1>3, <3>2
      <4>. QED
        BY <1>2, <1>3, <4>1
    <3>. QED
      BY <3>1, <3>2
  <2>. QED
    BY <1>2, <1>3, <2>1, <2>2, SameSequence
<1>. QED
  BY <1>1, <1>7, <1>8 DEF u, v, w

LEMMA ReadyCloses ==
    ASSUME NEW t, NEW st, Ready(t, st)
    PROVE  Whole(t \o st)
PROOF
<1>. DEFINE D == {n \in Nat : \A u, s : Ready(u, s) /\ Len(s) = n + 1 => Whole(u \o s)}
<1>1. ASSUME NEW u, NEW s, Ready(u, s)
      PROVE  /\ u \in Seq(Chars) /\ s \in Seq(Chars) /\ Len(s) \in Nat /\ Len(s) >= 1
             /\ s \in Seq(Closers) /\ s # <<>>
  <2>1. PICK g : Due(g, u, s)
    BY <1>1 DEF Ready
  <2>2. Tidy(g, u) /\ Standing(g, u) /\ g[Len(u)].stack = s
    BY <2>1 DEF Due
  <2>3. u \in Seq(Chars) /\ Len(u) \in 1..Len(u) /\ g[Len(u)] \in Stacks
    <3>1. u \in Seq(Chars) /\ Len(u) \in Nat /\ 1 \in 1..Len(u)
          /\ \A i \in 1..Len(u) : g[i] \in Stacks
      BY <2>2, FirstBracket
    <3>2. Len(u) \in 1..Len(u)
      BY <3>1
    <3>. QED
      BY <3>1, <3>2
  <2>4. s \in Seq(Closers) /\ s # <<>>
    BY <2>2, <2>3, StackFields DEF Standing
  <2>5. s \in Seq(Chars)
    BY <2>4, CharKinds
  <2>. QED
    BY <2>3, <2>4, <2>5
<1>2. 0 \in D
  <2>1. ASSUME NEW u, NEW s, Ready(u, s), Len(s) = 0 + 1 PROVE Whole(u \o s)
    <3>1. PICK g : Due(g, u, s)
      BY <2>1 DEF Ready
    <3>2. Whole(Append(u, s[1]))
      BY <2>1, <3>1, LastBracket
    <3>3. u \o s = Append(u, s[1])
      BY <1>1, <2>1, OneByOne
    <3>. QED
      BY <3>2, <3>3
  <2>. QED
    BY <2>1
<1>3. ASSUME NEW n \in Nat, n \in D PROVE n + 1 \in D
  <2>1. ASSUME NEW u, NEW s, Ready(u, s), Len(s) = (n + 1) + 1 PROVE Whole(u \o s)
    <3>1. PICK g : Due(g, u, s)
      BY <2>1 DEF Ready
    <3>. DEFINE k == g[Len(u)]
                c == Head(s)
    <3>2. /\ Tidy(g, u) /\ Standing(g, u) /\ ~k.in_str /\ k.stack = s
          /\ u \in Seq(Chars) /\ s \in Seq(Chars) /\ s \in Seq(Closers) /\ s # <<>>
      BY <1>1, <2>1, <3>1 DEF Due
    <3>3. k \in Stacks
      <4>1. Ran(g, u) /\ Len(u) \in Nat /\ Len(u) \in 0..Len(u)
        BY <3>2, RanAt DEF Tidy
      <4>. QED
        BY <4>1, RanAt
    <3>4. /\ c \in Chars /\ c \in Closers /\ Len(Tail(s)) = n + 1 /\ Tail(s) # <<>>
          /\ Append(u, c) \o Tail(s) = u \o s
      <4>1. /\ Head(s) \in Closers /\ Len(Tail(s)) = Len(s) - 1
        BY <3>2, OneByOne
      <4>2. Append(u, c) \o Tail(s) = u \o s
        BY <3>2, OneByOne
      <4>3. Len(Tail(s)) = n + 1 /\ n + 1 # 0
        BY <2>1, <4>1
      <4>4. Tail(s) # <<>>
        BY <4>3
      <4>. QED
        BY <4>1, <4>2, <4>3, <4>4, CharKinds
    <3>. HIDE DEF c
    <3>5. Stack(k, c).stack = Tail(s) /\ ~Stack(k, c).in_str
      BY <3>2, <3>3, <3>4, StackCloser DEF c
    <3>6. Ready(Append(u, c), Tail(s))
      BY <3>2, <3>4, <3>5, EndsMore DEF c
    <3>7. Whole(Append(u, c) \o Tail(s))
      BY <1>3, <3>4, <3>6
    <3>. QED
      BY <3>4, <3>7
  <2>. QED
    BY <2>1
<1>. HIDE DEF D
<1>4. \A n \in Nat : n \in D
  BY <1>2, <1>3, NatSet
<1>5. Len(st) - 1 \in Nat /\ (Len(st) - 1) + 1 = Len(st)
  BY <1>1
<1>6. Len(st) - 1 \in D
  BY <1>4, <1>5
<1>. QED
  BY <1>5, <1>6 DEF D

-----------------------------------------------------------------------------
(***************************************************************************)
(* What dangles is dropped without opening or closing anything.            *)
(***************************************************************************)
LEMMA DueBefore ==
    ASSUME NEW g, NEW t, Tidy(g, t), Standing(g, t), NEW j \in 1..Len(t), NEW st,
           ~g[j].in_str, g[j].stack = st
    PROVE  Ready(SubSeq(t, 1, j), st)
PROOF
<1>. DEFINE u == SubSeq(t, 1, j)
            f == [i \in 0..j |-> g[i]]
<1>0. Ran(g, t) /\ t \in Seq(Chars) /\ Len(t) \in Nat /\ j \in Nat /\ j <= Len(t) /\ 1 <= j
  BY RanAt DEF Tidy
<1>1. u \in Seq(Chars) /\ Len(u) = j /\ \A i \in 1..j : u[i] = t[i]
  <2>1. 0 \in 0..Len(t) /\ 0 + j <= Len(t) /\ 0 + 1 = 1 /\ 0 + j = j
    BY <1>0
  <2>2. /\ SubSeq(t, 0 + 1, 0 + j) \in Seq(Chars) /\ Len(SubSeq(t, 0 + 1, 0 + j)) = j
        /\ \A k \in 1..j : SubSeq(t, 0 + 1, 0 + j)[k] = t[0 + k]
    BY <1>0, <2>1, PieceAt
  <2>3. \A k \in 1..j : 0 + k = k
    OBVIOUS
  <2>. HIDE DEF u
  <2>. QED
    BY <2>1, <2>2, <2>3 DEF u
<1>2. \A i \in 0..j : i \in 0..Len(t) /\ f[i] = g[i] /\ g[i] \in Stacks
  BY <1>0, RanAt
<1>3. f \in [0..j -> Stacks]
  BY <1>2
<1>. HIDE DEF u, f
<1>4. ASSUME NEW i \in 1..j
      PROVE  /\ i \in 1..Len(t) /\ i - 1 \in 0..j /\ i \in 0..j
             /\ f[i] = g[i] /\ f[i - 1] = g[i - 1] /\ u[i] = t[i]
  <2>1. i \in 1..Len(t) /\ i - 1 \in 0..j /\ i \in 0..j
    BY <1>0
  <2>. QED
    BY <1>1, <1>2, <2>1
<1>5. f[0] = Nothing
  <2>1. 0 \in 0..j
    BY <1>0
  <2>. QED
    BY <1>0, <1>2, <2>1 DEF Ran
<1>6. Ran(f, u)
  <2>1. \A i \in 1..j : f[i] = Stack(f[i - 1], u[i])
    BY <1>0, <1>4 DEF Ran
  <2>. QED
    BY <1>1, <1>3, <1>5, <2>1 DEF Ran
<1>7. Tidy(f, u)
  <2>1. ASSUME NEW i \in 1..j, ~f[i - 1].in_str, u[i] \in Closers
        PROVE  f[i - 1].stack # <<>> /\ Head(f[i - 1].stack) = u[i]
    <3>1. ~g[i - 1].in_str /\ t[i] \in Closers /\ i \in 1..Len(t)
      BY <1>4, <2>1
    <3>2. g[i - 1].stack # <<>> /\ Head(g[i - 1].stack) = t[i]
      BY <3>1 DEF Tidy
    <3>. QED
      BY <1>4, <3>2
  <2>. QED
    BY <1>1, <1>6, <2>1 DEF Tidy
<1>8. Standing(f, u)
  <2>1. \A i \in 1..j : f[i].stack # <<>>
    BY <1>4 DEF Standing
  <2>2. u[1] = t[1] /\ t[1] \in Openers
    <3>1. 1 \in 1..j
      BY <1>0
    <3>. QED
      BY <1>4, <3>1 DEF Standing
  <2>. QED
    BY <1>0, <1>1, <2>1, <2>2 DEF Standing
<1>9. j \in 0..j
  BY <1>0
<1>10. Due(f, u, st)
  BY <1>1, <1>2, <1>7, <1>8, <1>9 DEF Due
<1>. QED
  BY <1>10 DEF Ready, u

\* A character without a meaning.
Plain(c) == c \notin Quotes /\ c \notin Openers /\ c \notin Closers /\ c # "\\"

\* It changes nothing between strings.
LEMMA PlainLast ==
    ASSUME NEW g, NEW t, Ran(g, t), NEW i \in 1..Len(t), Plain(t[i]), ~g[i].in_str
    PROVE  ~g[i - 1].in_str /\ g[i - 1].stack = g[i].stack
PROOF
<1>. DEFINE k == g[i - 1]
            c == t[i]
<1>1. k \in Stacks /\ c \in Chars /\ g[i] = Stack(k, c)
  BY RanAt
<1>2. c \notin Quotes /\ c \notin Openers /\ c \notin Closers
  BY DEF Plain
<1>. HIDE DEF k, c
<1>3. ~k.in_str
  <2>. SUFFICES ASSUME k.in_str PROVE FALSE
    OBVIOUS
  <2>1. Stack(k, c).in_str = (k.esc \/ c # k.quote) /\ k.quote \in Quotes
    BY <1>1, StackInString, StackFields
  <2>2. c # k.quote
    BY <1>2, <2>1
  <2>3. Stack(k, c).in_str
    BY <2>1, <2>2, Zenon
  <2>. QED
    BY <1>1, <2>3
<1>4. Stack(k, c) = k
  BY <1>1, <1>2, <1>3, StackOther
<1>. QED
  BY <1>1, <1>3, <1>4 DEF k

LEMMA TailOfText ==
    ASSUME NEW t \in Seq(Chars), NEW i \in 1..Len(t)
    PROVE  /\ Len(SubSeq(t, i, Len(t))) = Len(t) - i + 1
           /\ \A k \in 1..(Len(t) - i + 1) : SubSeq(t, i, Len(t))[k] = t[i + k - 1]
PROOF
<1>1. Len(t) \in Nat /\ i \in 1..(Len(t) + 1) /\ Len(t) \in 0..Len(t) /\ i <= Len(t)
  OBVIOUS
<1>. QED
  BY <1>1, Pieces

LEMMA CommaDropped ==
    ASSUME NEW t, NEW st, Ready(t, st)
    PROVE  Ready(Drop(t, IsComma), st)
PROOF
<1>. DEFINE n == Len(t)
            cuts == {i \in 1..n : IsComma(SubSeq(t, i, n))}
            j == CHOOSE i \in cuts : TRUE
            comma == ","
<1>0. Plain(comma)
  BY Zenon DEF Plain, Quotes, Openers, Closers
<1>1. PICK g : Due(g, t, st)
  BY DEF Ready
<1>2. /\ Tidy(g, t) /\ Standing(g, t) /\ Ran(g, t) /\ t \in Seq(Chars) /\ n \in Nat /\ n >= 1
      /\ t[1] \in Openers /\ ~g[n].in_str /\ g[n].stack = st
  BY <1>1, RanAt DEF Due, Tidy, Standing
<1>3. Drop(t, IsComma) = IF cuts = {} THEN t ELSE SubSeq(t, 1, j - 1)
  BY Zenon DEF Drop
<1>4. ASSUME cuts # {} PROVE Ready(SubSeq(t, 1, j - 1), st)
  <2>1. j \in 1..n /\ SubSeq(t, j, n) = <<comma>>
    <3>1. j \in cuts
      BY <1>4, Zenon
    <3>. HIDE DEF j
    <3>. QED
      BY <3>1, Zenon DEF IsComma
  <2>. HIDE DEF j, comma
  <2>2. n - j + 1 = 1 /\ t[j] = comma
    <3>. DEFINE e == SubSeq(t, j, n)
    <3>1. Len(e) = n - j + 1 /\ \A k \in 1..(n - j + 1) : e[k] = t[j + k - 1]
      BY <1>2, <2>1, TailOfText
    <3>0. e = <<comma>>
      BY <2>1
    <3>. HIDE DEF e, n
    <3>2. Len(e) = 1 /\ e[1] = comma
      BY <3>0
    <3>3. 1 \in 1..(n - j + 1) /\ j + 1 - 1 = j
      BY <1>2, <2>1, <3>1, <3>2
    <3>. QED
      BY <3>1, <3>2, <3>3
  <2>3. j = n
    <3>. HIDE DEF n
    <3>. QED
      BY <1>2, <2>1, <2>2
  <2>4. ~g[j - 1].in_str /\ g[j - 1].stack = st
    BY <1>0, <1>2, <2>1, <2>2, <2>3, PlainLast
  <2>5. j # 1
    BY <1>0, <1>2, <2>2 DEF Plain
  <2>6. j - 1 \in 1..n
    <3>. HIDE DEF n
    <3>. QED
      BY <1>2, <2>1, <2>5
  <2>. QED
    BY <1>2, <2>4, <2>6, DueBefore
<1>. QED
  BY <1>3, <1>4

\* Before the key that has no value, no string was open and the same brackets were.
LEMMA KeyPassed ==
    ASSUME NEW g, NEW t, Ran(g, t), NEW n \in Nat, Len(t) = n, NEW i \in 1..n, ~g[n].in_str,
           n - i >= 3, NEW quote \in Quotes,
           Plain(t[i]), t[i + 1] = quote, t[n - 1] = quote, Plain(t[n]),
           \A k \in (i + 2)..(n - 2) : t[k] # quote
    PROVE  ~g[i - 1].in_str /\ g[i - 1].stack = g[n].stack
PROOF
<1>. DEFINE st == g[n].stack
            In(k) == g[k].in_str /\ g[k].quote = quote /\ g[k].stack = st
<1>0. n \in Nat /\ i \in Nat /\ 1 <= i /\ n - i >= 3
  OBVIOUS
<1>a. ASSUME NEW k \in 1..n
      PROVE  g[k] \in Stacks /\ g[k - 1] \in Stacks /\ t[k] \in Chars /\ g[k] = Stack(g[k - 1], t[k])
  <2>1. k \in 0..n /\ k - 1 \in 0..n
    BY <1>0
  <2>. QED
    BY <2>1, RanAt
<1>1. n \in 1..n /\ n - 1 \in 1..n /\ (n - 1) - 1 = n - 2 /\ n - 2 \in (i + 1)..(n - 2)
  BY <1>0
<1>2. ~g[n - 1].in_str /\ g[n - 1].stack = st
  BY <1>1, PlainLast
<1>3. In(n - 2)
  <2>. DEFINE k == g[n - 2]
              c == t[n - 1]
              r == g[n - 1]
  <2>1. k \in Stacks /\ c \in Chars /\ r = Stack(k, c) /\ c = quote /\ c \in Quotes
    BY <1>1, <1>a
  <2>2. ~r.in_str /\ r.stack = st
    BY <1>2
  <2>. HIDE DEF k, c, r
  <2>3. k.in_str
    BY <2>1, <2>2, StackQuote
  <2>4. r.in_str = (k.esc \/ c # k.quote) /\ r.stack = k.stack
    BY <2>1, <2>3, StackInString
  <2>5. c = k.quote
    BY <2>2, <2>4, Zenon
  <2>. QED
    BY <2>1, <2>2, <2>3, <2>4, <2>5 DEF k
<1>4. ASSUME NEW h \in (i + 2)..(n - 2), In(h) PROVE In(h - 1)
  <2>. DEFINE k == g[h - 1]
              c == t[h]
              r == g[h]
  <2>1. h \in 1..n
    BY <1>0
  <2>2. k \in Stacks /\ c \in Chars /\ r = Stack(k, c) /\ c # quote
    BY <1>a, <2>1
  <2>3. r.in_str /\ r.quote = quote /\ r.stack = st
    BY <1>4
  <2>. HIDE DEF k, c, r
  <2>4. k.in_str
    <3>. SUFFICES ASSUME ~k.in_str PROVE FALSE
      OBVIOUS
    <3>1. CASE c \in Quotes
      BY <2>2, <2>3, <3>1, StackQuote
    <3>2. CASE c \in Openers
      BY <2>2, <2>3, <3>2, StackOpener
    <3>3. CASE c \in Closers /\ k.stack # <<>> /\ Head(k.stack) = c
      BY <2>2, <2>3, <3>3, StackCloser
    <3>4. CASE c \notin Openers /\ c \notin Quotes
               /\ (c \in Closers => ~(k.stack # <<>> /\ Head(k.stack) = c))
      BY <2>2, <2>3, <3>4, StackOther
    <3>. QED
      BY <3>1, <3>2, <3>3, <3>4
  <2>5. r.quote = k.quote /\ r.stack = k.stack
    BY <2>2, <2>4, StackInString
  <2>. QED
    BY <2>3, <2>4, <2>5 DEF k
<1>5. In(i + 1)
  <2>. DEFINE D == {x \in Nat : (n - 2) - x >= i + 1 => In((n - 2) - x)}
  <2>. HIDE DEF In
  <2>1. 0 \in D
    <3>1. (n - 2) - 0 = n - 2
      BY <1>0
    <3>. QED
      BY <1>3, <3>1
  <2>2. ASSUME NEW x \in Nat, x \in D PROVE x + 1 \in D
    <3>. SUFFICES ASSUME (n - 2) - (x + 1) >= i + 1 PROVE In((n - 2) - (x + 1))
      OBVIOUS
    <3>1. /\ (n - 2) - x \in (i + 2)..(n - 2) /\ ((n - 2) - x) - 1 = (n - 2) - (x + 1)
          /\ (n - 2) - x >= i + 1
      BY <1>0
    <3>2. In((n - 2) - x)
      BY <2>2, <3>1
    <3>3. In(((n - 2) - x) - 1)
      BY <1>4, <3>1, <3>2
    <3>. QED
      BY <3>1, <3>3
  <2>. HIDE DEF D
  <2>3. \A x \in Nat : x \in D
    BY <2>1, <2>2, NatSet
  <2>4. (n - 2) - (i + 1) \in Nat /\ (n - 2) - ((n - 2) - (i + 1)) = i + 1 /\ i + 1 >= i + 1
    BY <1>0
  <2>5. (n - 2) - (i + 1) \in D
    BY <2>3, <2>4
  <2>. QED
    BY <2>4, <2>5 DEF D
<1>6. ~g[i].in_str /\ g[i].stack = st
  <2>. DEFINE k == g[i]
              c == t[i + 1]
              r == g[i + 1]
              q == g[i - 1]
              d == t[i]
  <2>1. i + 1 \in 1..n /\ (i + 1) - 1 = i
    BY <1>0
  <2>2. /\ k \in Stacks /\ c \in Chars /\ r = Stack(k, c) /\ c = quote /\ c \in Quotes
        /\ q \in Stacks /\ d \in Chars /\ k = Stack(q, d) /\ Plain(d)
    BY <1>a, <2>1
  <2>3. r.in_str /\ r.quote = quote /\ r.stack = st
    BY <1>5
  <2>4. d \notin Quotes /\ d \notin Openers /\ d \notin Closers /\ d # "\\"
    BY <2>2 DEF Plain
  <2>. HIDE DEF k, c, r, q, d
  <2>5. ~k.in_str
    <3>. SUFFICES ASSUME k.in_str PROVE FALSE
      OBVIOUS
    <3>1. r.in_str = (k.esc \/ c # k.quote) /\ r.quote = k.quote
      BY <2>2, StackInString
    <3>2. c = k.quote
      BY <2>2, <2>3, <3>1
    <3>3. k.esc
      BY <2>3, <3>1, <3>2, Zenon
    <3>4. CASE q.in_str
      <4>1. k.esc = (~q.esc /\ d = "\\")
        BY <2>2, <3>4, StackInString
      <4>. QED
        BY <2>4, <3>3, <4>1, Zenon
    <3>5. CASE ~q.in_str
      <4>1. k = q
        BY <2>2, <2>4, <3>5, StackOther
      <4>. QED
        BY <3>5, <4>1
    <3>. QED
      BY <3>4, <3>5
  <2>6. r.stack = k.stack
    BY <2>2, <2>5, StackQuote
  <2>. QED
    BY <2>3, <2>5, <2>6 DEF k
<1>. QED
  BY <1>6, PlainLast

LEMMA KeyDropped ==
    ASSUME NEW t, NEW st, Ready(t, st)
    PROVE  Ready(Drop(t, IsKey), st)
PROOF
<1>. DEFINE n == Len(t)
            cuts == {i \in 1..n : IsKey(SubSeq(t, i, n))}
            j == CHOOSE i \in cuts : TRUE
            comma == ","
            quote == "\""
            colon == ":"
<1>0. Plain(comma) /\ Plain(colon) /\ quote \in Quotes
  BY Zenon DEF Plain, Quotes, Openers, Closers
<1>1. PICK g : Due(g, t, st)
  BY DEF Ready
<1>2. /\ Tidy(g, t) /\ Standing(g, t) /\ Ran(g, t) /\ t \in Seq(Chars) /\ n \in Nat /\ n >= 1
      /\ t[1] \in Openers /\ ~g[n].in_str /\ g[n].stack = st
  BY <1>1, RanAt DEF Due, Tidy, Standing
<1>3. Drop(t, IsKey) = IF cuts = {} THEN t ELSE SubSeq(t, 1, j - 1)
  BY Zenon DEF Drop
<1>4. ASSUME cuts # {} PROVE Ready(SubSeq(t, 1, j - 1), st)
  <2>. DEFINE e == SubSeq(t, j, n)
  <2>1. j \in 1..n /\ IsKey(e)
    <3>1. j \in cuts
      BY <1>4, Zenon
    <3>. HIDE DEF j
    <3>. QED
      BY <3>1, Zenon
  <2>. HIDE DEF j
  <2>2. Len(e) = n - j + 1 /\ \A k \in 1..(n - j + 1) : e[k] = t[j + k - 1]
    BY <1>2, <2>1, TailOfText
  <2>. HIDE DEF e, n
  <2>3. /\ Len(e) >= 4
        /\ e[1] = comma /\ e[2] = quote /\ e[Len(e) - 1] = quote /\ e[Len(e)] = colon
        /\ \A k \in 3..(Len(e) - 2) : e[k] # quote
    <3>1. /\ Len(e) >= 4 /\ \A k \in 3..(Len(e) - 2) : e[k] # quote
          /\ <<e[1], e[2], e[Len(e) - 1], e[Len(e)]>> = <<comma, quote, quote, colon>>
      BY <2>1, Zenon DEF IsKey
    <3>. HIDE DEF comma, quote, colon
    <3>. QED
      BY <3>1
  <2>. HIDE DEF comma, quote, colon
  <2>4. /\ n - j >= 3 /\ 1 \in 1..(n - j + 1) /\ 2 \in 1..(n - j + 1)
        /\ n - j \in 1..(n - j + 1) /\ n - j + 1 \in 1..(n - j + 1)
        /\ j + 1 - 1 = j /\ j + 2 - 1 = j + 1 /\ j + (n - j) - 1 = n - 1
        /\ j + (n - j + 1) - 1 = n /\ Len(e) - 1 = n - j
    BY <1>2, <2>1, <2>2, <2>3
  <2>5. t[j] = comma /\ t[j + 1] = quote /\ t[n - 1] = quote /\ t[n] = colon
    BY <2>2, <2>3, <2>4
  <2>6. ASSUME NEW k \in (j + 2)..(n - 2) PROVE t[k] # quote
    <3>1. /\ k - j + 1 \in 3..(Len(e) - 2) /\ k - j + 1 \in 1..(n - j + 1)
          /\ j + (k - j + 1) - 1 = k
      BY <1>2, <2>1, <2>2
    <3>. QED
      BY <2>2, <2>3, <3>1
  <2>7. ~g[j - 1].in_str /\ g[j - 1].stack = st
    <3>1. n = Len(t)
      BY DEF n
    <3>. QED
      BY <1>0, <1>2, <2>1, <2>4, <2>5, <2>6, <3>1, KeyPassed
  <2>8. j # 1
    BY <1>0, <1>2, <2>5 DEF Plain
  <2>9. j - 1 \in 1..n
    BY <1>2, <2>1, <2>8
  <2>. QED
    BY <1>2, <2>7, <2>9, DueBefore DEF n
<1>. QED
  BY <1>3, <1>4

LEMMA StripCloses ==
    ASSUME NEW t, NEW st, Ready(t, st)
    PROVE  Whole(Strip(t) \o st)
PROOF
<1>1. Ready(Drop(t, IsKey), st)
  BY KeyDropped
<1>2. Ready(Drop(Drop(t, IsKey), IsComma), st)
  BY <1>1, CommaDropped
<1>3. Ready(Strip(t), st)
  BY <1>2, Zenon DEF Strip
<1>. QED
  BY <1>3, ReadyCloses

-----------------------------------------------------------------------------
(***************************************************************************)
(* The repair follows the scan that found the text unclosed.               *)
(***************************************************************************)
\* Where the brackets that are open after n characters of t began to be.
Opened(h, t, n) ==
    LET a == h[n].start
    IN  /\ a \in Nat /\ a < n
        /\ h[a].depth = 0 /\ ~h[a].in_str /\ ~h[a].esc
        /\ t[a + 1] \in Openers
        /\ \A i \in (a + 1)..n : h[i].depth > 0

Located(h, t, n) ==
    /\ h[n].in_str => h[n].depth > 0
    /\ ~h[n].in_str => ~h[n].esc
    /\ h[n].depth > 0 => Opened(h, t, n)

LEMMA OpenedStays ==
    ASSUME NEW h, NEW t, NEW n \in Nat, Opened(h, t, n),
           h[n + 1].start = h[n].start, h[n + 1].depth > 0
    PROVE  Opened(h, t, n + 1)
PROOF
<1>. DEFINE a == h[n].start
<1>1. /\ a \in Nat /\ a < n /\ h[a].depth = 0 /\ ~h[a].in_str /\ ~h[a].esc
      /\ t[a + 1] \in Openers /\ \A i \in (a + 1)..n : h[i].depth > 0
  BY DEF Opened
<1>. HIDE DEF a
<1>2. \A i \in (a + 1)..(n + 1) : i = n + 1 \/ i \in (a + 1)..n
  BY <1>1
<1>3. a < n + 1 /\ \A i \in (a + 1)..(n + 1) : h[i].depth > 0
  BY <1>1, <1>2
<1>4. h[n + 1].start = a
  BY DEF a
<1>. QED
  BY <1>1, <1>3, <1>4 DEF Opened

LEMMA LocatedMore ==
    ASSUME NEW h, NEW t, Scanned(h, t), NEW n \in Nat, n + 1 <= Len(t), Located(h, t, n)
    PROVE  Located(h, t, n + 1)
PROOF
<1>0. n \in 0..Len(t) /\ n + 1 \in 1..Len(t) /\ (n + 1) - 1 = n
  BY ScannedAt
<1>. DEFINE s == h[n]
            c == t[n + 1]
            r == h[n + 1]
<1>1. s \in Scanners /\ c \in Chars /\ r = Feed(s, c) /\ s.at = n /\ s.depth \in Nat
  BY <1>0, ScannedAt, AtCounts, ScannerFields
<1>2. /\ s.in_str => s.depth > 0
      /\ ~s.in_str => ~s.esc
      /\ s.depth > 0 => Opened(h, t, n)
  BY DEF Located
<1>3. ASSUME s.depth > 0, r.start = s.start, r.depth > 0 PROVE Opened(h, t, n + 1)
  BY <1>2, <1>3, OpenedStays
<1>. SUFFICES /\ r.in_str => r.depth > 0
              /\ ~r.in_str => ~r.esc
              /\ r.depth > 0 => Opened(h, t, n + 1)
  BY DEF Located
<1>4. ASSUME c \in Openers, s.depth = 0, r.start = n, r.depth > 0, ~s.in_str
      PROVE  Opened(h, t, n + 1)
  <2>1. h[n].depth = 0 /\ ~h[n].in_str /\ ~h[n].esc /\ t[n + 1] \in Openers
        /\ h[n + 1].start = n /\ h[n + 1].depth > 0
    BY <1>2, <1>4
  <2>2. n < n + 1 /\ \A i \in (n + 1)..(n + 1) : i = n + 1
    OBVIOUS
  <2>. HIDE DEF s, c, r
  <2>. QED
    BY <2>1, <2>2 DEF Opened
<1>. HIDE DEF s, c, r
<1>5. CASE s.in_str
  <2>1. /\ r.depth = s.depth /\ r.start = s.start /\ r.in_str = (s.esc \/ c # s.quote)
        /\ r.esc = (~s.esc /\ c = "\\") /\ s.quote \in Quotes
    BY <1>1, <1>5, FedInString, ScannerFields
  <2>2. ~r.in_str => ~r.esc
    <3>. SUFFICES ASSUME ~r.in_str PROVE ~r.esc
      OBVIOUS
    <3>1. c = s.quote
      BY <2>1, Zenon
    <3>2. c # "\\"
      BY <2>1, <3>1, CharKinds
    <3>. QED
      BY <2>1, <3>2, Zenon
  <2>3. r.depth > 0
    BY <1>2, <1>5, <2>1
  <2>. QED
    BY <1>2, <1>3, <1>5, <2>1, <2>2, <2>3
<1>6. CASE ~s.in_str /\ c \in Quotes /\ s.depth > 0
  BY <1>1, <1>3, <1>6, FedQuote
<1>7. CASE ~s.in_str /\ c \in Openers
  <2>1. /\ r.depth = s.depth + 1 /\ r.start = (IF s.depth = 0 THEN s.at ELSE s.start)
        /\ r.in_str = s.in_str /\ r.esc = s.esc
    BY <1>1, <1>7, FedOpener
  <2>2. r.depth > 0 /\ ~r.in_str /\ ~r.esc
    BY <1>1, <1>2, <1>7, <2>1
  <2>3. CASE s.depth = 0
    BY <1>1, <1>4, <1>7, <2>1, <2>2, <2>3
  <2>4. CASE s.depth # 0
    <3>1. s.depth > 0
      BY <1>1, <2>4
    <3>. QED
      BY <1>3, <2>1, <2>2, <2>4, <3>1
  <2>. QED
    BY <2>3, <2>4
<1>8. CASE ~s.in_str /\ c \in Closers /\ s.depth > 1
  <2>1. r.depth = s.depth - 1 /\ r.start = s.start /\ r.in_str = s.in_str /\ r.esc = s.esc
    BY <1>1, <1>8, FedCloser
  <2>2. r.depth > 0 /\ s.depth > 0
    BY <1>1, <1>8, <2>1
  <2>. QED
    BY <1>2, <1>3, <1>8, <2>1, <2>2
<1>9. CASE ~s.in_str /\ c \in Closers /\ s.depth = 1
  <2>1. r.depth = 0 /\ r.in_str = s.in_str /\ r.esc = s.esc
    BY <1>1, <1>9, FedLast
  <2>. QED
    BY <1>2, <1>9, <2>1
<1>10. CASE ~s.in_str /\ c \notin Openers /\ (s.depth = 0 \/ c \notin Quotes \union Closers)
  <2>1. r.depth = s.depth /\ r.start = s.start /\ r.in_str = s.in_str /\ r.esc = s.esc
    BY <1>1, <1>10, FedOther
  <2>. QED
    BY <1>2, <1>3, <1>10, <2>1
<1>11. s.depth = 0 \/ s.depth = 1 \/ s.depth > 1
  BY <1>1
<1>12. s.depth > 1 => s.depth > 0
  BY <1>1
<1>13. s.depth = 1 => s.depth > 0
  BY <1>1
<1>. QED
  BY <1>5, <1>6, <1>7, <1>8, <1>9, <1>10, <1>11, <1>12, <1>13

LEMMA LocatedAlways ==
    ASSUME NEW h, NEW t, Scanned(h, t)
    PROVE  Located(h, t, Len(t))
PROOF
<1>. DEFINE D == {n \in Nat : n <= Len(t) => Located(h, t, n)}
<1>0. Len(t) \in Nat
  BY ScannedAt
<1>1. 0 \in D
  <2>1. h[0] = Fresh /\ Fresh.in_str = FALSE /\ Fresh.depth = 0 /\ Fresh.esc = FALSE
    BY DEF Scanned, Fresh
  <2>2. Located(h, t, 0)
    BY <2>1 DEF Located
  <2>. QED
    BY <2>2
<1>2. ASSUME NEW n \in Nat, n \in D PROVE n + 1 \in D
  <2>. SUFFICES ASSUME n + 1 <= Len(t) PROVE Located(h, t, n + 1)
    OBVIOUS
  <2>1. n <= Len(t)
    BY <1>0
  <2>. QED
    BY <1>2, <2>1, LocatedMore
<1>. HIDE DEF D
<1>3. \A n \in Nat : n \in D
  BY <1>1, <1>2, NatSet
<1>4. Len(t) \in D /\ Len(t) <= Len(t)
  BY <1>0, <1>3
<1>. QED
  BY <1>4 DEF D

\* In the same string or between strings.
Alike(k, s) ==
    /\ k.in_str = s.in_str
    /\ k.esc = s.esc
    /\ k.in_str => k.quote = s.quote

\* A closing bracket that is not due.
Stray(k, c) == ~k.in_str /\ c \in Closers /\ ~(k.stack # <<>> /\ Head(k.stack) = c)

\* The repair has more brackets open than the scan by those that were not due.
LEMMA Follows ==
    ASSUME NEW k \in Stacks, NEW s \in Scanners, NEW c \in Chars, Alike(k, s),
           s.depth > 0 \/ (~s.in_str /\ c \in Openers), Feed(s, c).depth > 0
    PROVE  /\ Alike(Stack(k, c), Feed(s, c))
           /\ Height(Stack(k, c)) - Feed(s, c).depth =
                 Height(k) - s.depth + (IF Stray(k, c) THEN 1 ELSE 0)
PROOF
<1>. DEFINE r == Feed(s, c)
            l == Stack(k, c)
            More == Height(l) - r.depth = Height(k) - s.depth + (IF Stray(k, c) THEN 1 ELSE 0)
<1>0. /\ Height(k) \in Nat /\ s.depth \in Nat /\ k.in_str = s.in_str /\ k.esc = s.esc
      /\ r.depth > 0 /\ k.stack \in Seq(Closers)
  BY StackFields, ScannerFields DEF Height, Alike
<1>. SUFFICES Alike(l, r) /\ More
  OBVIOUS
<1>. HIDE DEF r, l
<1>1. CASE s.in_str
  <2>1. k.quote = s.quote /\ k.in_str
    BY <1>0, <1>1 DEF Alike
  <2>2. /\ r.depth = s.depth /\ r.in_str = (s.esc \/ c # s.quote) /\ r.quote = s.quote
        /\ r.esc = (~s.esc /\ c = "\\")
    BY <1>1, FedInString DEF r
  <2>3. /\ l.stack = k.stack /\ l.in_str = (k.esc \/ c # k.quote) /\ l.quote = k.quote
        /\ l.esc = (~k.esc /\ c = "\\")
    BY <2>1, StackInString DEF l
  <2>4. Alike(l, r)
    BY <1>0, <2>1, <2>2, <2>3, Zenon DEF Alike
  <2>5. ~Stray(k, c) /\ Height(l) = Height(k)
    BY <2>1, <2>3 DEF Stray, Height
  <2>. QED
    BY <1>0, <2>2, <2>4, <2>5
<1>2. CASE ~s.in_str /\ c \in Quotes
  <2>1. s.depth > 0 /\ ~k.in_str /\ c \notin Closers
    BY <1>0, <1>2, CharKinds
  <2>2. r.depth = s.depth /\ r.in_str = TRUE /\ r.quote = c /\ r.esc = s.esc
    BY <1>2, <2>1, FedQuote DEF r
  <2>3. l.stack = k.stack /\ l.in_str = TRUE /\ l.quote = c /\ l.esc = k.esc
    <3>1. l \in Stacks /\ l.stack = k.stack /\ l.in_str /\ l.quote = c /\ l.esc = k.esc
      BY <1>2, <2>1, StackQuote DEF l
    <3>. QED
      BY <3>1, StackFields
  <2>4. Alike(l, r)
    BY <1>0, <2>2, <2>3, Zenon DEF Alike
  <2>5. ~Stray(k, c) /\ Height(l) = Height(k)
    BY <2>1, <2>3 DEF Stray, Height
  <2>. QED
    BY <1>0, <2>2, <2>4, <2>5
<1>3. CASE ~s.in_str /\ c \in Openers
  <2>1. ~k.in_str /\ c \notin Closers
    BY <1>0, <1>3, CharKinds
  <2>2. r.depth = s.depth + 1 /\ r.in_str = s.in_str /\ r.esc = s.esc
    BY <1>3, FedOpener DEF r
  <2>3. /\ l \in Stacks /\ Len(l.stack) = Len(k.stack) + 1 /\ ~l.in_str /\ l.esc = k.esc
    BY <1>3, <2>1, StackOpener DEF l
  <2>4. l.in_str = FALSE /\ r.in_str = FALSE
    BY <1>3, <2>2, <2>3, StackFields, ScannerFields
  <2>5. Alike(l, r)
    BY <1>0, <2>2, <2>3, <2>4, Zenon DEF Alike
  <2>6. ~Stray(k, c) /\ Height(l) = Height(k) + 1
    BY <2>1, <2>3 DEF Stray, Height
  <2>. QED
    BY <1>0, <2>2, <2>5, <2>6
<1>4. CASE ~s.in_str /\ c \in Closers
  <2>1. ~k.in_str /\ c \notin Openers /\ c \notin Quotes /\ s.depth > 0
    BY <1>0, <1>4, CharKinds
  <2>2. s.depth > 1
    <3>1. s.depth = 1 => r.depth = 0
      BY <1>4, FedLast DEF r
    <3>. QED
      BY <1>0, <2>1, <3>1
  <2>3. r.depth = s.depth - 1 /\ r.in_str = s.in_str /\ r.esc = s.esc
    BY <1>4, <2>2, FedCloser DEF r
  <2>4. CASE k.stack # <<>> /\ Head(k.stack) = c
    <3>1. l \in Stacks /\ l.stack = Tail(k.stack) /\ ~l.in_str /\ l.esc = k.esc
      BY <1>4, <2>1, <2>4, StackCloser DEF l
    <3>2. l.in_str = FALSE /\ r.in_str = FALSE
      BY <1>4, <2>3, <3>1, StackFields, ScannerFields
    <3>3. Alike(l, r)
      BY <1>0, <2>3, <3>1, <3>2, Zenon DEF Alike
    <3>4. Len(Tail(k.stack)) = Len(k.stack) - 1
      BY <1>0, <2>4
    <3>5. ~Stray(k, c) /\ Height(l) = Height(k) - 1
      BY <2>4, <3>1, <3>4 DEF Stray, Height
    <3>6. Height(l) - r.depth = Height(k) - s.depth + 0
      <4>. DEFINE x == Height(k)
                  y == s.depth
      <4>1. x \in Nat /\ y \in Nat /\ Height(l) = x - 1 /\ r.depth = y - 1
        BY <1>0, <2>3, <3>5
      <4>. HIDE DEF x, y
      <4>2. Height(l) - r.depth = x - y + 0
        BY <4>1
      <4>. QED
        BY <4>2 DEF x, y
    <3>7. (IF Stray(k, c) THEN 1 ELSE 0) = 0
      BY <3>5
    <3>. QED
      BY <3>3, <3>6, <3>7
  <2>5. CASE ~(k.stack # <<>> /\ Head(k.stack) = c)
    <3>1. l = k
      BY <2>1, <2>5, StackOther DEF l
    <3>2. Alike(l, r)
      BY <1>0, <1>4, <2>1, <2>3, <3>1, Zenon DEF Alike
    <3>3. Stray(k, c) /\ Height(l) = Height(k)
      BY <1>4, <2>1, <2>5, <3>1 DEF Stray
    <3>. QED
      BY <1>0, <2>3, <3>2, <3>3
  <2>. QED
    BY <2>4, <2>5
<1>5. CASE ~s.in_str /\ c \notin Openers /\ c \notin Quotes /\ c \notin Closers
  <2>1. ~k.in_str
    BY <1>0, <1>5
  <2>2. r.depth = s.depth /\ r.in_str = s.in_str /\ r.esc = s.esc
    BY <1>5, FedOther DEF r
  <2>3. l = k
    BY <1>5, <2>1, StackOther DEF l
  <2>4. Alike(l, r)
    BY <1>0, <2>1, <2>2, <2>3, Zenon DEF Alike
  <2>5. ~Stray(k, c)
    BY <1>5 DEF Stray
  <2>. QED
    BY <1>0, <2>2, <2>3, <2>4, <2>5
<1>. QED
  BY <1>1, <1>2, <1>3, <1>4, <1>5

\* What never falls and ends where it began was always there.
LEMMA NeverRises ==
    ASSUME NEW n \in Nat, NEW f, \A j \in 0..n : f[j] \in Int,
           \A j \in 1..n : f[j] >= f[j - 1], f[n] = f[0], NEW j \in 0..n
    PROVE  f[j] = f[0]
PROOF
<1>. DEFINE D == {i \in Nat : i <= n => f[i] >= f[0]}
            E == {i \in Nat : i <= n => f[n - i] <= f[n]}
<1>1. \A i \in Nat : i \in D
  <2>1. 0 \in D
    BY 0 \in 0..n
  <2>2. ASSUME NEW i \in Nat, i \in D PROVE i + 1 \in D
    <3>. SUFFICES ASSUME i + 1 <= n PROVE f[i + 1] >= f[0]
      OBVIOUS
    <3>1. i + 1 \in 1..n /\ (i + 1) - 1 = i /\ i <= n /\ i \in 0..n /\ i + 1 \in 0..n /\ 0 \in 0..n
      OBVIOUS
    <3>2. f[i + 1] >= f[i] /\ f[i] >= f[0]
      BY <2>2, <3>1
    <3>3. f[i + 1] \in Int /\ f[i] \in Int /\ f[0] \in Int
      BY <3>1
    <3>. QED
      BY <3>2, <3>3
  <2>. HIDE DEF D
  <2>. QED
    BY <2>1, <2>2, NatSet
<1>2. \A i \in Nat : i \in E
  <2>1. 0 \in E
    <3>1. n - 0 = n /\ n \in 0..n
      OBVIOUS
    <3>. QED
      BY <3>1
  <2>2. ASSUME NEW i \in Nat, i \in E PROVE i + 1 \in E
    <3>. SUFFICES ASSUME i + 1 <= n PROVE f[n - (i + 1)] <= f[n]
      OBVIOUS
    <3>1. n - i \in 1..n /\ (n - i) - 1 = n - (i + 1) /\ i <= n /\ n - i \in 0..n
          /\ n - (i + 1) \in 0..n /\ n \in 0..n
      OBVIOUS
    <3>2. f[n - i] >= f[n - (i + 1)] /\ f[n - i] <= f[n]
      BY <2>2, <3>1
    <3>3. f[n - i] \in Int /\ f[n - (i + 1)] \in Int /\ f[n] \in Int
      BY <3>1
    <3>. QED
      BY <3>2, <3>3
  <2>. HIDE DEF E
  <2>. QED
    BY <2>1, <2>2, NatSet
<1>3. j \in Nat /\ j <= n /\ n - j \in Nat /\ n - j <= n /\ n - (n - j) = j /\ 0 \in 0..n
  OBVIOUS
<1>4. f[j] >= f[0]
  BY <1>1, <1>3
<1>5. f[j] <= f[n]
  <2>1. n - j \in E
    BY <1>2, <1>3
  <2>. QED
    BY <1>3, <2>1
<1>. HIDE DEF D, E
<1>. QED
  BY <1>3, <1>4, <1>5

\* The text from the bracket that is open, when no other than those due was closed.
LEMMA RawTidy ==
    ASSUME NEW h, NEW t, Scanned(h, t), NEW a \in Nat, a < Len(t),
           h[a].depth = 0, ~h[a].in_str, ~h[a].esc, t[a + 1] \in Openers,
           \A i \in (a + 1)..Len(t) : h[i].depth > 0,
           NEW raw \in Seq(Chars), NEW n \in Nat, Len(raw) = n, a + n = Len(t),
           \A j \in 1..n : raw[j] = t[a + j],
           NEW g, Ran(g, raw), Height(g[n]) = h[a + n].depth
    PROVE  Tidy(g, raw) /\ Standing(g, raw) /\ Alike(g[n], h[a + n])
PROOF
<1>. DEFINE Slack(j) == Height(g[j]) - h[a + j].depth
            f == [j \in 0..n |-> Slack(j)]
            D == {j \in Nat : j <= n => Alike(g[j], h[a + j])}
<1>0. n >= 1 /\ n \in 0..n /\ 0 \in 0..n
  BY ScannedAt
<1>1. ASSUME NEW j \in 0..n
      PROVE  /\ g[j] \in Stacks /\ h[a + j] \in Scanners
             /\ Height(g[j]) \in Nat /\ h[a + j].depth \in Nat
             /\ j = 0 => h[a + j].depth = 0 /\ ~h[a + j].in_str
             /\ j # 0 => h[a + j].depth > 0
  <2>1. a + j \in 0..Len(t) /\ (j = 0 => a + j = a) /\ (j # 0 => a + j \in (a + 1)..Len(t))
    BY ScannedAt
  <2>. QED
    BY <2>1, RanAt, ScannedAt, StackFields, ScannerFields DEF Height
<1>2. ASSUME NEW j \in 1..n, Alike(g[j - 1], h[a + (j - 1)])
      PROVE  /\ Alike(g[j], h[a + j])
             /\ Slack(j) = Slack(j - 1) + (IF Stray(g[j - 1], raw[j]) THEN 1 ELSE 0)
  <2>1. /\ j \in 0..n /\ j - 1 \in 0..n /\ a + j \in 1..Len(t) /\ (a + j) - 1 = a + (j - 1)
        /\ j # 0
    BY ScannedAt
  <2>. DEFINE k == g[j - 1]
              s == h[a + (j - 1)]
              c == raw[j]
  <2>2. /\ k \in Stacks /\ s \in Scanners /\ c \in Chars /\ c = t[a + j]
        /\ g[j] = Stack(k, c) /\ h[a + j] = Feed(s, c)
    <3>1. k \in Stacks /\ s \in Scanners /\ c = t[a + j]
      BY <1>1, <2>1
    <3>2. c \in Chars /\ g[j] = Stack(k, c)
      BY RanAt
    <3>3. h[a + j] = Feed(s, t[a + j])
      <4>1. h[a + j] = Feed(h[(a + j) - 1], t[a + j])
        BY <2>1, ScannedAt
      <4>. QED
        BY <2>1, <4>1
    <3>. QED
      BY <3>1, <3>2, <3>3
  <2>3. Feed(s, c).depth > 0
    BY <1>1, <2>1, <2>2
  <2>4. s.depth > 0 \/ (~s.in_str /\ c \in Openers)
    <3>1. CASE j - 1 = 0
      <4>1. a + j = a + 1 /\ j - 1 \in 0..n
        BY <2>1, <3>1
      <4>. QED
        BY <1>1, <2>2, <3>1, <4>1
    <3>2. CASE j - 1 # 0
      BY <1>1, <2>1, <3>2
    <3>. QED
      BY <3>1, <3>2
  <2>5. Alike(k, s)
    BY <1>2
  <2>. HIDE DEF k, s, c
  <2>6. /\ Alike(Stack(k, c), Feed(s, c))
        /\ Height(Stack(k, c)) - Feed(s, c).depth =
              Height(k) - s.depth + (IF Stray(k, c) THEN 1 ELSE 0)
    BY <2>2, <2>3, <2>4, <2>5, Follows
  <2>. QED
    BY <2>2, <2>6 DEF k, s, c
<1>3. ASSUME NEW j \in 0..n PROVE Alike(g[j], h[a + j])
  <2>1. 0 \in D
    <3>1. g[0] = Nothing /\ Nothing.in_str = FALSE /\ Nothing.esc = FALSE
      BY DEF Ran, Nothing
    <3>2. h[a + 0].in_str = FALSE /\ h[a + 0].esc = FALSE
      <4>1. a + 0 = a
        OBVIOUS
      <4>2. h[a] \in Scanners
        BY <1>0, <1>1, <4>1
      <4>. QED
        BY <4>1, <4>2, ScannerFields
    <3>3. Alike(g[0], h[a + 0])
      BY <3>1, <3>2, Zenon DEF Alike
    <3>. QED
      BY <3>3
  <2>2. ASSUME NEW i \in Nat, i \in D PROVE i + 1 \in D
    <3>. SUFFICES ASSUME i + 1 <= n PROVE Alike(g[i + 1], h[a + (i + 1)])
      OBVIOUS
    <3>1. i + 1 \in 1..n /\ (i + 1) - 1 = i /\ i <= n
      OBVIOUS
    <3>. QED
      BY <1>2, <2>2, <3>1
  <2>. HIDE DEF D
  <2>3. \A i \in Nat : i \in D
    BY <2>1, <2>2, NatSet
  <2>4. j \in Nat /\ j <= n
    OBVIOUS
  <2>. QED
    BY <2>3, <2>4 DEF D
<1>4. ASSUME NEW j \in 1..n
      PROVE  /\ j \in 0..n /\ j - 1 \in 0..n
             /\ Slack(j) = Slack(j - 1) + (IF Stray(g[j - 1], raw[j]) THEN 1 ELSE 0)
  <2>1. j \in 0..n /\ j - 1 \in 0..n
    OBVIOUS
  <2>. QED
    BY <1>2, <1>3, <2>1
<1>5. ASSUME NEW j \in 0..n PROVE Slack(j) = 0
  <2>1. ASSUME NEW i \in 0..n PROVE f[i] = Slack(i) /\ Slack(i) \in Int
    <3>1. Height(g[i]) \in Nat /\ h[a + i].depth \in Nat
      BY <1>1, Zenon
    <3>. QED
      BY <3>1
  <2>2. f[n] = 0 /\ f[0] = 0
    <3>1. Height(g[0]) = 0 /\ h[a + 0].depth = 0
      <4>1. g[0] = Nothing /\ Nothing.stack = <<>>
        BY DEF Ran, Nothing
      <4>2. Len(g[0].stack) = 0
        BY <4>1
      <4>. QED
        BY <1>0, <1>1, <4>2 DEF Height
    <3>. QED
      BY <1>0, <1>1, <2>1, <3>1
  <2>. HIDE DEF f
  <2>3. ASSUME NEW i \in 1..n PROVE f[i] >= f[i - 1]
    <3>. HIDE DEF Slack
    <3>1. /\ i \in 0..n /\ i - 1 \in 0..n
          /\ Slack(i) = Slack(i - 1) + (IF Stray(g[i - 1], raw[i]) THEN 1 ELSE 0)
      BY <1>4
    <3>2. f[i] = Slack(i) /\ f[i - 1] = Slack(i - 1) /\ Slack(i - 1) \in Int
      BY <2>1, <3>1
    <3>. QED
      BY <3>1, <3>2
  <2>4. \A i \in 0..n : f[i] \in Int
    BY <2>1
  <2>5. f[j] = f[0]
    BY <2>2, <2>3, <2>4, NeverRises
  <2>. QED
    BY <2>1, <2>2, <2>5
<1>6. ASSUME NEW j \in 1..n PROVE ~Stray(g[j - 1], raw[j])
  <2>1. Slack(j) = 0 /\ Slack(j - 1) = 0
    BY <1>4, <1>5
  <2>2. Slack(j) = Slack(j - 1) + (IF Stray(g[j - 1], raw[j]) THEN 1 ELSE 0)
    BY <1>4
  <2>. HIDE DEF Slack
  <2>. QED
    BY <2>1, <2>2
<1>7. Tidy(g, raw)
  BY <1>6 DEF Tidy, Stray
<1>8. Standing(g, raw)
  <2>1. ASSUME NEW j \in 1..n PROVE g[j].stack # <<>>
    <3>1. j \in 0..n /\ j # 0
      OBVIOUS
    <3>2. Height(g[j]) - h[a + j].depth = 0 /\ h[a + j].depth > 0 /\ Height(g[j]) \in Nat
          /\ h[a + j].depth \in Nat
      BY <1>1, <1>5, <3>1
    <3>3. Height(g[j]) # 0
      BY <3>2
    <3>. QED
      BY <3>3 DEF Height
  <2>2. raw[1] = t[a + 1]
    <3>1. 1 \in 1..n
      BY <1>0
    <3>. QED
      BY <3>1
  <2>. QED
    BY <1>0, <2>1, <2>2 DEF Standing
<1>. QED
  BY <1>0, <1>3, <1>7, <1>8

\* An unclosed string is closed first.
LEMMA StringClosed ==
    ASSUME NEW g, NEW t, Tidy(g, t), Standing(g, t), g[Len(t)].in_str, ~g[Len(t)].esc
    PROVE  Ready(Append(t, g[Len(t)].quote), g[Len(t)].stack)
PROOF
<1>. DEFINE k == g[Len(t)]
            c == k.quote
<1>1. Len(t) \in 1..Len(t) /\ k \in Stacks
  <2>1. Len(t) \in Nat /\ 1 \in 1..Len(t) /\ \A i \in 1..Len(t) : g[i] \in Stacks
    BY FirstBracket
  <2>2. Len(t) \in 1..Len(t)
    BY <2>1
  <2>. QED
    BY <2>1, <2>2
<1>2. c \in Chars
  BY <1>1, StackFields, CharKinds
<1>3. k.in_str /\ ~k.esc /\ k.stack # <<>>
  BY <1>1 DEF Standing
<1>. HIDE DEF k
<1>4. Stack(k, c).in_str = (k.esc \/ c # k.quote) /\ Stack(k, c).stack = k.stack
  BY <1>1, <1>2, <1>3, StackInString
<1>5. ~Stack(k, c).in_str
  BY <1>3, <1>4, Zenon
<1>6. Ready(Append(t, c), Stack(k, c).stack)
  BY <1>2, <1>3, <1>4, <1>5, EndsMore DEF k
<1>. QED
  BY <1>4, <1>6 DEF k

\* Whatever text was read.
LEMMA ReadCloses == ReadSoFar => CloseBalances
PROOF
<1>. DEFINE raw == SubSeq(text, scan.start + 1, Len(text))
            fold == FoldLeft(Stack, Nothing, raw)
<1>. SUFFICES ASSUME ReadSoFar, Unclosed(scan), ~scan.esc, Len(fold.stack) = scan.depth
              PROVE  Whole(Close(raw))
  BY Zenon DEF CloseBalances
<1>1. PICK h : Scanned(h, text) /\ h[Len(text)] = scan
  BY DEF ReadSoFar
<1>. DEFINE a == scan.start
            n == Len(text) - a
<1>2. /\ a \in Nat /\ a < Len(text) /\ h[a].depth = 0 /\ ~h[a].in_str /\ ~h[a].esc
      /\ text[a + 1] \in Openers /\ \A i \in (a + 1)..Len(text) : h[i].depth > 0
  <2>1. Located(h, text, Len(text))
    BY <1>1, LocatedAlways
  <2>. QED
    BY <1>1, <2>1 DEF Located, Opened, Unclosed
<1>3. /\ text \in Seq(Chars) /\ Len(text) \in Nat /\ n \in Nat /\ a + n = Len(text)
      /\ a \in 0..Len(text) /\ a + n <= Len(text)
  <2>1. text \in Seq(Chars) /\ Len(text) \in Nat
    BY <1>1, ScannedAt DEF Scanned
  <2>. HIDE DEF a
  <2>. QED
    BY <1>2, <2>1
<1>4. /\ raw \in Seq(Chars) /\ Len(raw) = n /\ \A j \in 1..n : raw[j] = text[a + j]
  <2>1. /\ SubSeq(text, a + 1, a + n) \in Seq(Chars) /\ Len(SubSeq(text, a + 1, a + n)) = n
        /\ \A j \in 1..n : SubSeq(text, a + 1, a + n)[j] = text[a + j]
    BY <1>3, PieceAt
  <2>2. raw = SubSeq(text, a + 1, a + n)
    BY <1>3
  <2>. HIDE DEF raw, a, n
  <2>. QED
    BY <2>1, <2>2
<1>. HIDE DEF raw
<1>5. PICK g : Ran(g, raw) /\ fold = g[Len(raw)]
  BY <1>4, FoldRuns
<1>. HIDE DEF fold, n, a
<1>6. Height(g[n]) = h[a + n].depth /\ h[a + n] = scan /\ fold = g[n]
  BY <1>1, <1>3, <1>4, <1>5 DEF Height
<1>7. Tidy(g, raw) /\ Standing(g, raw) /\ Alike(g[n], scan)
  BY <1>1, <1>2, <1>3, <1>4, <1>5, <1>6, RawTidy
<1>8. ~fold.esc
  BY <1>6, <1>7 DEF Alike
<1>9. Ready(IF fold.in_str THEN Append(raw, fold.quote) ELSE raw, fold.stack)
  <2>1. CASE fold.in_str
    BY <1>4, <1>6, <1>7, <1>8, <2>1, StringClosed
  <2>2. CASE ~fold.in_str
    <3>1. Due(g, raw, fold.stack)
      BY <1>4, <1>6, <1>7, <2>2 DEF Due
    <3>. QED
      BY <2>2, <3>1 DEF Ready
  <2>. QED
    BY <2>1, <2>2
<1>10. Whole(Strip(IF fold.in_str THEN Append(raw, fold.quote) ELSE raw) \o fold.stack)
  BY <1>9, StripCloses
<1>. QED
  BY <1>10, Zenon DEF Close, fold

\* The repair gives back a whole object, in which every bracket and every string
\* is closed, for a text of any length that was cut anywhere but after a
\* backslash, as long as no bracket was closed out of turn (parsing.py:282-313).
THEOREM AlwaysBalances == Spec => []CloseBalances
PROOF
<1>1. Init => ReadSoFar
  BY ReadNothing DEF Init, ReadSoFar
<1>. QED
  BY <1>1, ReadSoFarNext, ReadCloses, PTL DEF Spec
=============================================================================
