------------------------------ MODULE Scanner ------------------------------
(***************************************************************************)
(* The two scanners of parsing.py, which find tool calls in what a model   *)
(* wrote: balanced_spans and the repair _close_unbalanced.  A text is a    *)
(* sequence of the characters that either of them tells apart; what the    *)
(* text says is left out.  Offsets count from 0, as in the code.           *)
(***************************************************************************)
EXTENDS Integers, Sequences, SequencesExt

Openers == {"{", "["}
Closers == {"}", "]"}
Quotes == {"\"", "'"}
Partner == [o \in Openers |-> IF o = "{" THEN "}" ELSE "]"]

\* The comma and the colon, which only the repair looks at, also stand for every
\* character without a meaning of its own.
Chars == Openers \union Closers \union Quotes \union {"\\", ",", ":"}

-----------------------------------------------------------------------------
(***************************************************************************)
(* balanced_spans.                                                         *)
(***************************************************************************)

\* The locals of the loop, `at` being the index it has reached.
Fresh == [at |-> 0, depth |-> 0, start |-> -1, in_str |-> FALSE, quote |-> "\"",
          esc |-> FALSE, spans |-> <<>>]

\* A character inside a string: an escape, the closing quote, or anything else.
InString(s, c) ==
    [s EXCEPT !.esc = ~s.esc /\ c = "\\",
              !.in_str = s.esc \/ c # s.quote]

OpenString(s, c) == [s EXCEPT !.in_str = TRUE, !.quote = c]

OpenBracket(s) ==
    [s EXCEPT !.depth = @ + 1,
              !.start = IF s.depth = 0 THEN s.at ELSE @]

\* Mutant: the closing bracket is left out of the span.
CloseBracketShort(s) ==
    IF s.depth > 1 THEN [s EXCEPT !.depth = @ - 1]
    ELSE [s EXCEPT !.depth = 0, !.start = -1,
                   !.spans = Append(@, <<s.start, s.at>>)]

CloseBracket(s) ==
    IF s.depth > 1 THEN [s EXCEPT !.depth = @ - 1]
    ELSE [s EXCEPT !.depth = 0, !.start = -1,
                   !.spans = Append(@, <<s.start, s.at + 1>>)]

\* Mutant: an apostrophe in prose opens a string.
CharInProse(s, c) ==
    CASE s.in_str -> InString(s, c)
      [] ~s.in_str /\ c \in Quotes -> OpenString(s, c)
      [] ~s.in_str /\ c \in Openers -> OpenBracket(s)
      [] ~s.in_str /\ c \in Closers /\ s.depth > 0 -> CloseBracket(s)
      [] OTHER -> s

\* What the loop does with a character.  Quotes mean nothing at depth 0.
Char(s, c) ==
    CASE s.in_str -> InString(s, c)
      [] ~s.in_str /\ s.depth > 0 /\ c \in Quotes -> OpenString(s, c)
      [] ~s.in_str /\ c \in Openers -> OpenBracket(s)
      [] ~s.in_str /\ c \in Closers /\ s.depth > 0 -> CloseBracket(s)
      [] OTHER -> s

Feed(s, c) == [Char(s, c) EXCEPT !.at = @ + 1]

\* Something was opened and not closed: it is taken up to the end.
Unclosed(s) == s.depth > 0

Spans(s) == IF Unclosed(s) THEN Append(s.spans, <<s.start, s.at>>) ELSE s.spans

-----------------------------------------------------------------------------
(***************************************************************************)
(* _close_unbalanced.                                                      *)
(***************************************************************************)

Nothing == [stack |-> <<>>, in_str |-> FALSE, quote |-> "\"", esc |-> FALSE]

\* Here quotes open strings everywhere, and only the right bracket closes.
Stack(k, c) ==
    CASE k.in_str -> InString(k, c)
      [] ~k.in_str /\ c \in Quotes -> OpenString(k, c)
      [] ~k.in_str /\ c \in Openers -> [k EXCEPT !.stack = <<Partner[c]>> \o @]
      [] ~k.in_str /\ c \in Closers /\ k.stack # <<>> /\ Head(k.stack) = c ->
            [k EXCEPT !.stack = Tail(@)]
      [] OTHER -> k

\* t without the shortest end of it that is dangling.
Drop(t, Dangling(_)) ==
    LET cuts == {i \in 1..Len(t) : Dangling(SubSeq(t, i, Len(t)))}
    IN  IF cuts = {} THEN t ELSE SubSeq(t, 1, (CHOOSE i \in cuts : TRUE) - 1)

\* A key whose value never came, from the comma before it.
IsKey(e) ==
    /\ Len(e) >= 4
    /\ <<e[1], e[2], e[Len(e) - 1], e[Len(e)]>> = <<",", "\"", "\"", ":">>
    /\ \A i \in 3..(Len(e) - 2) : e[i] # "\""

IsComma(e) == e = <<",">>

\* The two substitutions: the key first, then a comma.
Strip(t) == Drop(Drop(t, IsKey), IsComma)

\* Mutant: the string the text was cut in is not closed.
CloseInString(t) ==
    LET k == FoldLeft(Stack, Nothing, t) IN Strip(t) \o k.stack

\* _close_unbalanced: close the string, drop what dangles, close the brackets.
Close(t) ==
    LET k == FoldLeft(Stack, Nothing, t)
        whole == IF k.in_str THEN Append(t, k.quote) ELSE t
    IN  Strip(whole) \o k.stack

-----------------------------------------------------------------------------
(***************************************************************************)
(* What the scanners are for, without a scanner: a quoted string, and what *)
(* can stand between two brackets, by length.                              *)
(***************************************************************************)

Quoted(t) ==
    /\ Len(t) >= 2
    /\ t[1] \in Quotes
    /\ t[Len(t)] = t[1]
    /\ LET escapes[i \in 1..Len(t)] == i > 2 /\ t[i - 1] = "\\" /\ ~escapes[i - 1]
       IN  \A i \in 2..Len(t) : t[i] = t[1] => (i = Len(t)) # escapes[i]

Balanced[t \in Seq(Chars)] ==
    \/ t = <<>>
    \/ t[1] \notin Openers \union Closers \union Quotes /\ Balanced[Tail(t)]
    \/ \E i \in 2..Len(t) :
        /\ \/ Quoted(SubSeq(t, 1, i))
           \/ /\ t[1] \in Openers
              /\ t[i] = Partner[t[1]]
              /\ Balanced[SubSeq(t, 2, i - 1)]
        /\ Balanced[SubSeq(t, i + 1, Len(t))]

\* An object or an array whose brackets and strings are all closed.
Whole(t) ==
    /\ Len(t) >= 2
    /\ t[1] \in Openers
    /\ t[Len(t)] = Partner[t[1]]
    /\ Balanced[SubSeq(t, 2, Len(t) - 1)]
=============================================================================
