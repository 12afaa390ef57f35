------------------------------ MODULE Parsing ------------------------------
(***************************************************************************)
(* What parsing.py makes of the spans a completion holds: the repair       *)
(* ladder, the shapes of calls it understands, and which of them it keeps. *)
(* A JSON value is what normalize_call tells apart; Scanner finds spans.   *)
(***************************************************************************)
EXTENDS Integers, Sequences, SequencesExt

CONSTANTS
    Registered,    \* registry.names
    NoName         \* an object without a name

\* One object: who it names, under the keys it was asked for or others, in a
\* {"function": ...} wrapper or not, the form of its arguments, whether keys
\* are left over, whether "title" or "$schema" is among the arguments, and what
\* the arguments say.
\*   "encoded", "broken"  a string holding an object, as it is or to be repaired
\*   "raising"            a string on which loads_forgiving raises
\*   "string"             any other string
\*   "empty_list"         no object, but dict() makes one of it
\*   "list"               no object, and dict() raises
Forms == {"absent", "null", "object", "encoded", "broken", "raising", "string",
          "empty_list", "list"}

\* The rungs of loads_forgiving that end it.  A closed span is never repaired by
\* closing it, and an unclosed one is never parsed as it stands.  literal_eval
\* may raise a TypeError, say for an object among the keys of another, which
\* loads_forgiving does not catch.
Rungs(closed) ==
    (IF closed THEN {"json", "trailing_comma", "python_literal"}
     ELSE {"unclosed_braces", "python_literal_closed"}) \union {"raises"}

-----------------------------------------------------------------------------
(***************************************************************************)
(* normalize_call.                                                         *)
(***************************************************************************)

\* Arguments that are not there may be what else the object holds.
Shape(o) ==
    CASE o.form \in {"absent", "null"} /\ o.extra -> "flattened"
      [] o.form \in {"absent", "null"} /\ ~o.extra -> "empty"
      [] o.form \in {"object", "encoded", "broken"} -> "object"
      [] o.form = "string" -> "positional"
      [] OTHER -> "dropped"

\* The repairs it records.  That "title" and "$schema" are removed from the
\* arguments is none of them.
NormalizeRepairs(o) ==
    {tag \in {"nested_function_key", "other_key", "flattened_args",
              "args_double_encoded", "inner", "args_bare_string",
              "args_not_object"} :
        \/ tag = "nested_function_key" /\ o.nested
        \/ tag = "other_key" /\ ~o.usual
        \/ tag = "flattened_args" /\ Shape(o) = "flattened"
        \/ tag = "args_double_encoded" /\ o.form \in {"encoded", "broken"}
        \/ tag = "inner" /\ o.form = "broken"
        \/ tag = "args_bare_string" /\ Shape(o) = "positional"
        \/ tag = "args_not_object" /\ Shape(o) = "dropped"}

\* _looks_deliberate: an args key or the wrapper, and nothing inferred.
LooksDeliberate(o) ==
    Shape(o) # "flattened" /\ (o.form # "absent" \/ o.nested)

\* An object that becomes a call.
Kept(o) ==
    /\ o.name # NoName
    /\ o.name \in Registered \/ LooksDeliberate(o)

\* ToolCall.  Arguments that are no object are replaced by an empty one.  Of raw,
\* what the model wrote, only which parts of it the call does not hold as they
\* were written.
ToolCall(o, repairs, altered) ==
    [name |-> o.name, args |-> o.args, repairs |-> repairs, altered |-> altered,
     shape |-> IF Shape(o) = "dropped" THEN "empty" ELSE Shape(o)]

\* Where the call that is made of o differs from what the model was asked to
\* write: the text around it, the keys, the arguments, or what is among them.
Altered(o, span, fenced) ==
    {part \in {"span", "keys", "args", "schema_keys"} :
        \/ part = "span" /\ (span.rung # "json" \/ fenced)
        \/ part = "keys" /\ (~o.usual \/ o.nested)
        \/ part = "args" /\ o.form # "object" /\ (o.form \in {"absent", "null"} => o.extra)
        \/ part = "schema_keys" /\ o.junk /\ Shape(o) \in {"object", "flattened"}}

\* What is changed without a repair that says so: the removal of "title" and
\* "$schema", and the arguments of native calls, whose repairs are discarded.
Unrecorded == {"schema_keys", "native_args"}

-----------------------------------------------------------------------------
(***************************************************************************)
(* parse_tool_calls and parse_native_tool_calls.                           *)
(***************************************************************************)

\* A span: the rung that loads it ("none" if no rung does), whether it mentions
\* a word of a call, and the objects in it (one, or those of an array).
Calls(span, fenced) ==
    LET outer == {r \in {span.rung} : r # "json"}
                    \union {tag \in {"fenced"} : fenced}
        call(o) == ToolCall(o, outer \union NormalizeRepairs(o), Altered(o, span, fenced))
    IN  IF span.rung = "none" THEN <<>>
        ELSE FlattenSeq([i \in DOMAIN span.objects |->
                            IF Kept(span.objects[i]) THEN <<call(span.objects[i])>>
                            ELSE <<>>])

IsProblem(span) == span.rung = "none" /\ span.wanted

\* Parsing the span raises, itself or in the arguments of a call in it.
Raises(span) ==
    \/ span.rung = "raises"
    \/ /\ span.rung # "none"
       /\ \E i \in DOMAIN span.objects :
            span.objects[i].name # NoName /\ span.objects[i].form = "raising"

\* Mutant: a call whose span was valid JSON counts as clean.
NeedsRepairOutside(calls) ==
    \E i \in DOMAIN calls : calls[i].repairs \intersect
        {"trailing_comma", "python_literal", "unclosed_braces",
         "python_literal_closed"} # {}

NeedsRepair(calls) == \E i \in DOMAIN calls : calls[i].repairs # {}

\* STATS, of one process.
NoStats == [completions |-> 0, with_calls |-> 0, needing_repair |-> 0,
            calls_found |-> 0, unparseable |-> 0]

Counted(stats, calls, repaired, problems) ==
    [completions |-> stats.completions + 1,
     with_calls |-> stats.with_calls + (IF calls # <<>> THEN 1 ELSE 0),
     needing_repair |-> stats.needing_repair + (IF repaired THEN 1 ELSE 0),
     calls_found |-> stats.calls_found + Len(calls),
     unparseable |-> stats.unparseable + problems]

ParseResult(spans, fenced, stats) ==
    LET calls == FlattenSeq([i \in DOMAIN spans |-> Calls(spans[i], fenced)])
        problems == Cardinality({i \in DOMAIN spans : IsProblem(spans[i])})
    IN  [calls |-> calls, problems |-> problems,
         stats |-> Counted(stats, calls, NeedsRepair(calls), problems)]

\* What is raised ends parse_tool_calls: the calls found by then are lost, what
\* was counted by then is not.
RaisedResult(spans, stats) ==
    LET problems == Cardinality({i \in DOMAIN spans :
                        IsProblem(spans[i]) /\ \A j \in 1..i : ~Raises(spans[j])})
    IN  [calls |-> <<>>, problems |-> problems,
         stats |-> Counted(stats, <<>>, FALSE, problems)]

\* A native call does not go through normalize_call: a string is loaded, and the
\* repairs that took are discarded; anything else is passed on as it is.
NativeCall(o) ==
    [name |-> o.name, args |-> o.args, repairs |-> {},
     altered |-> {part \in {"native_args"} : o.form \in {"encoded", "broken", "string"}},
     shape |-> CASE o.form \in {"object", "encoded", "broken"} -> "object"
                 [] o.form = "string" -> "positional"
                 [] o.form \in {"absent", "empty_list"} -> "empty"
                 [] OTHER -> "raw"]

NativeResult(objects, stats) ==
    LET calls == [i \in DOMAIN objects |-> NativeCall(objects[i])]
    IN  IF \E i \in DOMAIN objects : objects[i].form = "raising"
        THEN RaisedResult(<<>>, stats)
        ELSE [calls |-> calls, problems |-> 0,
              stats |-> Counted(stats, calls, FALSE, 0)]
=============================================================================
