---------------------------- MODULE MCToolCalls ----------------------------
(***************************************************************************)
(* Instance of ToolCalls for TLC: a project with a credential file, a link *)
(* out of it and a link to the credential file, and calls that name them.  *)
(***************************************************************************)
EXTENDS ToolCalls

MCRoot == <<"r">>
MCLinks == (<<"r", "out">> :> <<"o">>) @@ (<<"r", "l">> :> <<"r", ".env">>)
MCSecretNames == {".env"}
MCDisk == [p \in {<<>>, <<"r">>, <<"r", "d">>, <<"o">>} |-> "dir"]
          @@ [p \in {<<"r", "f">>, <<"r", ".env">>, <<"r", "d", "g">>, <<"o", "f">>}
                |-> "file"]

MCMcpTools == {"mcp__s__read", "mcp__s__write"}
MCWriteShaped == {"mcp__s__write"}
MCRegistered == FileTools \union {"bash"} \union MCMcpTools

Rel(steps) == [abs |-> FALSE, odd |-> FALSE, steps |-> steps]
Abs(steps) == [abs |-> TRUE, odd |-> FALSE, steps |-> steps]
Odd == [abs |-> FALSE, odd |-> TRUE, steps |-> <<"d", "%2e%2e">>]
Away == Rel(<<"out", "..", "f">>)

\* Arguments of every tool: whether nothing required is missing, the words, and
\* for bash whether the command is longer than the service takes, and what
\* run_command makes of it.
Args(words) == [complete |-> TRUE, words |-> words, long |-> FALSE, syntax |-> "words",
                program |-> "cat", banned |-> FALSE, sub |-> "none"]
Word(form, raw) == <<[form |-> form, raw |-> raw]>>
Bare(raw) == Word("bare", raw)
Paths(tool) ==
    CASE tool = "read_file" -> {Rel(<<"f">>), Rel(<<"l">>), Rel(<<"out", "f">>), Odd}
      [] tool = "write_file" -> {Rel(<<".env">>), Rel(<<"n", "m">>), Away}
      [] tool = "list_dir" -> {Rel(<<"out">>)}
      [] tool = "grep" -> {Rel(<<"d">>), Rel(<<".env">>)}
      [] tool = "mcp__s__read" -> {Abs(<<"o", "f">>)}
      [] tool = "mcp__s__write" -> {Rel(<<"l">>), Rel(<<"f">>), Away}
      [] tool = "bash" -> {Rel(<<"l">>), Rel(<<"f">>), Away}

\* The call the model was asked for.
Object(tool, args) == [name |-> tool, usual |-> TRUE, nested |-> FALSE,
                       form |-> "object", extra |-> FALSE, junk |-> FALSE, args |-> args]

Plain == {Object(tool, Args(Bare(raw))) : tool \in MCRegistered, raw \in UNION {Paths(t) : t \in MCRegistered}}
Clean == {o \in Plain : Head(o.args.words).raw \in Paths(o.name)}

Status == Object("bash", [Args(<<>>) EXCEPT !.program = "git", !.sub = "status"])
Commands ==
    {Status,
     [Status EXCEPT !.args.sub = "push"],
     [Status EXCEPT !.args.program = "python"],
     [Status EXCEPT !.args.syntax = "shell"],
     [Status EXCEPT !.args.syntax = "empty"],
     [Status EXCEPT !.args.long = TRUE],
     [Status EXCEPT !.args.banned = TRUE]}
    \union {Object("bash", [Args(Word(form, Rel(<<"out", "f">>))) EXCEPT !.program = "sort"]) :
                form \in {"assigned", "joined"}}
    \union {Object("bash", [Args(Word(form, Rel(<<"d", "g">>))) EXCEPT !.program = "sort"]) :
                form \in {"bundled", "run-on"}}

Good == Object("read_file", Args(Bare(Rel(<<"f">>))))
Odds ==
    {[Good EXCEPT !.usual = FALSE, !.nested = TRUE],
     [Good EXCEPT !.form = "broken"],
     [Good EXCEPT !.form = "string"],
     [Good EXCEPT !.form = "raising"],
     [Good EXCEPT !.form = "absent", !.extra = TRUE],
     [Good EXCEPT !.junk = TRUE],
     [Good EXCEPT !.args.complete = FALSE],
     [Good EXCEPT !.name = "write_file", !.form = "string"],
     [Good EXCEPT !.name = "list_dir", !.form = "list"],
     [Good EXCEPT !.name = "reed_file"],
     [Good EXCEPT !.name = "my-app", !.form = "absent", !.extra = TRUE],
     [Good EXCEPT !.name = "none"]}

Span(rung, objects) == [rung |-> rung, objects |-> objects, wanted |-> TRUE]
MCSpanShapes ==
    {Span("json", <<o>>) : o \in Clean \union Commands \union Odds}
    \union {Span(rung, <<Good>>) : rung \in {"trailing_comma", "python_literal",
                                             "unclosed_braces"}}
    \union {Span("none", <<>>), Span("raises", <<>>), Span("json", <<Status, Good>>)}
MCLaterShapes ==
    {Span("json", <<o>>) : o \in {Status, Object("write_file", Args(Bare(Rel(<<"n", "m">>)))),
                                  Object("bash", Args(Bare(Rel(<<"l">>))))}}
    \union {Span("unclosed_braces", <<Good>>), Span("none", <<>>), Span("raises", <<>>)}

MCNativeObjects ==
    {Good, Status, [Good EXCEPT !.form = "null"], [Good EXCEPT !.form = "string"],
     [Good EXCEPT !.form = "raising"],
     [Good EXCEPT !.name = "list_dir", !.form = "empty_list"],
     [Good EXCEPT !.name = "list_dir", !.form = "absent"]}

Policies == [t \in {"read_file", "list_dir", "grep"} |-> "allow"]
            @@ [t \in {"write_file", "bash"} |-> "ask"]
Session == [policies |-> Policies, mcp_policy |-> "allow", auto_approve |-> FALSE,
            tty |-> TRUE, remote |-> FALSE, key |-> FALSE]
MCSessions ==
    {Session,
     [Session EXCEPT !.mcp_policy = "ask", !.auto_approve = TRUE, !.tty = FALSE,
                     !.remote = TRUE, !.key = TRUE],
     [Session EXCEPT !.policies["bash"] = "deny", !.tty = FALSE],
     [Session EXCEPT !.remote = TRUE]}

ASSUME MCLinksLead == LinksLead
=============================================================================
