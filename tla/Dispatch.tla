----------------------------- MODULE Dispatch ------------------------------
(***************************************************************************)
(* Registry.execute (tools/registry.py) for the calls of one completion,   *)
(* one after the other: lookup, binding, validation, the permission layer  *)
(* (permissions.py) and the tools that run in this process (tools/fs.py)   *)
(* or are forwarded to an MCP server (mcp/adapter.py).  The bash tool is in*)
(* Executor.                                                               *)
(***************************************************************************)
EXTENDS Parsing, Sandbox

CONSTANTS
    Sessions,       \* how a process may be set up
    McpTools,       \* namespaced names of the tools of MCP servers
    WriteShaped,    \* those whose name says write, edit, move, delete, ...
    Disk,           \* what exists at first: "file" or "dir", by path
    MaxCalls        \* bound: calls of one completion

FileTools == {"read_file", "write_file", "list_dir", "grep"}

ASSUME DispatchAssumption ==
    /\ Registered = FileTools \union {"bash"} \union McpTools
    /\ McpTools \intersect (FileTools \union {"bash", NoName}) = {}
    /\ WriteShaped \subseteq McpTools
    /\ MaxCalls \in Nat
    /\ Disk \in [DOMAIN Disk -> {"file", "dir"}]
    /\ DOMAIN Disk \subseteq Seq(STRING)

VARIABLES
    pc,         \* where execute() is: "call", "asking", "run", "bash", "done";
                \* before that the completion is
                \* "reading" and "parsing"
    session,    \* policies, default policy of MCP tools, auto_approve, terminal,
                \* and for bash: executor configured, key right
    calls,      \* the calls still to execute, the current one first
    results,    \* how each call ended, by number
    approved,   \* the calls the user said yes to
    audit,      \* Permissions.log, with the number of the call
    effects,    \* what tools touched, and where
    files,      \* what exists: "file" or "dir", by path
    stats       \* STATS

dispatch == <<pc, session, calls, results, approved, audit, effects, files, stats>>

Call == Head(calls)
N == Len(results) + 1
Tool == Call.name

\* What the end of a call says to the model.
Ends == {"ok", "error", "unknown", "invalid", "disabled", "declined", "refused",
         "status", "unreachable", "escaped"}

-----------------------------------------------------------------------------
(***************************************************************************)
(* Steps that several actions share.                                       *)
(***************************************************************************)

Return(end) ==
    /\ results' = Append(results, end)
    /\ calls' = Tail(calls)
    /\ pc' = IF Tail(calls) = <<>> THEN "done" ELSE "call"

\* An end that leaves no trace but its result.
ReturnOnly(end) ==
    /\ Return(end)
    /\ UNCHANGED <<session, approved, audit, effects, files, stats>>

IsFile(p) == p \in DOMAIN files /\ files[p] = "file"

\* A tool got to a path that it was given in a word of this form, where there
\* may have been a file.
Effect(p, node, form) == [call |-> N, tool |-> Tool, node |-> node, path |-> p,
                          file |-> IsFile(p), form |-> form]

Note(policy, allowed) ==
    audit' = Append(audit, [call |-> N, tool |-> Tool, policy |-> policy,
                            allowed |-> allowed])

Proceed ==
    /\ pc' = "run"
    /\ UNCHANGED <<session, calls, results, effects, files, stats>>

-----------------------------------------------------------------------------
(***************************************************************************)
(* Lookup, binding and validation.                                         *)
(***************************************************************************)

Required(tool) ==
    CASE tool = "write_file" -> 2
      [] tool = "list_dir" -> 0
      [] OTHER -> 1

\* A bare string is bound to the only required parameter; an empty object will
\* do where nothing is required; otherwise the arguments say enough or not.
IsValid(c) ==
    CASE c.shape = "positional" -> Required(c.name) = 1
      [] c.shape = "empty" -> Required(c.name) = 0
      [] OTHER -> c.args.complete

\* The arguments the tool runs with.  list_dir and grep start at "." when they
\* are given no path.
Words == IF Call.shape = "empty" \/ (Call.shape = "positional" /\ Tool = "grep")
         THEN <<[form |-> "bare", raw |-> [abs |-> FALSE, odd |-> FALSE, steps |-> <<>>]]>>
         ELSE Call.args.words

Path == Words[1].raw

Unknown ==
    /\ pc = "call"
    /\ Tool \notin Registered
    /\ ReturnOnly("unknown")

\* dict(call.arguments) raises, past execute() and the loop.
Escape ==
    /\ pc = "call"
    /\ Tool \in Registered
    /\ Call.shape = "raw"
    /\ results' = Append(results, "escaped")
    /\ calls' = <<>>
    /\ pc' = "done"
    /\ UNCHANGED <<session, approved, audit, effects, files, stats>>

Invalid ==
    /\ pc = "call"
    /\ Tool \in Registered
    /\ Call.shape # "raw"
    /\ ~IsValid(Call)
    /\ ReturnOnly("invalid")

Valid ==
    /\ pc = "call"
    /\ Tool \in Registered
    /\ Call.shape # "raw"
    /\ IsValid(Call)

-----------------------------------------------------------------------------
(***************************************************************************)
(* The permission layer.                                                   *)
(***************************************************************************)

\* Mutant: a caller's "allow" holds for tools that write, too.
DefaultPolicyAsGiven(tool) ==
    CASE tool \in {"write_file", "bash"} -> "ask"
      [] tool \in McpTools -> session.mcp_policy
      [] OTHER -> "allow"

\* default_policy of the tools; make_mcp_tool forces those that write to ask.
DefaultPolicy(tool) ==
    CASE tool \in {"write_file", "bash"} -> "ask"
      [] tool \in McpTools ->
            IF tool \in WriteShaped /\ session.mcp_policy = "allow"
            THEN "ask" ELSE session.mcp_policy
      [] OTHER -> "allow"

Policy(tool) ==
    IF tool \in DOMAIN session.policies THEN session.policies[tool]
    ELSE DefaultPolicy(tool)

Allowed ==
    /\ Valid
    /\ Policy(Tool) = "allow"
    /\ Note("allow", TRUE)
    /\ Proceed
    /\ UNCHANGED approved

Disabled ==
    /\ Valid
    /\ Policy(Tool) = "deny"
    /\ Note("deny", FALSE)
    /\ Return("disabled")
    /\ UNCHANGED <<session, approved, effects, files, stats>>

AutoApproved ==
    /\ Valid
    /\ Policy(Tool) = "ask"
    /\ session.auto_approve
    /\ Note("auto", TRUE)
    /\ Proceed
    /\ UNCHANGED approved

Ask ==
    /\ Valid
    /\ Policy(Tool) = "ask"
    /\ ~session.auto_approve
    /\ pc' = "asking"
    /\ UNCHANGED <<session, calls, results, approved, audit, effects, files, stats>>

\* Without a terminal nobody can say yes.
Approve ==
    /\ pc = "asking"
    /\ session.tty
    /\ approved' = approved \union {N}
    /\ Note("ask", TRUE)
    /\ Proceed

Decline ==
    /\ pc = "asking"
    /\ Note("ask", FALSE)
    /\ Return("declined")
    /\ UNCHANGED <<session, approved, effects, files, stats>>

-----------------------------------------------------------------------------
(***************************************************************************)
(* The tools.  What a file holds is left out: a tool may find it too big,  *)
(* not text, or fail to open it.  What list_dir and grep find below the    *)
(* directory they are given is left out.                                   *)
(***************************************************************************)

Target == Resolved(Path)

IsDir(p) == p \in DOMAIN files /\ files[p] = "dir"

Running(tool) == pc = "run" /\ Tool = tool

\* A file tool refuses its path.
Refuse ==
    /\ pc = "run"
    /\ Tool \in FileTools
    /\ \/ ~IsSafe(Path)
       \/ /\ Tool \in {"read_file", "write_file"}
          /\ Tool = "read_file" => Target \in DOMAIN files
          /\ ~IsDir(Target) /\ LooksSecret(Target)
    /\ ReturnOnly("refused")

\* It is not there, it is a directory or none, the pattern is bad.
CannotDo ==
    /\ pc = "run"
    /\ Tool \in FileTools
    /\ IsSafe(Path)
    /\ \/ Tool # "write_file" /\ Target \notin DOMAIN files
       \/ Tool \in {"read_file", "write_file"} /\ IsDir(Target)
       \/ Tool = "list_dir" /\ ~IsDir(Target)
       \/ Tool = "grep"
    /\ ReturnOnly("error")

\* The tool opens its path; a file may turn out too big, not text, or empty.  A
\* search may not return: see Unbounded.
ReadPath ==
    /\ pc = "run"
    /\ Tool \in {"read_file", "list_dir", "grep"}
    /\ IsSafe(Path)
    /\ Target \in DOMAIN files
    /\ Tool = "read_file" => ~IsDir(Target) /\ ~LooksSecret(Target)
    /\ Tool = "list_dir" => IsDir(Target)
    /\ effects' = IF Tool = "grep" /\ ~IsDir(Target) /\ LooksSecret(Target)
                  THEN effects ELSE effects \union {Effect(Target, "agent", "bare")}
    /\ \E end \in {"ok"} \union {e \in {"error"} : Tool = "read_file"} : Return(end)
    /\ UNCHANGED <<session, approved, audit, files, stats>>

\* Missing directories are made first, then the file; each may fail.
WriteFile ==
    /\ Running("write_file")
    /\ IsSafe(Path)
    /\ ~IsDir(Target)
    /\ ~LooksSecret(Target)
    /\ \E end \in {"ok", "error"}, made \in Len(Root)..Len(Target) :
        /\ end = "ok" => made = Len(Target)
        /\ made > Len(Root) => IsDir(SubSeq(Target, 1, made - 1)) \/ SubSeq(Target, 1, made - 1) \notin DOMAIN files
        /\ LET new == {SubSeq(Target, 1, i) : i \in Len(Root)..made}
           IN  files' = [p \in DOMAIN files \union new |->
                            IF p \in DOMAIN files THEN files[p]
                            ELSE IF p = Target THEN "file" ELSE "dir"]
        /\ effects' = IF made = Len(Target)
                      THEN effects \union {Effect(Target, "agent", "bare")} ELSE effects
        /\ Return(end)
    /\ UNCHANGED <<session, approved, audit, stats>>

\* What a server opens for some of the words it is given.
OpenedByServer(some) ==
    UNION {{Effect(Reached(raw), "server", Words[i].form) : raw \in Opens(Words[i])} :
                i \in some}

\* _MCPTool.run: confine first, forward second.  call_tool may fail although
\* the server did what it was asked, and the server may do nothing at all.  The
\* call may not return: see Unbounded.
Forward ==
    /\ pc = "run"
    /\ Tool \in McpTools
    /\ ConfinePaths(Words, DOMAIN files)
    /\ \E end \in {"ok", "error"} : Return(end)
    /\ \E some \in SUBSET DOMAIN Words :
        effects' = effects \union OpenedByServer(some)
    /\ UNCHANGED <<session, approved, audit, files, stats>>

RefuseForward ==
    /\ pc = "run"
    /\ Tool \in McpTools
    /\ ~ConfinePaths(Words, DOMAIN files)
    /\ ReturnOnly("refused")

\* A tool that nothing obliges to return: Python cannot time out a search for a
\* regular expression, and a server that goes on sending messages puts off the
\* end of a call (McpClient!Skip).
Unbounded ==
    /\ pc = "run"
    /\ \/ Tool = "grep" /\ IsSafe(Path) /\ Target \in DOMAIN files
       \/ Tool \in McpTools /\ ConfinePaths(Words, DOMAIN files)

Execute ==
    \/ Unknown \/ Escape \/ Invalid
    \/ Allowed \/ Disabled \/ AutoApproved \/ Ask
    \/ Refuse \/ CannotDo \/ ReadPath \/ WriteFile \/ Forward \/ RefuseForward

Answer == Approve \/ Decline
=============================================================================
