------------------------------ MODULE Sandbox ------------------------------
(***************************************************************************)
(* sandbox.py: which paths a tool may be given.  A path is a sequence of   *)
(* names; the file system below it is a set of existing paths and a        *)
(* function from links to their targets.                                   *)
(***************************************************************************)
EXTENDS Integers, Sequences, SequencesExt

CONSTANTS
    Root,          \* the project root, canonical
    Links,         \* symbolic links: from a path to an absolute path
    SecretNames    \* SECRET_NAMES and the names with a SECRET_SUFFIXES

ASSUME SandboxAssumption ==
    /\ Root \in Seq(STRING)
    /\ Links \in [DOMAIN Links -> Seq(STRING)]
    /\ \A link \in DOMAIN Links : link \in Seq(STRING)
    /\ \A i \in DOMAIN Root : Root[i] # ".." /\ SubSeq(Root, 1, i) \notin DOMAIN Links

\* What a tool is given: an absolute or relative path, spelled with percent
\* signs or not.
IsRaw(raw) ==
    raw \in [abs : BOOLEAN, odd : BOOLEAN, steps : Seq(STRING)]

-----------------------------------------------------------------------------
(***************************************************************************)
(* The file system: where the operating system gets to when it opens a     *)
(* path, one name after the other.                                         *)
(***************************************************************************)

Walk[s \in [at : Seq(STRING), rest : Seq(STRING)]] ==
    IF s.rest = <<>> THEN s.at
    ELSE LET name == Head(s.rest)
             next == Append(s.at, name)
             left == Tail(s.rest)
         IN  CASE name = ".." ->
                    Walk[[at |-> IF s.at = <<>> THEN s.at ELSE Front(s.at),
                          rest |-> left]]
               [] name # ".." /\ next \in DOMAIN Links ->
                    Walk[[at |-> <<>>, rest |-> Links[next] \o left]]
               [] OTHER -> Walk[[at |-> next, rest |-> left]]

Candidate(raw) == IF raw.abs THEN raw.steps ELSE Root \o raw.steps

Reached(raw) == Walk[[at |-> <<>>, rest |-> Candidate(raw)]]

-----------------------------------------------------------------------------
(***************************************************************************)
(* safe_resolve and looks_secret.                                          *)
(***************************************************************************)

\* Mutant: ".." is removed from the text before links are followed.
ResolvedLexically(raw) ==
    LET drop(kept, name) ==
            IF name = ".." /\ kept # <<>> THEN Front(kept) ELSE Append(kept, name)
    IN  Walk[[at |-> <<>>, rest |-> FoldLeft(drop, <<>>, Candidate(raw))]]

\* Path.resolve follows links name by name, as the operating system does.
Resolved(raw) == Reached(raw)

Contained(p) == IsPrefix(Root, p)

\* safe_resolve does not raise.
IsSafe(raw) == ~raw.odd /\ Contained(Resolved(raw))

LooksSecret(p) ==
    /\ p # <<>>
    /\ \/ Last(p) \in SecretNames
       \/ Last(p) = "config" /\ \E i \in DOMAIN p : p[i] = ".git"

-----------------------------------------------------------------------------
(***************************************************************************)
(* confine_paths, for arguments that may or may not be paths.              *)
(***************************************************************************)

\* How a word that names `raw` may be written:
\*   "bare"      the path itself
\*   "assigned"  --name=path, -x=path
\*   "joined"    -xpath
\*   "bundled"   -xypath, several short flags before the path
\*   "run-on"    the path after "--", with no "=" in the word
\*   "flag"      no path at all
WordForms == {"bare", "assigned", "joined", "bundled", "run-on", "flag"}

\* arg[2:] of bundled flags: what is left of the flags is taken for the start of
\* a relative path.
Glued(raw) ==
    [raw EXCEPT !.abs = FALSE,
                !.steps = <<"glued">> \o (IF raw.abs THEN @ ELSE SubSeq(@, 2, Len(@)))]

\* Mutant: only what follows a "=" is pulled out of a flag.
EmbeddedAssigned(word) == IF word.form \in {"bare", "assigned"} THEN {word.raw} ELSE {}

\* What confine_paths looks at: a word that is no flag, what follows a "=", or
\* all but the first two characters of a short flag.
EmbeddedPaths(word) ==
    CASE word.form \in {"bare", "assigned", "joined"} -> {word.raw}
      [] word.form = "bundled" -> {Glued(word.raw)}
      [] OTHER -> {}

\* What a program or a server takes a word for.
Opens(word) == IF word.form = "flag" THEN {} ELSE {word.raw}

\* Over-inclusive: a lone name is a path when something of that name exists.
LooksLikePath(raw, files) ==
    \/ raw.abs
    \/ Len(raw.steps) > 1
    \/ \E i \in DOMAIN raw.steps : raw.steps[i] = ".."
    \/ Reached(raw) \in files

ConfinePaths(words, files) ==
    \A i \in DOMAIN words : \A raw \in EmbeddedPaths(words[i]) :
        LooksLikePath(raw, files) => IsSafe(raw) /\ ~LooksSecret(Resolved(raw))
=============================================================================
