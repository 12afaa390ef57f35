------------------------------- MODULE MCRag -------------------------------
(***************************************************************************)
(* Instance of Rag for TLC: short documents, one process with two threads  *)
(* and one with one, that share the cache file and perhaps a collection.   *)
(***************************************************************************)
EXTENDS Rag

CONSTANTS a1, a2, b, agent, other

MCDocuments == UNION {[1..n -> {" ", "\n", "x"}] : n \in 0..7}
MCKinds == {[p \in {agent, other} |-> "qdrant"],
            [p \in {agent, other} |-> IF p = agent THEN "numpy" ELSE "qdrant"]}
MCProcess(w) == IF w = b THEN other ELSE agent
=============================================================================
