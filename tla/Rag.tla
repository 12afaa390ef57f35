-------------------------------- MODULE Rag --------------------------------
(***************************************************************************)
(* search_docs (rag/retrieve.py): the index every process builds once,     *)
(* under a lock, on its first search, from the chunks of the corpus; the   *)
(* embeddings it needs (rag/embed.py), with their cache file, shared by    *)
(* processes; and the store, in the process (store_numpy.py) or a          *)
(* collection of a server that processes share (store_qdrant.py).          *)
(***************************************************************************)
EXTENDS Chunking, FiniteSets, Functions

CONSTANTS
    Workers,       \* threads that search
    Processes,
    Kinds,         \* which store each process may use
    Nobody, NoFile, Torn, NoCollection,
    Batch,         \* BATCH
    MaxParts,      \* bound: chunks of the corpus
    MaxSearches,   \* bound: searches of one thread
    MaxCrashes,    \* bound: crashes of processes
    Process(_)     \* of a thread

ASSUME RagAssumption ==
    /\ Processes # {}
    /\ Kinds \subseteq [Processes -> {"numpy", "qdrant"}]
    /\ Batch \in Nat \ {0}
    /\ {MaxParts, MaxSearches, MaxCrashes} \subseteq Nat
    /\ Nobody \notin Workers
    /\ \A w \in Workers : Process(w) \in Processes

VARIABLES
    parts,        \* chunks of the corpus, the same in all processes; -1 when the
                  \* corpus is not split yet
    kind,         \* SA_VECTOR_STORE of each process; a "chroma" store is in the
                  \* process, too, and counts as "numpy"
    lock,         \* _index_lock of each process
    index,        \* whether _index is set
    mem,          \* keys in _mem of the process's Embedder: chunks, 0 a query
    stored,       \* chunks in the process's own store, or _count with qdrant
    at,           \* where each thread is
    todo,         \* the keys its embed() still has to ask for, then those it saves
    left,         \* searches it may still begin
    cache,        \* the cache file: what is in it, NoFile or Torn
    collection,   \* of the server: who created it and the chunks in it
    crashes

service == <<cache, collection>>
process == <<kind, lock, index, mem, stored>>
thread == <<at, todo, left>>
rag == <<parts, process, thread, service, crashes>>
vars == <<splitter, rag>>

\* Where a thread is.  The steps from "load" to "add" are build_index's, and the
\* lock is held; "ask" to "hits" are search's.
Building == {"load", "exists", "reset", "create", "embed", "batch", "save",
             "saving", "add"}
Places == {"idle", "lock", "query", "batch?", "save?", "saving?", "ask"} \union Building

Corpus == 1..parts

InitRag ==
    /\ parts = -1
    /\ kind \in Kinds
    /\ lock = [p \in Processes |-> Nobody]
    /\ index = [p \in Processes |-> FALSE]
    /\ mem = [p \in Processes |-> {}]
    /\ stored = [p \in Processes |-> {}]
    /\ at = [w \in Workers |-> "idle"]
    /\ todo = [w \in Workers |-> {}]
    /\ left = [w \in Workers |-> MaxSearches]
    /\ cache = NoFile
    /\ collection = NoCollection
    /\ crashes = 0

Go(w, place) == at' = [at EXCEPT ![w] = place]

-----------------------------------------------------------------------------
(***************************************************************************)
(* load_corpus: every build splits the same documents into the same chunks,*)
(* so they are split once.  Its text is not needed any more.               *)
(***************************************************************************)

\* A refused size, too, leaves nothing to index.
Loaded ==
    /\ split \in {"done", "refused"}
    /\ parts' = IF Len(chunks) > MaxParts THEN MaxParts ELSE Len(chunks)
    /\ split' = "loaded"
    /\ doc' = <<>> /\ chunks' = <<>> /\ pos' = 0 /\ size' = 0 /\ overlap' = 0
    /\ UNCHANGED <<process, thread, service, crashes>>

-----------------------------------------------------------------------------
(***************************************************************************)
(* search, get_index and _index_lock.                                      *)
(***************************************************************************)

Search(w) ==
    /\ at[w] = "idle"
    /\ left[w] > 0
    /\ left' = [left EXCEPT ![w] = @ - 1]
    /\ Go(w, "lock")
    /\ UNCHANGED <<process, todo, service>>

\* Mutant: _index is looked at without the lock.
GetIndexUnlocked(w) ==
    /\ at[w] = "lock"
    /\ Go(w, IF index[Process(w)] THEN "query" ELSE "load")
    /\ UNCHANGED <<process, todo, left, service>>

\* The thread finds the index under the lock, or keeps the lock and builds it.
GetIndex(w) ==
    /\ at[w] = "lock"
    /\ lock[Process(w)] = Nobody
    /\ IF index[Process(w)]
       THEN Go(w, "query") /\ UNCHANGED lock
       ELSE Go(w, "load") /\ lock' = [lock EXCEPT ![Process(w)] = w]
    /\ UNCHANGED <<kind, index, mem, stored, todo, left, service>>

\* Mutant: a build that fails keeps the lock.
ReleaseNever(w) == UNCHANGED lock

Release(w) ==
    lock' = [p \in Processes |-> IF lock[p] = w THEN Nobody ELSE lock[p]]

NewCollection(w) == [maker |-> Process(w), points |-> {}]

\* Points are numbered from 0 by every process.
Upserted == [collection EXCEPT !.points = @ \union Corpus]

\* What is raised leaves the lock and becomes a ToolError of the search.
Raise(w) ==
    /\ Go(w, "idle")
    /\ todo' = [todo EXCEPT ![w] = {}]
    /\ Release(w)

\* Whatever needs the embedding service or the server may raise, and the server
\* may have done what it was asked.
RemoteFails(w) ==
    /\ at[w] \in {"batch", "batch?", "exists", "reset", "create", "add", "ask"}
    /\ at[w] \in {"add", "ask"} => kind[Process(w)] = "qdrant"
    /\ collection' \in {collection} \union
        CASE at[w] = "reset" -> {NoCollection}
          [] at[w] = "create" /\ collection = NoCollection -> {NewCollection(w)}
          [] at[w] = "add" /\ collection # NoCollection -> {Upserted}
          [] OTHER -> {}
    /\ Raise(w)
    /\ UNCHANGED <<kind, index, mem, stored, left, cache>>

-----------------------------------------------------------------------------
(***************************************************************************)
(* build_index: chunks, embedder, store, vectors, in this order.           *)
(***************************************************************************)

\* A torn cache file counts as none.
LoadCorpus(w) ==
    /\ at[w] = "load"
    /\ IF parts = 0
       THEN Raise(w) /\ UNCHANGED <<mem, stored>>
       ELSE /\ mem' = [mem EXCEPT ![Process(w)] =
                            IF cache \in {NoFile, Torn} THEN {} ELSE cache]
            /\ stored' = [stored EXCEPT ![Process(w)] = {}]
            /\ Go(w, IF kind[Process(w)] = "qdrant" THEN "exists" ELSE "embed")
            /\ UNCHANGED <<lock, todo>>
    /\ UNCHANGED <<kind, index, left, service>>

\* QdrantStore: is there a collection, delete it, create it.  Others do the same.
CollectionExists(w) ==
    /\ at[w] = "exists"
    /\ Go(w, IF collection = NoCollection THEN "create" ELSE "reset")
    /\ UNCHANGED <<process, todo, left, service>>

DeleteCollection(w) ==
    /\ at[w] = "reset"
    /\ collection' = NoCollection
    /\ Go(w, "create")
    /\ UNCHANGED <<process, todo, left, cache>>

CreateCollection(w) ==
    /\ at[w] = "create"
    /\ IF collection = NoCollection
       THEN /\ collection' = NewCollection(w)
            /\ Go(w, "embed")
            /\ UNCHANGED <<todo, lock>>
       ELSE Raise(w) /\ UNCHANGED collection
    /\ UNCHANGED <<kind, index, mem, stored, left, cache>>

-----------------------------------------------------------------------------
(***************************************************************************)
(* Embedder.embed, of the chunks or, with "?", of the query.               *)
(***************************************************************************)

Wanted(w) == IF at[w] \in Building THEN Corpus ELSE {0}
Mark(w, place) == IF at[w] \in Building THEN place
                  ELSE CASE place = "batch" -> "batch?"
                         [] place = "save" -> "save?"
                         [] place = "saving" -> "saving?"
                         [] place = "add" -> "ask"

FindMissing(w) ==
    /\ at[w] \in {"embed", "query"}
    /\ LET missing == Wanted(w) \ mem[Process(w)]
       IN  /\ todo' = [todo EXCEPT ![w] = missing]
           /\ Go(w, Mark(w, IF missing = {} THEN "add" ELSE "batch"))
    /\ UNCHANGED <<process, left, service>>

FirstOf(keys) == {k \in keys : Cardinality({j \in keys : j < k}) < Batch}

\* Mutant: an answer may hold fewer embeddings than were asked for.
EmbedBatchShort(w) ==
    /\ at[w] \in {"batch", "batch?"}
    /\ \E got \in SUBSET FirstOf(todo[w]) :
        mem' = [mem EXCEPT ![Process(w)] = @ \union got]
    /\ todo' = [todo EXCEPT ![w] = @ \ FirstOf(@)]
    /\ Go(w, IF todo'[w] = {} THEN Mark(w, "save") ELSE at[w])
    /\ UNCHANGED <<kind, lock, index, stored, left, service>>

EmbedBatch(w) ==
    /\ at[w] \in {"batch", "batch?"}
    /\ mem' = [mem EXCEPT ![Process(w)] = @ \union FirstOf(todo[w])]
    /\ todo' = [todo EXCEPT ![w] = @ \ FirstOf(@)]
    /\ Go(w, IF todo'[w] = {} THEN Mark(w, "save") ELSE at[w])
    /\ UNCHANGED <<kind, lock, index, stored, left, service>>

\* _mem is dumped, and write_text truncates the file before it writes.  An
\* OSError is passed over.
BeginSave(w) ==
    /\ at[w] \in {"save", "save?"}
    /\ \/ /\ cache' = Torn
          /\ todo' = [todo EXCEPT ![w] = mem[Process(w)]]
          /\ Go(w, Mark(w, "saving"))
       \/ UNCHANGED <<cache, todo>> /\ Go(w, Mark(w, "add"))
    /\ UNCHANGED <<process, left, collection>>

\* Threads that save at the same time, and a full disk, tear the file.
EndSave(w) ==
    /\ at[w] \in {"saving", "saving?"}
    /\ cache' \in {todo[w], Torn}
    /\ todo' = [todo EXCEPT ![w] = {}]
    /\ Go(w, Mark(w, "add"))
    /\ UNCHANGED <<process, left, collection>>

-----------------------------------------------------------------------------
(***************************************************************************)
(* The store gets the vectors, and answers.                                *)
(***************************************************************************)

\* store.add, and _index is set.
Add(w) ==
    /\ at[w] = "add"
    /\ IF kind[Process(w)] = "qdrant" /\ collection = NoCollection
       THEN Raise(w) /\ UNCHANGED <<stored, index, collection>>
       ELSE /\ stored' = [stored EXCEPT ![Process(w)] = Corpus]
            /\ collection' = IF kind[Process(w)] = "qdrant" THEN Upserted ELSE collection
            /\ index' = [index EXCEPT ![Process(w)] = TRUE]
            /\ Release(w)
            /\ Go(w, "query")
            /\ UNCHANGED todo
    /\ UNCHANGED <<kind, mem, left, cache>>

\* store.search: hits, none, or an exception without a collection.  Either way
\* the search ends.
Hits(w) ==
    /\ at[w] = "ask"
    /\ Go(w, "idle")
    /\ UNCHANGED <<process, todo, left, service>>

-----------------------------------------------------------------------------
\* The process dies, and starts again with nothing.
Crash(p) ==
    LET its == {w \in Workers : Process(w) = p}
    IN  /\ parts >= 0
        /\ crashes < MaxCrashes
        /\ crashes' = crashes + 1
        /\ lock' = [lock EXCEPT ![p] = Nobody]
        /\ index' = [index EXCEPT ![p] = FALSE]
        /\ mem' = [mem EXCEPT ![p] = {}]
        /\ stored' = [stored EXCEPT ![p] = {}]
        /\ at' = [w \in Workers |-> IF w \in its THEN "idle" ELSE at[w]]
        /\ todo' = [w \in Workers |-> IF w \in its THEN {} ELSE todo[w]]
        /\ UNCHANGED <<splitter, parts, kind, left, service>>

Step(w) ==
    /\ \/ GetIndex(w) \/ RemoteFails(w)
       \/ LoadCorpus(w) \/ CollectionExists(w) \/ DeleteCollection(w)
       \/ CreateCollection(w) \/ FindMissing(w) \/ EmbedBatch(w) \/ BeginSave(w)
       \/ EndSave(w) \/ Add(w) \/ Hits(w)
    /\ UNCHANGED <<splitter, parts, crashes>>

Begin(w) == parts >= 0 /\ Search(w) /\ UNCHANGED <<splitter, parts, crashes>>

\* Nobody searches any more.
Finished ==
    /\ \A w \in Workers : at[w] = "idle" /\ left[w] = 0
    /\ UNCHANGED vars

Init == InitSplit /\ InitRag

Next ==
    \/ Split /\ UNCHANGED rag
    \/ Loaded
    \/ \E w \in Workers : Begin(w) \/ Step(w)
    \/ \E p \in Processes : Crash(p)
    \/ Finished

\* A thread that searches goes on; a split does, too.
Spec ==
    /\ Init
    /\ [][Next]_vars
    /\ WF_vars((Split /\ UNCHANGED rag) \/ Loaded)
    /\ \A w \in Workers : WF_vars(Step(w))

-----------------------------------------------------------------------------
(***************************************************************************)
(* Properties.                                                             *)
(***************************************************************************)

TypeOK ==
    /\ parts \in -1..MaxParts
    /\ split \in {"raw", "loop", "done", "refused", "loaded"}
    /\ \A p \in Processes :
        /\ lock[p] \in {Nobody} \union {w \in Workers : at[w] \in Building}
        /\ mem[p] \subseteq 0..MaxParts
        /\ stored[p] \in {{}, Corpus}
    /\ at \in [Workers -> Places]
    /\ \A w \in Workers :
        /\ todo[w] \subseteq 0..MaxParts
        /\ at[w] \in Building => lock[Process(w)] = w
    /\ cache \in {NoFile, Torn} \union SUBSET (0..MaxParts)
    /\ collection # NoCollection => collection.points \subseteq Corpus

\* An embed() that got through finds every vector it must return: batches that
\* failed and other threads leave no gap (embed.py:113-131).  A file that was torn
\* or overwritten holds fewer vectors, and what it lacks is embedded again.
VectorsReady ==
    \A w \in Workers :
        /\ at[w] = "add" => Corpus \subseteq mem[Process(w)]
        /\ at[w] = "ask" => 0 \in mem[Process(w)]

\* The index a process searches holds the whole corpus, whatever failed, died or
\* ran beside it before: in its own store, or in the collection it created.  It
\* says nothing of a collection that another process replaced: CollectionServes
\* does (retrieve.py:71-111, store_qdrant.py:122-137).
IndexWhole ==
    \A p \in Processes :
        index[p] =>
            /\ stored[p] = Corpus /\ Corpus # {}
            /\ kind[p] = "qdrant" /\ collection # NoCollection /\ collection.maker = p
                => collection.points = Corpus

\* A thread that asks the server finds the whole corpus there, whichever process
\* put it there: "a second process can query the same collection"
\* (store_qdrant.py:12-15).
CollectionServes ==
    \A w \in Workers :
        at[w] = "ask" /\ kind[Process(w)] = "qdrant" =>
            collection # NoCollection /\ collection.points = Corpus

\* Every search ends, in hits or an error, whoever builds, fails or dies.
SearchEnds == \A w \in Workers : at[w] # "idle" ~> at[w] = "idle"
=============================================================================
