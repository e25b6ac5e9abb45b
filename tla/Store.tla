------------------------------- MODULE Store -------------------------------
(***************************************************************************)
(* The database under its writers: storage/sqlite.rs, pipeline/rebuild.rs  *)
(* and the writing commands of lib.rs, with the searches of                *)
(* retrieval/mod.rs that read beside them.                                 *)
(*                                                                         *)
(* Processes of several builds of the program take the writer lock, open   *)
(* the database and ingest, rebuild or remove.  Documents own chunks; a    *)
(* chunk has one vector per embedding generation; searches see the vectors *)
(* of the active generation only.  A rebuild fills a 'building' generation *)
(* batch by batch behind a cursor, over several invocations if it must,    *)
(* and activates it in one transaction.  A process may die between any two *)
(* transactions, which releases its lock and nothing else.                 *)
(***************************************************************************)
EXTENDS Integers, FiniteSets

CONSTANTS
  Procs,        \* the processes that write
  Searchers,    \* the processes that search, of the same builds
  Paths, Real,  \* names of the database, and the one that is not a symlink
  PathOf,       \* [Procs -> Paths], the --db of a process
  Keys,         \* MODEL_KEY of the builds
  KeyOf,        \* [Procs \cup Searchers -> Keys]
  RevisionOf,   \* [Keys -> revisions]: the tokenizer revision of a build
  Docs, Versions,
  ChunksOf,     \* [Docs -> [Versions -> SUBSET Nat]]: ids of a version's chunks
  Batch,        \* chunks of a rebuild batch (64 in the code)
  MaxGen,       \* bound on the ids of generations
  NoDoc,        \* a document that is not stored
  None          \* no process, no name

ASSUME StoreAssumption ==
  /\ Real \in Paths /\ PathOf \in [Procs -> Paths]
  /\ KeyOf \in [Procs \cup Searchers -> Keys]
  /\ DOMAIN RevisionOf = Keys
  /\ IsFiniteSet(Docs)
  /\ ChunksOf \in [Docs -> [Versions -> SUBSET (Nat \ {0})]]
  /\ \A d \in Docs, v \in Versions : IsFiniteSet(ChunksOf[d][v])
  /\ \A d, e \in Docs, v, w \in Versions :
       d # e => ChunksOf[d][v] \cap ChunksOf[e][w] = {}
  /\ Batch \in Nat \ {0} /\ MaxGen \in Nat
  /\ Procs \cap Searchers = {}
  /\ NoDoc \notin Versions /\ None \notin Procs \cup Paths \cup Keys \cup Docs

VARIABLES
  created,      \* the database file exists
  locks,        \* [Paths -> Procs or None]: who holds the lock on <name>.lock
  docs,         \* the documents table
  gens,         \* embedding_generations
  records,      \* embedding_records
  vectors,      \* embeddings: a row is the vector of the record with its id
  proc,         \* where each process is, and its locals
  search,       \* [Searchers -> the search between its two snapshots]
  \* history: models of the vectors a query was compared with; whether a
  \* process took a name of the database that is not the canonical one
  compared, aliased

vars == <<created, locks, docs, gens, records, vectors, proc, search, compared, aliased>>
reading == <<search, compared>>

Gens == 1..MaxGen
NoGen == [status |-> "none", model |-> None]
Records == [chunk : Nat, gen : Gens, model : Keys]

\* The chunks table: replacement and deletion of a document carry its chunks.
ChunksIn(table) == UNION {ChunksOf[d][table[d]] : d \in {e \in Docs : table[e] # NoDoc}}
Chunks == ChunksIn(docs)

Active == {g \in Gens : gens[g].status = "active"}
Embedded(g) == {r.chunk : r \in {s \in records : s.gen = g}}

Idle == [at |-> "idle", name |-> None, gen |-> 0, cursor |-> 0, batch |-> {},
         doc |-> None, version |-> NoDoc]

Init ==
  /\ created = FALSE
  /\ locks = [n \in Paths |-> None]
  /\ docs = [d \in Docs |-> NoDoc]
  /\ gens = [g \in Gens |-> NoGen]
  /\ records = {} /\ vectors = {}
  /\ proc = [p \in Procs |-> Idle]
  /\ search = [s \in Searchers |-> "none"]
  /\ compared = [s \in Searchers |-> {}] /\ aliased = FALSE

At(p, place) == proc[p].at = place
Goto(p, place) == proc' = [proc EXCEPT ![p].at = place]

\* The process ends, in success or in error, or dies: its lock is released.
Exit(p) ==
  /\ proc' = [proc EXCEPT ![p] = Idle]
  /\ locks' = [n \in Paths |-> IF locks[n] = p THEN None ELSE locks[n]]

-----------------------------------------------------------------------------
(* `WriterLock::acquire`.                                                  *)

\* The lock file is named after the database: its canonical path when it
\* exists, else its name in the canonical parent directory.
LockName(p) == IF created THEN Real ELSE PathOf[p]

Resolve(p) ==
  /\ At(p, "idle")
  /\ proc' = [proc EXCEPT ![p] = [Idle EXCEPT !.at = "locking", !.name = LockName(p)]]
  /\ aliased' = (aliased \/ LockName(p) # Real)
  /\ UNCHANGED <<created, locks, docs, gens, records, vectors>>

\* A wrong form: the lock is shared.
LockShared(p) ==
  /\ At(p, "locking")
  /\ locks' = [locks EXCEPT ![proc[p].name] = p]
  /\ Goto(p, "opening")
  /\ UNCHANGED <<created, docs, gens, records, vectors>>

Lock(p) ==
  /\ At(p, "locking") /\ locks[proc[p].name] = None
  /\ locks' = [locks EXCEPT ![proc[p].name] = p]
  /\ Goto(p, "opening")
  /\ UNCHANGED <<created, docs, gens, records, vectors>>

\* Two seconds of retries go by: exit code 4.
LockTimeout(p) ==
  /\ At(p, "locking") /\ locks[proc[p].name] # None
  /\ proc' = [proc EXCEPT ![p] = Idle]
  /\ UNCHANGED <<created, locks, docs, gens, records, vectors>>

\* `Database::open` for writing creates and migrates the file.
Open(p) ==
  /\ At(p, "opening")
  /\ created' = TRUE
  /\ Goto(p, "open")
  /\ UNCHANGED <<locks, docs, gens, records, vectors>>

-----------------------------------------------------------------------------
(* Generations.                                                            *)

\* Rows of an INTEGER PRIMARY KEY: one more than the largest id in the table.
Above(g) == \A h \in Gens : gens[h] # NoGen => h < g
NextId(g) == Above(g) /\ (g > 1 => ~Above(g - 1))

\* `register_model`: the first build to write owns the first active
\* generation.
RegisterModel(p, command) ==
  /\ At(p, "open")
  /\ \/ Active # {} /\ UNCHANGED gens
     \/ /\ Active = {}
        /\ \E g \in Gens : NextId(g) /\ gens' = [gens EXCEPT ![g] =
                                          [status |-> "active", model |-> KeyOf[p]]]
  /\ Goto(p, command)
  /\ UNCHANGED <<created, locks, docs, records, vectors>>

\* Every error: the command returns it, and its process ends.
Refuse(p) == Exit(p) /\ UNCHANGED <<created, docs, gens, records, vectors>>

\* The build and the active generation agree on what `ingest` and `rebuild`
\* ask of them: the whole recipe, or only the tokenizer.
IngestAccepted(p)  == \A g \in Active : gens[g].model = KeyOf[p]
RebuildAccepted(p) == \A g \in Active : RevisionOf[gens[g].model] = RevisionOf[KeyOf[p]]

-----------------------------------------------------------------------------
(* Ingestion, as the store sees it, and removal.                           *)

StartIngest(p) == RegisterModel(p, "checking")

CheckModel(p) ==
  /\ At(p, "checking")
  /\ IF IngestAccepted(p) THEN Goto(p, "ingesting") /\ UNCHANGED <<created, locks, docs, gens, records, vectors>>
                          ELSE Refuse(p)

\* `replace_document` reads the active generation, then begins its
\* transaction: the vectors are those the process computed with its own model.
BeginReplace(p, d, v) ==
  /\ At(p, "ingesting")
  /\ \E g \in Active :
       proc' = [proc EXCEPT ![p].at = "replacing", ![p].gen = g,
                            ![p].doc = d, ![p].version = v]
  /\ UNCHANGED <<created, locks, docs, gens, records, vectors>>

\* The records the cascades leave when the chunks of a document go.
\* A wrong form: the cascade is off, the records stay.
KeepRows(rows, gone) == rows
Without(rows, gone) == {r \in rows : r.chunk \notin gone}
\* The vectors that are left with them: no foreign key reaches their virtual
\* table, but a trigger deletes the vector of every record that goes.
\* A wrong form: there is no trigger.
NotFired(left) == vectors
Fired(left) == vectors \ (records \ left)
\* A wrong form: the last chunk of a document or of a batch gets no vector.
VectorsButLast(chunks, g, key) ==
  {[chunk |-> c, gen |-> g, model |-> key] : c \in {e \in chunks : \E h \in chunks : e < h}}
Vectors(chunks, g, key) == {[chunk |-> c, gen |-> g, model |-> key] : c \in chunks}
ChunksOfDoc(d) == IF docs[d] = NoDoc THEN {} ELSE ChunksOf[d][docs[d]]

\* One transaction: the old row goes with all that hangs on it, the new one
\* comes with its chunks and their vectors.  Foreign keys reject a vector of
\* a generation that is gone.
Replace(p) ==
  LET d == proc[p].doc
      new == ChunksOf[d][proc[p].version]
      g == proc[p].gen
  IN /\ At(p, "replacing")
     /\ new = {} \/ gens[g] # NoGen
     /\ docs' = [docs EXCEPT ![d] = proc[p].version]
     /\ records' = Without(records, ChunksOfDoc(d)) \cup Vectors(new, g, KeyOf[p])
     /\ vectors' = Fired(Without(records, ChunksOfDoc(d))) \cup Vectors(new, g, KeyOf[p])
     /\ proc' = [proc EXCEPT ![p] = [Idle EXCEPT !.at = "ingesting", !.name = proc[p].name]]
     /\ UNCHANGED <<created, locks, gens>>

ReplaceRejected(p) ==
  /\ At(p, "replacing")
  /\ ChunksOf[proc[p].doc][proc[p].version] # {} /\ gens[proc[p].gen] = NoGen
  /\ Refuse(p)

\* Deleting rows of `documents` and what hangs on them.
Drop(gone) ==
  /\ docs' = [d \in Docs |-> IF d \in gone THEN NoDoc ELSE docs[d]]
  /\ records' = Without(records, UNION {ChunksOfDoc(d) : d \in gone})
  /\ vectors' = Fired(records')

\* `finish_root`: reconciliation deletes any documents of a root.
Prune(p) ==
  /\ At(p, "ingesting")
  /\ \E gone \in SUBSET {d \in Docs : docs[d] # NoDoc} : gone # {} /\ Drop(gone)
  /\ UNCHANGED <<created, locks, gens, proc>>

EndIngest(p) == At(p, "ingesting") /\ Refuse(p)

\* `migrate` only opens.
Migrate(p) == At(p, "open") /\ Refuse(p)

\* `remove`: the row of a root goes with its documents; the process ends.
Remove(p) ==
  /\ At(p, "open")
  /\ \E gone \in SUBSET {d \in Docs : docs[d] # NoDoc} : Drop(gone)
  /\ Exit(p)
  /\ UNCHANGED <<created, gens>>

-----------------------------------------------------------------------------
(* `rebuild`.                                                              *)

StartRebuild(p) == RegisterModel(p, "rebuilding")

\* `rebuild_generation`: the latest unfinished generation of this recipe, or
\* a new one.
\* A wrong form: any unfinished generation is resumed.
UnfinishedAny(key) == {g \in Gens : gens[g].status = "building"}
Unfinished(key) == {g \in Gens : gens[g] = [status |-> "building", model |-> key]}
Latest(g, of) == g \in of /\ \A h \in of : h <= g

ChooseGeneration(p) ==
  /\ At(p, "rebuilding") /\ RebuildAccepted(p)
  /\ \E g \in Gens :
       /\ IF Unfinished(KeyOf[p]) # {}
            THEN Latest(g, Unfinished(KeyOf[p])) /\ UNCHANGED gens
            ELSE /\ NextId(g)
                 /\ gens' = [gens EXCEPT ![g] = [status |-> "building", model |-> KeyOf[p]]]
       /\ proc' = [proc EXCEPT ![p].at = "fetching", ![p].gen = g, ![p].cursor = 0]
  /\ UNCHANGED <<created, locks, docs, records, vectors>>

RefuseRebuild(p) ==
  /\ At(p, "rebuilding") /\ ~RebuildAccepted(p)
  /\ Refuse(p)

\* `pending_chunks_after`: the first Batch chunks past the cursor, by id, that
\* have no vector in the generation.
\* A wrong form: the page starts one chunk too late.
PendingAfterGap(g, cursor) == {c \in Chunks \ Embedded(g) : c > cursor + 1}
\* A wrong form: what an earlier invocation embedded is embedded again.
PendingAgain(g, cursor) == {c \in Chunks : c > cursor}
Pending(g, cursor) == {c \in Chunks \ Embedded(g) : c > cursor}
FirstOf(set, n) == {c \in set : Cardinality({e \in set : e < c}) < n}

Fetch(p) ==
  /\ At(p, "fetching")
  /\ proc' = [proc EXCEPT
       ![p].at = IF Pending(proc[p].gen, proc[p].cursor) = {} THEN "activating" ELSE "embedding",
       ![p].batch = FirstOf(Pending(proc[p].gen, proc[p].cursor), Batch)]
  /\ UNCHANGED <<created, locks, docs, gens, records, vectors>>

\* Inference fails: the run is recorded as partial and resumable.
EmbedFails(p) == At(p, "embedding") /\ Refuse(p)

\* `write_vectors`: one transaction.  A chunk or a generation that is gone, or
\* a vector that is there already, makes it fail as a whole.
Writable(p) ==
  /\ proc[p].batch \subseteq Chunks \ Embedded(proc[p].gen)
  /\ gens[proc[p].gen] # NoGen

WriteVectors(p) ==
  /\ At(p, "embedding") /\ Writable(p)
  /\ records' = records \cup Vectors(proc[p].batch, proc[p].gen, KeyOf[p])
  /\ vectors' = vectors \cup Vectors(proc[p].batch, proc[p].gen, KeyOf[p])
  /\ \E last \in proc[p].batch :
       /\ \A c \in proc[p].batch : c <= last
       /\ proc' = [proc EXCEPT ![p].at = "fetching", ![p].cursor = last, ![p].batch = {}]
  /\ UNCHANGED <<created, locks, docs, gens>>

WriteRejected(p) == At(p, "embedding") /\ ~Writable(p) /\ Refuse(p)

\* `activate`: one transaction that checks the coverage, switches, and
\* deletes the generation it retires with its vectors.
Covered(g) == Chunks \subseteq Embedded(g)
Activatable(g) == Covered(g) /\ gens[g].status = "building"

Activate(p) ==
  LET g == proc[p].gen
  IN /\ At(p, "activating") /\ Activatable(g)
     /\ gens' = [h \in Gens |-> IF h = g THEN [gens[g] EXCEPT !.status = "active"]
                                ELSE IF h \in Active THEN NoGen ELSE gens[h]]
     /\ records' = {r \in records : r.gen \notin Active}
     /\ vectors' = Fired(records')
     /\ Exit(p)
     /\ UNCHANGED <<created, docs>>

ActivateRefused(p) == At(p, "activating") /\ ~Activatable(proc[p].gen) /\ Refuse(p)

-----------------------------------------------------------------------------
Crash(p) == ~At(p, "idle") /\ Refuse(p)

Work(p) ==
  \/ Lock(p) \/ LockTimeout(p) \/ Open(p)
  \/ StartIngest(p) \/ CheckModel(p)
  \/ \E d \in Docs, v \in Versions : BeginReplace(p, d, v)
  \/ Replace(p) \/ ReplaceRejected(p) \/ Prune(p) \/ EndIngest(p) \/ Remove(p) \/ Migrate(p)
  \/ StartRebuild(p) \/ ChooseGeneration(p) \/ RefuseRebuild(p) \/ Fetch(p)
  \/ EmbedFails(p) \/ WriteVectors(p) \/ WriteRejected(p)
  \/ Activate(p) \/ ActivateRefused(p) \/ Crash(p)

-----------------------------------------------------------------------------
(* Searches: `search_bounded`.  They take no lock; each of their snapshots *)
(* is one read transaction.                                                *)

Scope == {r \in records : r.gen \in Active}
Neighbours == {v \in vectors : v.gen \in Active}
Supported(s) == \A g \in Active : gens[g].model = KeyOf[s]

\* The first snapshot: an unsupported recipe is an error, an empty scope an
\* answer; otherwise the query is tokenized and embedded without a snapshot.
BeginSearch(s, mode) ==
  /\ created /\ search[s] = "none"
  /\ mode = "dense" => Supported(s)
  /\ Scope # {}
  /\ search' = [search EXCEPT ![s] = mode]
  /\ UNCHANGED <<created, locks, docs, gens, records, vectors, proc, compared, aliased>>

\* The embedder fails, or the process dies.
SearchFails(s) ==
  /\ search[s] # "none" /\ search' = [search EXCEPT ![s] = "none"]
  /\ UNCHANGED <<created, locks, docs, gens, records, vectors, proc, compared, aliased>>

\* A wrong form: the recipe is the one of the first snapshot.
StillAny(s) == TRUE
StillSupported(s) == Supported(s)

\* The second snapshot: another generation may be active by now.  It is
\* checked again, then ranked and hydrated in the same transaction.
EndSearch(s) ==
  /\ search[s] # "none"
  /\ search' = [search EXCEPT ![s] = "none"]
  /\ compared' = IF search[s] = "dense" /\ StillSupported(s)
                 THEN [compared EXCEPT ![s] = @ \cup {v.model : v \in Neighbours}]
                 ELSE compared
  /\ UNCHANGED <<created, locks, docs, gens, records, vectors, proc, aliased>>

Read(s) == (\E mode \in {"dense", "lexical"} : BeginSearch(s, mode)) \/ SearchFails(s) \/ EndSearch(s)

Step(p) == (Resolve(p) \/ (Work(p) /\ UNCHANGED aliased)) /\ UNCHANGED reading

Next == \/ \E p \in Procs : Step(p)
        \/ \E s \in Searchers : Read(s)
Spec == Init /\ [][Next]_vars

-----------------------------------------------------------------------------
(* Properties.                                                             *)

Holding(p) == proc[p].at \notin {"idle", "locking"}

\* What a search can rank is complete: every stored chunk has its vector in
\* the active generation, through replacements, deletions, crashes and
\* rebuilds.  There is such a generation when anything is stored, and never
\* a second active one, whoever registers or activates.  The coverage takes
\* the lock: ids are reused, and a second writer may fill the generation that
\* has by now the id of the one it read as active.
ActiveCovers ==
  /\ \A g, h \in Active : g = h
  /\ ~aliased /\ Chunks # {} => \E g \in Active : Covered(g)

\* A page of at most Batch chunks, read before an inference that may take
\* minutes and no transaction spans, can still be written when it is done:
\* none of its chunks has gone or got its vector meanwhile.  The loop ends at
\* the first page that is empty.  Like all that follows from the lock, this is
\* of a database every process knows by its canonical name.
CheckpointsFit ==
  ~aliased => \A p \in Procs :
    At(p, "embedding") => Writable(p) /\ Cardinality(proc[p].batch) \in 1..Batch

\* No record outlives its chunk or its generation, and the vectors are those
\* of the records, although foreign keys do not reach them: none is left behind
\* by a replacement, a deletion or an activation, so vector storage is bounded
\* by the chunks and the live generations, and none is missing.
NoOrphans ==
  /\ \A r \in records : r.chunk \in Chunks /\ gens[r.gen] # NoGen
  /\ vectors = records

\* A generation holds vectors of its own model only.  It takes the lock: the
\* transaction of `replace_document` does not look at the model again.
ModelsUnmixed == ~aliased => \A r \in records : r.model = gens[r.gen].model

\* One writer at a time, under whatever name it knows the database.
MutualExclusion == \A p, q \in Procs : Holding(p) /\ Holding(q) => p = q

\* One writer at a time, as long as every process took the canonical name: a
\* symlink to a database that exists is no other database.
LinksShareTheLock == ~aliased => MutualExclusion

\* When the cursor of a rebuild runs off the end, its generation has no hole:
\* what was replaced since an earlier invocation, and lies below the last
\* cursor of that one, was filled too (as long as every process took the
\* canonical name).
CursorLeavesNoHole ==
  ~aliased => \A p \in Procs : At(p, "activating") => Activatable(proc[p].gen)

\* A query vector is compared with vectors of the searcher's own model only,
\* whatever another build ingests, rebuilds and activates while the query is
\* being embedded, as long as every process that writes took the canonical
\* name: the search checks the recipe of the generation, not of its vectors.
SearchComparesOwnModel == ~aliased => \A s \in Searchers : compared[s] \subseteq {KeyOf[s]}

\* A build whose rebuild is refused because its tokenizer changed can still
\* ingest the sources again, as the refusal tells the user to.
ReingestIsTheWayOut ==
  \A p \in Procs : At(p, "rebuilding") /\ ~RebuildAccepted(p) => IngestAccepted(p)

-----------------------------------------------------------------------------
(* Refinement: the store is an atomic view of whole documents.             *)

Rankable == {r.chunk : r \in Scope \cap Neighbours}

\* Nothing is promised once a process has locked another name.
Promised == IF aliased THEN Chunks ELSE Rankable
Abstract == INSTANCE SearchView WITH view <- Promised

\* A search sees documents come, change and go one whole step at a time, and
\* sees nothing of a rebuild, of its activation, or of a crash.
ImplementsView == Abstract!Spec
=============================================================================
