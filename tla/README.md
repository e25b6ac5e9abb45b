# A verification project for ree

`ree` ingests files, directories, URLs and Git repositories, chunks and embeds
their text with a local model, keeps chunks and vectors in one SQLite database,
and answers searches from the command line, from a stream, or over a socket.
This directory holds TLA+ models of the parts of it where order matters, the
TLC instances that check them, and proofs, checked by TLAPS, of what matters most.
Paths below are relative to the crate's `src/`.

    tlc -workers 2 -config IngestRoot_edit.cfg MCIngestRoot.tla
    tlc -workers 2 -config Parts_alone.cfg MCParts.tla
    tlapm IngestRoot_proofs.tla

`PROJECT.json` lists the components, the runs, for every definition the lines it
models, for every property a mutation of the model that breaks it, the findings,
the hazards and the theorems.

## The system

| Component | State it keeps | Operations | Talks to |
|---|---|---|---|
| Ingestion (`pipeline/sync.rs`) | flags `stop` and `traversal_ok`, two bounded channels, a batch, counts | `ingest`, `ingest_root`, discovery thread, two workers, consumer | channels; database; scheduler |
| Tokenizer source (`model/passage.rs`) | tokenizer behind a mutex | `get` | workers and consumer; download |
| Store (`storage/`) | lock file; documents, chunks, records, generations, runs, source roots | `acquire`, `open`, `register_model`, `replace_document`, `finish_root`, `remove`, `rebuild_generation`, `pending_chunks_after`, `write_vectors`, `activate` | every command, searches |
| Rebuild (`pipeline/rebuild.rs`) | cursor, generation | the loop fetch, embed, write; activation | store; scheduler |
| Search (`retrieval/mod.rs`, `storage/search.rs`) | a snapshot at a time | `search_bounded` | store; query engine |
| Supervisor (`retrieval/transport.rs`) | clients with buffers, queues and outstanding ids; one active search; one engine; stop state; exit code | `serve`: one loop in a thread | clients; engine process |
| Query engine (`retrieval/protocol.rs`, `service.rs`) | one process: a frame, a captured response | `engine_main`, `QueryService::search` | the supervisor, over a pair of sockets |
| One-shot client (`retrieval/transport.rs`) | a response, line by line | `client` | the supervisor, over its socket path |
| Socket path (`retrieval/transport.rs`) | lock file, socket, inode of it | `Endpoint::bind`, `drop` | workers that start, end and die |
| Scheduler (`model/mod.rs`, `batch.rs`, `query.rs`) | session, device, limits | initialization, calibration, `embed`, fallback | ONNX sessions, memory probe |
| External processes (`extract/external.rs`) | child, group, pipes, two threads, temporary workspace | `run_captured` | extractors, Git |
| Discovery, URLs (`input/`) | none | `prepare`, `discover`, `fetch` | ingestion |
| Git checkouts (`input/git.rs`) | one working tree for a repository, a lease | `checkout` | ingestions of several databases; Git |
| PDF extraction (`extract/pdf.rs`) | a private directory with one page image | `extract_with` | helpers |
| Other extraction, chunking | none | functions of bytes and token ranges | workers |
| Artifacts (`model/download.rs`, `model/onnx/cls.rs`) | the cache of weights and derivatives, a lock for each | both `ensure_artifact`, `provision_cpu`, `create` | processes that share the cache |
| Commands, configuration, events | none that lasts | `run`, `load`, `emit` | all |

What is hard about it:

- **Threads and channels.** The discovery thread, the workers and the consumer of
  a root share two flags and two channels; each may stop, fail or block at any
  point, and files change under all of them. Correct: no document of a file that
  exists is deleted; a root that reports success is current; the command ends.
- **Processes and crashes.** Writers exclude each other through a lock file whose
  name they compute; transactions are atomic and everything between two of them
  can be cut. Correct: one writer, one active generation that covers every chunk,
  nothing orphaned, nothing mixed between models.
- **Readers beside writers.** A search embeds its query between two snapshots.
  Correct: a query vector meets vectors of its own model only.
- **The supervisor's turn.** Frames, cancellations, engine answers, deadlines,
  hang-ups and signals meet in one loop whose steps have a fixed order. Correct:
  one terminal answer for each request, bounded output, turns, shutdown, a truthful
  exit code.
- **Retries.** Exhausted memory splits batches, broken sessions move to the CPU.
  Correct: every vector at its own place, limits nobody has to doubt, an end.
- **Processes nobody controls.** Converters start helpers, keep pipes open, do not
  end; Git is killed while it writes a tree. Correct: success is the complete output, nothing
  is left, the call ends; what is ingested of a checkout is the commit that is recorded.
- **Two processes and a search between them.** A worker and its engine exchange frames in pieces,
  either dies at any step, a response fails after some of its hits. Correct: a client prints its own
  results, in order, and takes only all of them for success; no engine outlives its worker.
- **What processes share without talking.** A socket path, a checkout, a cache. Correct: a worker that
  serves can be reached; what is recorded for a commit is of that commit; a model is the pinned one.

## The modules

**`IngestRoot`**: `ingest` and `ingest_root`. `jobs` and `results` are the two
channels; `disc` is the discovery thread (`WalkPast`, `WalkFinds`, `WalkErrs`,
`WalkStops`, `SendJob`, `SendFails`, `ReportError`, `WalkEnds` are the outcomes of
one turn of `discover`); `worker[w]` a preparation thread (`TakeJob`, `Prepare`,
`SendResult`, `WorkerEnds`); `pc`, `pending`, `fatal` and `verdict` the consumer:
one action per outcome of `process`, then `Embed` and one action per
document of `flush_documents`, then `FinishRoot`, which is
`Database::finish_root`, or `Abandon`. `Edit` changes a file at any time, `Crash`
ends the process at any time. `docs`, `runs` and `sources` are the tables;
`seen` is `last_seen_run`. The only history variable is `saw`: the contents
each file has had since the root was opened, which is what the properties measure
the outcome by. Contents are compared by hash in the code, so a hash is a content
here; a recipe is a value. Time of modification and size only make a reading fail,
which `Prepared` allows always.

**`Overlap`**: the experiment `REE_PIPELINE_OVERLAP=1`, where workers chunk
small texts with a tokenizer they share with the consumer. `holder` is the mutex of
`TokenizerSource`, `Tell` an event emitted and flushed. Without the experiment no worker
has a chunker, and `IngestRoot` is the whole pipeline.

**`Store`**: the database under several processes and builds. `proc[p].at` is
where a writing command is; `LockName` is how `WriterLock::acquire` derives the
file it locks; each transaction of `sqlite.rs` is one action. A chunk is its id, an
integer, because rebuild pages through ids in their order; a version of a document
is a set of chunk ids. `records` is `embedding_records` and `vectors` the virtual table of the vectors: the cascades
of the foreign keys take records, and `Fired` is the trigger that takes the vectors after them. `search` is a search between its two snapshots.
Coverage is decided by records, a dense search compares with vectors (`Neighbours`), so `NoOrphans` says that the two tables agree.
`compared` and `aliased` are history: the models of the vectors a query was compared
with, and whether a process ever took a name of the database other than the
canonical one.

**`SearchView`**: what the store promises to a search: a set of whole
documents that changes by one document, or by a deletion, at a time. `Store` implements
it (`ImplementsView`) with `view` as `Promised`, the chunks that have a record and its vector in the active
generation: locks, rebuilds, activation and crashes map to stuttering. Once a process has locked a name that is not the
canonical one, nothing is promised any more (`store_dangling` is about that), and `Promised` is what is stored.

**`Supervisor`**: the loop of `serve`. `phase` is where the turn is: signals,
accept, then every client (`exchange`, `parse`), `bound`, `engine`, `retire`,
`dispatch`. `ring` is the list of clients in the order of their keys, `last` the
place of the client served last. A packet is a size and the id it releases; sizes
are small numbers against `MaxResponse`, and `output_bytes` is the counter the code keeps of them. What one read of 8 KiB brings is a
member of `Bursts`: any frames, the last one perhaps partial. While a whole frame is buffered nothing more is read, as in the code. `StopsLate` and `GoesIdle` are the two
clocks of the loop. `failures` and `served` are history.

**`Scheduler`**: `Scheduler` and the `LocalEngine` that keeps it. A window is its length; `job.output`
says for every place which window its vector came from, and `Order` puts the windows in the places that the sort by length gives them: the
window at a place is the one that as many windows do not come after. Any batch may succeed,
exhaust memory or break the session, any memory probe may report pressure, any
session may fail to be created. `proven` and `exhausted` are history: the largest
batch of full windows that was seen to succeed, the smallest that failed.

**`External`**: `run_captured`. `out` and `err` are the processes that hold the
ends of the pipes; helpers are started, inherit pipes, drop them, leave the group,
write and exit as they like. Bytes are counted, with a pipe of `PipeSize` and a
limit of `Cap`. A measurement of the workspace may fail while processes still
delete files in it.

**`Endpoint`**: `Endpoint::bind` and its `drop`. `path` is the inode at the socket path, `made` the
socket a worker has bound, `identity` the inode it took for its own by looking at the path. Probing, removing, binding,
listening and looking are five actions, with the death of any worker between any two; a dead worker leaves its
socket. `Foreign` is a file that is no socket of the user.

**`Engine`**: a search over the socket from process to process: `client`, the part of `serve` that concerns the
engine, `Backend`, `engine_main`. A frame or a line passes as two halves through a pair of sockets with little
room, so that each side reads and writes in pieces (`PollWrite`, `PollRead`, `ReadFrame`, `WriteReply`). `child`
follows the engine from the fork: `Arm` is `prctl`, `NoticeParent` the comparison of the parent. `answer` is what the worker
has for the client. `WorkerDies` and `EngineDies`
may happen at any step. The choice among clients is in `Supervisor`, so one client asks at a time here.

**`Answers`**: what a search over the socket promises: results of its own request in their order, and success only when
all of them are printed. `Engine` implements it (`ImplementsAnswers`): the variables of `Answers` are those of
the client, and every step of worker, engine and sockets maps to stuttering.

**`Checkout`**: `checkout` of `input/git.rs`, and the lease until the end of `ingest_root`. A commit stands for the files that no
other commit has, and `tree` is the set of commits whose files are in the working tree: `{c}` is the tree of `c`, anything else is none. `git reset` is
five actions, with the lock of the index from `LockIndex` to `ReplaceIndex`: it removes files only the index knows, writes those of the
commit, replaces the index, moves the head. `git clean` is two, without a lock: `ReadIndex`, and `DeleteFiles` of what that index did not list. A reset that fails half-way leaves files that no
index lists, which is what the clean is for; one that is killed by its timeout leaves its lock (`ResetIsKilled`). When a process is killed its lease is free,
but the Git command it waited for is a process group of its own and goes on: the process stays in `orphans`, at the same place, and the same
actions continue it, a fetch, reset or clean alike, beside whoever has the lease next. `Extract` reads the tree as it is then.
`disturbed` is history: the processes that had placed their files when an orphan began to write, moved the head, or deleted.

**`Artifacts`**: the cache of weights, as several processes use it that select the CPU, the GPU, or the GPU with the CPU as
rescue. `Verify`, `Download`, `Retry` and `Persist` are `ensure_artifact` of `model/download.rs`; `Lock` to
`PersistDerived` that of `model/onnx/cls.rs`; `Provision`, `CreateCuda`, `CreateCpu` and `Load` the factory. A
content is the pinned one or not. A CUDA session that cannot be created, at whatever step, is replaced by the CPU in the same process (`CreateCpu`). `Damage` changes a file at any moment; `excused` is
history: the file was damaged after its last verification and before its use, which no program can notice.

**`Pdf`**: `extract_with` of `extract/pdf.rs`. A unit of text is the page it belongs to and the helper it comes from.
pdftotext may stop early, or write a form feed inside a page; a renderer may write its image, nothing, or something that is no
file, and still succeed. A helper that does both, stop early and write a form feed inside a page, so that the counts agree by
chance, is outside the model as it is outside what the code can tell.

**`Windows`**: `windows` and `from_offsets` of `chunk/mod.rs`, one pass of the loop an action.

**`Ranking`**: validation, limits of candidates, `rank` with its fusion, order and truncation, and the budget of
`hydrate_bounded`. Scores are exact where the code adds floating-point numbers: `Denominator` is a multiple of every `K + i`, and integers over it are
compared. `Sort` puts the chunks in the order that the comparison of the code gives, which has no two that are equal. The property counts, for
every result, the candidates that are better than it by the shares of their places in the two lists, which is not how the code finds it.

**`MCParts`** puts `External` and the seven modules above that share no variable side by side: a behaviour chooses
one, runs it, and leaves the others in an initial state. It is a way to give several small state spaces to one TLC run and
no claim about the system; the number of states is the sum of those of the parts. The modules
are extended, not instantiated, so their own definitions are what TLC checks and TLAPS proves; therefore
their names differ from those of `External` (`CheckoutSpec`, `stage`, `QuerySpec`, `phase`, `NoLease`).

The modules meet where the code does: `IngestRoot` and `Store` both model the
transactions of ingestion, the first with the marks and contents that
reconciliation needs and one writer, the second with chunks, vectors and generations
and several writers. `Supervisor` takes from the engine an answer or a failure; `Engine` is what
happens on the way to it, `Store` and `Ranking` the search, `Scheduler` what computes the vector of the query, and
`Artifacts` what its session is made of. `IngestRoot` lets the files of any root change at any time, a checkout's too; that they are those of the commit
is `Checkout`.

## The runs

| Run | Shows | Bounds |
|---|---|---|
| `ingest_edit` | `TypeOK`, `Accounted`, `PruneOnlyAbsent`, `SuccessIsCurrent`, `FailFastDeletesNothing` | one root of two files, two contents, one edit, two workers, channels of one place, batches of two |
| `ingest_roots` | `CompleteRunSucceeded`, `RunsAreSettled`, `SuccessIsCurrent` | a directory and a single-file root, two runs with different recipes, crashes, one worker |
| `ingest_live` | `RunTerminates` | three files, one worker, channels of one place, events |
| `overlap_cold` | `RootEnds` is violated | the code's two workers, two places, three attempts; six documents |
| `store_builds` | `ActiveCovers`, `CheckpointsFit`, `NoOrphans`, `ModelsUnmixed`, `LinksShareTheLock`, `CursorLeavesNoHole`, `SearchComparesOwnModel`, `ImplementsView` | three processes of three builds (another model, another tokenizer), one of which knows the database by a symlink, one search, two documents in two versions that share a chunk, pages of one chunk, two generations |
| `store_dangling` | `MutualExclusion` is violated | two processes that use a symlink |
| `store_tokenizer` | `ReingestIsTheWayOut` is violated | two builds that differ in their tokenizer |
| `supervisor_stream` | `OneAnswerEach`, `FailuresAreTold`, `EveryRequestEnds`, `LexicalDoesNotRenew`, `ShutdownEnds` | standard input, two ids, every kind of frame, one or two of them with a read, two frames a turn |
| `supervisor_socket` | `EngineHasConsumer`, `OutputIsBounded`, `ConnectionsTakeTurns` | three connections that use the same id, a search and its cancellation with one read, one frame a turn, responses of the largest size |
| `supervisor_exit` | `ExitZeroMeansDelivered` is violated | standard input, two responses that do not fit together |
| `scheduler_embed` | `EveryWindowEmbedded`, `ProvenEnvelope`, `ProviderIsHonest`, `EmbedEnds` | every device policy, two calls of up to four windows of two lengths, calibration up to four windows |
| `parts_alone` | `SuccessIsComplete`, `NoProcessOutlives`, `ExternalCallEnds` | a child and two helpers, a pipe and a limit of one, up to three writes |
| | `ServingIsReachable` | three workers at one path, three sockets made, a foreign file |
| | `ImplementsAnswers`, `NoProcessOutlives` | three searches with one, two and three results, the last of which meets the limit of a response; a pair of sockets with room for a line and a half |
| | `CheckoutIsTheCommit` | two processes at one checkout and what they leave running, three commits |
| | `SessionsArePinned` | two processes at one cache, two devices, two attempts, one damage |
| | `PagesAreTheirOwn` | documents of none to three pages with a limit of two, every mixture of text, blanks and nothing |
| | `WindowsCover` | every ordered sequence of up to four token ranges in four bytes, windows of two to five with an overlap of none to two |
| | `RanksAreFused` | every pair of lists of up to three chunks, limits of none to three, two budgets |
| | `TypesOK` | the type invariants of all eight |

Why these bounds suffice. The hazards of a root need a file in each of the places
a file can be lost in: one in a worker, one in a channel that is full, and
one still in the walk. Two files with two workers and three files with one give these; channels of one place
block earlier than the code's of two. Two contents and one edit let a file vanish, come back (its initial
content is free) and change between any two looks at it. Two runs are enough for a run to find what an
earlier one left, as nothing reaches further back than the marks in `docs`. A page
of one chunk puts a crash between any two vectors. Two generations are one that is active and one that is built. That an id is used again, which takes a third,
no run shows; the proofs of `Store_proofs` are for any number. Three connections are the
fewest with which one that waits can be passed over twice. The deadlock check is on, except where
callers simply stop calling: `scheduler_embed` and `parts_alone` end when their calls are
over, and `overlap_cold` when the root is.

For the parts: three workers are needed for one to hold the lock, one to be dead with its socket left, and one to wait;
a third socket replaces the second as the second replaced the first. Half a line at a time is the finest cut the code can tell,
as only newlines matter to it; a pair of sockets with room for three halves is full with a frame and a half, or a line and a half.
Three commits are needed for a clean to matter: the files of one that a failed reset has left beside the index of another, and the
one that is checked out next. A turn of `supervisor_stream` parses both frames of a read; in `supervisor_socket` the second
stays in the buffer while the first is served, and nothing is read before it is parsed. One damage is enough to
show a file that is trusted for too long, and the proof covers any number. A window of three tokens has room for one, of five for three, so four tokens give up to four windows
with every overlap that is allowed and some that are not. Range cuts inside a character are among the tokens.

Symmetry is used where a run checks no liveness: workers and the files of one directory in `ingest_edit`,
connections in `supervisor_socket`, ids in `supervisor_exit`. None of them is compared or ordered by the code
other than through the sequences that hold them.

### Fairness

- `IngestRoot`: weak fairness of each thread, as the operating system schedules them and none of them waits
  for anything but a channel. A reading, an extraction and an inference end: they have timeouts and limits
  (`External`, `Scheduler`). Crashes and edits are never forced.
- `Overlap`: the same, strong fairness for the mutex, whose waiters are served in the end, and a download
  that ends (connect and total timeouts).
- `Supervisor`: weak fairness of the turn, which never blocks (descriptors are non-blocking), and of the two clocks.
  `ShutdownEnds` needs no more. `EveryRequestEnds` and `LexicalDoesNotRenew` have as a premise, `Deadlines`, that the
  engine answers or is given up (thirty minutes) and that a client that does not read is given up (ten seconds).
- `Scheduler`: the thread goes on; an inference returns.
- `parts_alone`: of `External`, where it is the part that runs, the caller, its threads and the clock go on. Nothing is assumed of
  the processes, and nothing of the other parts, whose properties are safety.

## What is proved

Eight modules hold the proofs. Each theorem is about the specification TLC checks, for every value of its constants; what is
assumed of them is the named assumption of the module, which the runs evaluate. Every proof has the same plan: an
inductive invariant (checked with TLC before it was proved), its preservation action by action, and the properties as
consequences of it. Every safety property of the passing runs is stated by a theorem.

| Theorem | States |
|---|---|
| `IngestRoot_proofs`: `TypeCorrect`, `EveryFileAccounted`, `PruningIsSafe` | `TypeOK`, `Accounted`, `PruneOnlyAbsent` |
| `CompleteRunsSynchronize`, `VerdictsStand`, `FailFastKeepsDocuments`, `SuccessMeansCurrent` | `CompleteRunSucceeded`, `RunsAreSettled`, `FailFastDeletesNothing`, `SuccessIsCurrent` |
| `Store_proofs`: `OrphansNever`, `OneWriter`, `ModelsNeverMix`, `ActiveIsComplete` | `NoOrphans`, `LinksShareTheLock`, `ModelsUnmixed`, `ActiveCovers` |
| `PagesCanBeWritten`, `NoHoleIsLeft`, `ComparesOwnModel`, `StoreIsAView` | `CheckpointsFit`, `CursorLeavesNoHole`, `SearchComparesOwnModel`, `ImplementsView` |
| `Supervisor_proofs`: `OneTerminalAnswer`, `EngineServesSomebody`, `TellsFailures` | `OneAnswerEach`, `EngineHasConsumer`, `FailuresAreTold` |
| `TakesTurns`, `OutputBounded` | `ConnectionsTakeTurns`, `OutputIsBounded` |
| `Scheduler_proofs`: `EveryWindow`, `WithinTheProven`, `HonestProvider` | `EveryWindowEmbedded`, `ProvenEnvelope`, `ProviderIsHonest` |
| `Processes_proofs`: `KeepsThePromise`, `NoOrphans` | `ImplementsAnswers`, `NoOrphanEngine` |
| `CompleteOutput`, `NothingOutlives` | `SuccessIsComplete`, `NothingIsLeft` |
| `Sharing_proofs`: `Reachable`, `OneCommit`, `Pinned` | `ServingIsReachable`, `CheckoutIsTheCommit`, `SessionsArePinned` |
| `Content_proofs`: `OwnPages`, `Coverage`, `BestRanks` | `PagesAreTheirOwn`, `WindowsCover`, `RanksAreFused` |
| `Parts_proofs`: `PartsTypes`, `NothingStays` | `TypesOK`, `NoProcessOutlives` |

### Ingestion (`IngestRoot_proofs`)

`Accounted` is the heart: every file of the current root that the walk met is in a job, in a
worker's hands, in a result, or its document is marked, unless `stop` is set; a file it did
not meet was away, hid behind an error (then `traversal_ok` is false), or is still to come. It is not inductive
alone. `Order` adds what the ends of the threads guarantee: a worker leaves only when it is stopped or
when discovery is done and the channel of jobs is empty; while discovery can still send, a root is open; `saw` contains what the
file system holds now. `Inductive == TypeOK /\ Order /\ Accounted` is. At `FinishRoot`, where the channels are
empty and all threads gone, a file whose document is not marked can only be one that was away:
that is `PruneOnlyAbsent`. Each capacity is arbitrary, because nothing in
the argument depends on it.

`Settled` adds what the flags and the counts have to do with each other: between two roots the pipeline is empty and the flags are down
(`Flags`), a flag that is up has a reason that is counted or still on its way to the consumer, a root of this run that is over succeeded or
is counted as a failure (`Log`), and marks never run ahead of the run (`Counts`). From it a run that ends without a failure has
synchronized every root, and a verdict stays. `Mirrored` follows a document from the reading to the table: what is carried by jobs,
workers, results and the batch is of a file of this root and a content it had (`Carried`), so is each document that is marked, and it has the recipe of
the run (`Followed`). `SuccessIsCurrent` is that at the moment the root is recorded.

### Store (`Store_proofs`)

The invariant ties the lock to the places of the processes, under the premise that nobody has locked another name (`~aliased`). `Known`: whoever is past the
lock holds it, an ingestion that goes on still has the active generation it read, and a rebuild still has a generation of its own model, with a
vector for every chunk up to its cursor. `Covering`: when anything is stored, an active generation covers it. Without the premise there remain `OneActive`
and `NoOrphans`, which the transactions keep by themselves, whoever writes; of the latter the half about vectors is that each transaction
gives and takes them with the records (`VectorsFollow`).

All the other properties of the store carry the premise: the coverage in `ActiveCovers`, `CheckpointsFit`, `CursorLeavesNoHole`, `ModelsUnmixed`,
`SearchComparesOwnModel`, `LinksShareTheLock` and `ImplementsView`. It was the proof that showed that they need it. Ids of generations are used again: a process that
locked another name can read an active generation, and a rebuild beside it can activate a different one that later has the same id, without the vectors
the first one takes for granted, or of another model. These properties therefore speak of a database every process knows by its canonical name; that links to a file that
exists keep the premise is `OneWriter`. The last argument of `CheckpointsFit` is about pages: a finite set of numbers has a smallest element, and the
page is an initial piece of what is pending, so nothing under the cursor is passed over.

`StoreIsAView` is the refinement, step by step: a commit of a document and a deletion change the view, `register_model`, activation and the writes of a
building generation do not, because the generation that becomes active covers every chunk, and so did the one before.
The assumptions are `StoreAssumption`: chunk ids are positive numbers, no two documents share one, documents and their chunks are finite.

### Supervisor (`Supervisor_proofs`)

`OneAnswerEach` compares three places in which the id of a request can be. The invariant `Promises` says for each client that the ids in its queue, of the search that runs for it, and
of the packets in its output are together the outstanding ones, each once (`Good`); what every operation on a client does to it is a lemma
(accepting a frame, cancelling, failing all of a client, queueing a packet, flushing one). `retire` and `dispatch` are the places where several of them meet in one step. `Consumer` says that an active
search has an engine and a client that is connected and, when clients are retired, not dead: the phase `engine` has just given up the search of one that is. `Told` gives the exit code its memory. `Turns` says, in
terms of places on the ring, which clients `last` has passed since one that waits was served: those between it and `last`, going round. The next client is the first
after `last`, so a second service of one of them needs `last` to go past the one that waits.

`OutputIsBounded` is about two sums, of the packets in an output and of the outputs of the live clients, and has an invariant of its own, `BInv`.
`AllHeld`: the counter of a client is the sum of its packets and no more than `MaxResponse`, whatever is queued, flushed in part, or dropped. `Limited`: when
the phase `bound` is over the live clients retain no more than `MaxResponse` together, as it closes the largest until they do; the engine's answer
in the next phase adds a response at the most, hence the factor of two, and what follows adds nothing until the next turn. The sums needed
lemmas that are inductions over a sequence. They are proved without an induction theorem: a sequence of
numbers has running totals, no two sequences of totals differ (`Total` returns their last), and where a fact about totals failed there would be a first place at which it
does.

### Engine (`Processes_proofs`)

A request and a response are sequences of halves, spread over `send` and `down`, or over `reply`, `up` and `response`. `Piece(s, k, h)` says that `s` is what
follows the first `k` elements of `h`; four lemmas say what cutting, joining and passing on do to pieces. The invariant `Running` has a case for each way the running request is under
way (`Starting`, `Reading`, `Searching`, `Answering`, `Deceased`), and says that nothing of an earlier one is left between the two (`Resting`).
The only terminal line of a response is its last (`RepliesEnd`), so a response that has ended was read completely (`EndedIsWhole`), although the code looks at what it read so far only; therefore
the client is told all of a search or a failure. From there `Following` says that what is printed, what is on the wire and what the worker still has are again pieces of one response. With it
`ReceiveLine` is `PrintResult` of the next rank, `Succeed` after the last, or `Fail`. That ids are not used twice (`asked`) is what keeps the end of an abandoned search from the
client's next one.

### Scheduler (`Scheduler_proofs`)

That a call embeds every window needs `Order` to have all of them: distinct windows have distinct places, places are at most as many as windows, and an injection of a
finite set into itself is onto. After that `output` is right for every place before `pos` (`Embedded`), whatever batches are taken, halved or repeated; `Pack` has a maximum
because its batches are finite in number and a batch of one fits always. `ProvenEnvelope` needs the state of calibration (`Calibrating`): the best limits so far are those of a probe that was seen to succeed, no limit is as large as what
ran out of memory, and a probe that was split is told from one that ran at once by the number of its runs. What ran out of memory is what the code
records: a single window that does is not halved, the call goes to the CPU (`model/mod.rs:328`), and the property says nothing of it. `ProviderIsHonest` is inductive with `Provided`.

### Processes, shared files, documents

- `Processes_proofs`, `CompleteOutput` and `NothingOutlives`: a child leads its group and cannot leave it (`Leader`); an output that is sent is all there is, as nobody holds the pipe any more (`SentIsAll`); a success
  has been compared with the limit (`Checked`). It holds for any number of helpers and any behaviour of theirs.
- `Sharing_proofs`, `Reachable`: whoever is past the lock holds it (`Exclusive`), so nobody else touches the path; from `bind` to the end of service the path is what that worker made (`OwnPath`).
  `OneCommit`: whoever lives and is past the lease holds it, so the rest of what moves in the checkout are orphans (`Leased`); at most one reset, of a process or an
  orphan, has the lock of the index, and no rolled-back reset gives away the lock of another (`OneWriter`); and as long as no orphan has disturbed it, a process finds
  at each of its places the files it has placed so far: its own among them while it resets, the index at its commit when it cleans, nothing else
  in the tree from there to the end (`Owned`, for all `InPlace`). The exception is in the property: a process is `disturbed` when
  an orphan starts to write, moves the head, or deletes between its taking of the index lock and the end of its extraction.
  `Pinned`: from its verification to its use a file is good or was damaged in between, also when another process renames its copy over it
  (`Trusted`); the rescue weights are trusted once, for the first session (`TrustedOnce`).
  The assumptions are that `Nobody` is no worker and `NoLease` no process, and that a commit and an attempt are allowed at all.
- `Content_proofs`, `OwnPages`: when a page begins there is no image (`OwnImage`), so one that is there after the renderer is of this page, even
  if the renderer wrote nothing and said it succeeded; the text of the page is of this page (`OwnText`), as pdftotext and pdfinfo agree on the number of pages; the ranges
  so far take up the text but for the form feeds (`Recorded`).
  `Coverage` is for every text, window and overlap, if the ranges of the tokens lie in
  the text and neither their beginnings nor their ends go back (`WindowsAssumption`). The invariant says of the last window what the next pass relies on:
  it was full, it stopped before the last token, and its bytes reach to the next one.

- `BestRanks`: a weight is an exact quotient, and weights of later places are smaller, so the score that the fusion sums up over two lists is the sum of the two shares
  (`FusedSoFar`). The order that is sorted holds every chunk once; as the comparison is total and transitive, the chunks better than the one at a place are
  exactly those before it, so as many as its place counts from zero (`BestIsFirst`), and hydration copies a beginning of that order or fails (`RankedSoFar`). One list alone is its own
  order (`AloneIsBest`), since its weights fall.
- `Parts_proofs`: a behaviour of `MCParts` is for each of the eight modules a behaviour of its own specification (`PartsBehave`), as a step
  of one leaves the variables of the others alone; so the theorems about them hold side by side. `PartsTypes` adds the bounds to the types,
  each with the invariant that it needs: no more pages and text than the limits (`PdfBounds`), no more windows than tokens, as every window ends
  at least a token later (`WindowsBounds`), no more downloads than attempts (`ArtifactsBounds`), commits that the remote has (`CheckoutBounds`).

### Only model-checked

- Every liveness property, as fairness and `ENABLED` are beyond the proof system: `RunTerminates`, `EveryRequestEnds`, `LexicalDoesNotRenew`, `ShutdownEnds`,
  `EmbedEnds`, `ExternalCallEnds`.
- What the runs that expect a violation show.

## Findings

- `store_dangling`: the lock of a database that does not exist yet is named after the alias. If the alias is a symlink
  to a file that is still missing, the process that creates the database and the next one hold different locks
  (`storage/sqlite.rs:25`). With names that are canonical, `store_builds` shows that links share the lock.
- `store_tokenizer`: after a change of the tokenizer, `rebuild` and `ingest --force` refuse the database and each
  names the other as the way out (`pipeline/sync.rs:516`, `pipeline/rebuild.rs:15`).
- `supervisor_exit`: a stream whose last response does not fit beside what it retains is closed and exits with 0
  (`retrieval/transport.rs:667` runs before, not after, the client is dropped).
- `overlap_cold`: with the overlap experiment and an empty cache, two failed attempts to fetch the
  tokenizer, or one event behind two results, hang the ingestion: the worker holds the mutex the consumer waits
  for, and waits for the channel only the consumer empties (`model/download.rs:92`). With the tokenizer on disk the same model ends.

Three things the models show that are no disagreement with what the repository says. The lease of a checkout ends with its process, but a
`git reset` or `git clean` of that process goes on (`process_group`, `extract/external.rs:39`), and may change the files
under the next process, which then ingests a tree that is not the commit it records (`input/git.rs:105`, `input/git.rs:106`; TLC finds this
when `disturbed` is left out of `CheckoutIsTheCommit`). An index lock that a killed `git reset` leaves
makes every later ingestion of that repository fail until somebody removes it: `CheckoutIsTheCommit` holds, progress does not. And a limit halved by a moment of memory pressure is never raised again in the same
process (`model/mod.rs:283`).

## Not modelled

- Configuration (`config.rs`): parsing and precedence of options, a function of files and environment.
- URLs (`input/url.rs`): normalization and classes of addresses are functions of strings and numbers; a fetch is one blocking request.
- Events and metrics: output formats, counters of a thread. Where events block they are in `Overlap`, where they are captured in `Engine`.
- HTML, notebook and text extraction: functions of the bytes of a document, without an order to get wrong.
- The transformation of the ONNX graph and the native library: bytes in, bytes out. `Scheduler` takes any answer.
- Within modelled components: commands that only read the store; migrations from one schema to the next, one transaction each; the JSON
  of the protocol; selection of one GPU among several; filters of a search; classification of inputs and globs; command
  lines of converters.
- Connections that come and go for ever: keys only grow, so one that waits with a smaller key is served when the ring
  wraps. `ConnectionsTakeTurns` speaks of the connections that are there.

## Plan

The order follows the damage a fault would do: deletion and loss of documents (`IngestRoot`), the store and its
generations (`Store`, `SearchView`), the supervisor (`Supervisor`), inference (`Scheduler`), processes (`External`), the tokenizer
mutex (`Overlap`), the way of an answer (`Engine`, `Answers`), what processes share (`Endpoint`, `Checkout`, `Artifacts`), and the
algorithms (`Pdf`, `Windows`, `Ranking`). These models are there, and so are the proofs of the safety of all of them but `Overlap`, whose
run shows a violation. What is left:

1. The measures behind the liveness properties, as theorems that a step lowers them: what a call of `embed` has left to try, and what a root has left to read.
2. The answer that `Supervisor` takes from its engine as the outcome that `Engine` gives it: a composition of the two for several clients.
