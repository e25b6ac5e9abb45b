----------------------------- MODULE IngestRoot -----------------------------
(***************************************************************************)
(* The ingestion pipeline: `ingest` and `ingest_root` of pipeline/sync.rs. *)
(*                                                                         *)
(* A run synchronizes a list of source roots, one after the other.  For a  *)
(* root, a discovery thread walks the directory and sends every file it    *)
(* meets down a bounded channel of jobs; worker threads read, hash and     *)
(* extract a file and send the outcome down a bounded channel of results;  *)
(* the calling thread (the consumer) marks the document seen, batches what *)
(* changed, embeds a batch, commits its documents one by one, and at the   *)
(* end reconciles deletions.  Meanwhile anybody may edit the files, and    *)
(* the process may die at any step.                                        *)
(***************************************************************************)
EXTENDS Naturals, Sequences, Functions

CONSTANTS
  Roots,        \* source roots (canonical identities)
  Files,        \* documents; a file of a root is the pair (root, uri)
  RootOf,       \* [Files -> Roots], the root a file belongs to
  Single,       \* the roots of one item: a file, stdin or a URL
  Workers,      \* preparation threads (two in the code)
  Versions,     \* contents of a file, told apart by their hash
  Recipes,      \* what the recipe hash of a run may be
  Absent,       \* the content of a file that does not exist
  None,         \* no file, no root
  QueueCap,     \* capacity of each channel (two in the code)
  BatchMax,     \* documents that force a flush (32 in the code)
  Noisy,        \* whether a preparation may also send an event
  MaxRuns,      \* bound on the runs of a behaviour
  MaxEdits      \* bound on the edits of the files

ASSUME ConstantsAssumption ==
  /\ RootOf \in [Files -> Roots]
  /\ Single \subseteq Roots
  /\ \A r \in Single : \E f \in Files : \A g \in Files : RootOf[g] = r <=> g = f
  /\ Workers # {} /\ Recipes # {}
  /\ Absent \notin Versions
  /\ None \notin Files \cup Roots
  /\ QueueCap \in Nat \ {0}
  /\ BatchMax \in Nat \ {0}
  /\ Noisy \subseteq BOOLEAN
  /\ MaxRuns \in Nat
  /\ MaxEdits \in Nat

VARIABLES
  \* the file system
  fs, edits,
  \* the database: documents, runs and source_roots
  docs, runs, sources,
  \* the options of the invocation, and the inputs it has not taken yet
  opts, inputs,
  \* the pipeline of the current root: shared flags, threads and channels
  root, stop, traversal_ok, walk, disc, jobs, cache, worker, results,
  \* the consumer
  pc, fatal, pending, verdict, failed, before,
  \* history: the contents each file had since the root was opened
  saw

env      == <<fs, edits>>
store    == <<docs, runs, sources>>
command  == <<opts, inputs>>
threads  == <<walk, disc, jobs, cache, worker>>
shared   == <<root, stop, traversal_ok>>
consumer == <<pc, fatal, pending, verdict, failed, before>>
vars     == <<env, store, command, shared, threads, results, consumer, saw>>

Contents == Versions \cup {Absent}
Outcomes == {"walk_error", "failed", "fatal", "unchanged", "payload", "event"}
NoDoc    == [version |-> Absent]
Docs     == [version : Versions, recipe : Recipes, seen : Nat]
Message  == {m \in [kind : Outcomes, file : Files, version : Contents] :
               m.kind = "payload" => m.version # Absent}
Status   == {"running", "interrupted", "complete", "partial"}

run == Len(runs)
FilesOf(r) == {f \in Files : RootOf[f] = r}
OnlyFile(r) == CHOOSE f \in Files : RootOf[f] = r

Stored(f)  == docs[f] # NoDoc
\* A wrong form: the recipe is not compared.
CurrentContent(f, v) == Stored(f) /\ docs[f].version = v

\* A wrong form: the content is not compared.
CurrentRecipe(f, v) == Stored(f) /\ docs[f].recipe = opts.recipe

\* `unchanged_content` and `unchanged`: same content hash, same recipe.  The
\* metadata that `unchanged` compares too counts as part of the recipe.
Current(f, v) == /\ Stored(f)
                 /\ docs[f].version = v
                 /\ docs[f].recipe = opts.recipe

\* A wrong form: only a document that was prepared is marked.
NotSeen(table, f) == table

\* `Database::seen`: an UPDATE, which does nothing for a new document.
SeenAt(table, f) ==
  IF table[f] = NoDoc THEN table ELSE [table EXCEPT ![f].seen = run]

\* What a process starts with: no pipeline.
NoOptions  == [force |-> FALSE, fail_fast |-> FALSE, recipe |-> CHOOSE r \in Recipes : TRUE]
NoWalk     == [f \in Files |-> "unvisited"]
NoDisc     == [at |-> "done", item |-> None]
Idle       == [at |-> "idle", item |-> None, out |-> << >>]
Gone       == [at |-> "done", item |-> None, out |-> << >>]
NothingSaw == [f \in Files |-> {}]

Init ==
  /\ fs \in [Files -> Contents] /\ edits = 0
  /\ docs \in [Files -> {NoDoc} \cup [version : Versions, recipe : Recipes, seen : {0}]]
  /\ runs = << >>
  /\ sources = [r \in Roots |-> [attempted |-> 0, successful |-> 0]]
  /\ opts = NoOptions /\ inputs = {}
  /\ pc = "idle" /\ failed = 0 /\ before = 0
  /\ root = None /\ stop = FALSE /\ traversal_ok = TRUE
  /\ walk = NoWalk /\ disc = NoDisc /\ jobs = << >> /\ results = << >>
  /\ cache = {} /\ worker = [w \in Workers |-> Gone]
  /\ fatal = FALSE /\ pending = << >> /\ verdict = "vectors"
  /\ saw = NothingSaw

\* What is left of a pipeline, and of a command, when it is over.
ClosePipeline ==
  /\ root' = None /\ stop' = FALSE /\ traversal_ok' = TRUE
  /\ walk' = NoWalk /\ disc' = NoDisc /\ jobs' = << >> /\ results' = << >>
  /\ cache' = {} /\ worker' = [w \in Workers |-> Gone]
  /\ fatal' = FALSE /\ pending' = << >> /\ verdict' = "vectors"
  /\ saw' = NothingSaw
CloseCommand ==
  /\ opts' = NoOptions /\ inputs' = {}
  /\ pc' = "idle" /\ failed' = 0 /\ before' = 0

-----------------------------------------------------------------------------
(* The command: `ingest` and what lib.rs does around it.                   *)

\* A wrong form: the runs a crash left behind stay 'running'.
KeepAbandoned(log) == log
MarkAbandoned(log) ==
  [i \in DOMAIN log |-> IF log[i] = "running" THEN "interrupted" ELSE log[i]]

\* Opening the database for writing marks abandoned runs interrupted; then
\* `start_run`.  The whole input list is one set: their order is free here.
StartRun ==
  /\ pc = "idle" /\ run < MaxRuns
  /\ \E i \in (SUBSET Roots) \ {{}} : inputs' = i
  /\ \E force, fail_fast \in BOOLEAN, recipe \in Recipes :
       opts' = [force |-> force, fail_fast |-> fail_fast, recipe |-> recipe]
  /\ runs' = Append(MarkAbandoned(runs), "running")
  /\ pc' = "inputs"
  /\ UNCHANGED <<env, docs, sources, shared, threads, results, saw,
                 fatal, pending, verdict, failed, before>>

MoreInputs == inputs # {} /\ ~(opts.fail_fast /\ failed > 0)

\* `input::prepare` fails (or a glob matches nothing): a failure of the run.
InputFails ==
  /\ pc = "inputs" /\ MoreInputs
  /\ \E r \in inputs : inputs' = inputs \ {r}
  /\ failed' = failed + 1
  /\ UNCHANGED <<env, store, opts, shared, threads, results, saw,
                 pc, fatal, pending, verdict, before>>

\* The head of `ingest_root`: the root's row (`Database::root`), flags,
\* channels, and the threads it spawns.  A
\* root of one item sends it without looking at `stop`; a worker whose
\* read-only connection does not open, and every worker under --force, runs
\* without the cache.
OpenRoot ==
  /\ pc = "inputs" /\ MoreInputs
  /\ \E r \in inputs :
       /\ root' = r /\ inputs' = inputs \ {r}
       /\ sources' = [sources EXCEPT ![r].attempted = run]
       /\ IF r \in Single
            THEN /\ disc' = [at |-> "sending", item |-> OnlyFile(r)]
                 /\ walk' = [f \in Files |-> IF f = OnlyFile(r) THEN "found" ELSE "unvisited"]
            ELSE /\ disc' = [at |-> "walking", item |-> None]
                 /\ walk' = NoWalk
  /\ \E c \in SUBSET Workers : cache' = (IF opts.force THEN {} ELSE c)
  /\ before' = failed
  /\ worker' = [w \in Workers |-> Idle]
  /\ pc' = "receive"
  /\ saw' = [f \in Files |-> {fs[f]}]
  /\ UNCHANGED <<env, docs, runs, opts, stop, traversal_ok, jobs, results,
                 fatal, pending, verdict, failed>>

\* `finish_run`.  It also deletes all runs but the last hundred; a behaviour here
\* has fewer.
EndRun ==
  /\ pc = "inputs" /\ ~MoreInputs
  /\ runs' = [runs EXCEPT ![run] = IF failed = 0 THEN "complete" ELSE "partial"]
  /\ CloseCommand
  /\ UNCHANGED <<env, docs, sources, shared, threads, results, saw, fatal, pending, verdict>>

-----------------------------------------------------------------------------
(* The discovery thread.                                                   *)

Unvisited == {f \in FilesOf(root) : walk[f] = "unvisited"}
DiscoveryDone == disc.at = "done"
WorkersDone   == \A w \in Workers : worker[w].at = "done"

\* The walk reaches a place where a file is not (or is no file: a directory
\* or a link to one); `visit` is not called.
WalkPast(f) ==
  /\ disc.at = "walking" /\ f \in Unvisited
  /\ fs[f] = Absent
  /\ walk' = [walk EXCEPT ![f] = "gone"]
  /\ UNCHANGED <<env, store, command, shared, disc, jobs, cache, worker, results, consumer, saw>>

\* `visit` sees `stop` and ends the walk.
WalkStops ==
  /\ disc.at = "walking" /\ Unvisited # {} /\ stop
  /\ disc' = NoDisc
  /\ UNCHANGED <<env, store, command, shared, walk, jobs, cache, worker, results, consumer, saw>>

\* `visit` gets a file, and goes on to send it.
WalkFinds(f) ==
  /\ disc.at = "walking" /\ f \in Unvisited /\ ~stop
  /\ fs[f] # Absent
  /\ walk' = [walk EXCEPT ![f] = "found"]
  /\ disc' = [at |-> "sending", item |-> f]
  /\ UNCHANGED <<env, store, command, shared, jobs, cache, worker, results, consumer, saw>>

\* `visit` gets an error: an entry that cannot be read, a broken link, or a
\* directory whose files stay unknown.
WalkErrs ==
  /\ disc.at = "walking" /\ ~stop
  /\ \E hidden \in (SUBSET Unvisited) \ {{}} :
       /\ walk' = [f \in Files |-> IF f \in hidden THEN "error" ELSE walk[f]]
       /\ \E f \in hidden : disc' = [at |-> "reporting", item |-> f]
  /\ traversal_ok' = FALSE
  /\ UNCHANGED <<env, store, command, root, stop, jobs, cache, worker, results, consumer, saw>>

\* The result of a traversal error goes straight to the consumer.
ReportError ==
  /\ disc.at = "reporting" /\ Len(results) < QueueCap
  /\ results' = Append(results, [kind |-> "walk_error", file |-> disc.item, version |-> Absent])
  /\ disc' = [at |-> "walking", item |-> None]
  /\ UNCHANGED <<env, store, command, shared, walk, jobs, cache, worker, consumer, saw>>

AfterSend == IF root \in Single THEN "done" ELSE "walking"

SendJob ==
  /\ disc.at = "sending" /\ ~WorkersDone /\ Len(jobs) < QueueCap
  /\ jobs' = Append(jobs, disc.item)
  /\ disc' = [at |-> AfterSend, item |-> None]
  /\ UNCHANGED <<env, store, command, shared, walk, cache, worker, results, consumer, saw>>

\* Every receiver of the job channel is gone: the send fails, the walk ends.
SendFails ==
  /\ disc.at = "sending" /\ WorkersDone
  /\ disc' = NoDisc
  /\ UNCHANGED <<env, store, command, shared, walk, jobs, cache, worker, results, consumer, saw>>

WalkEnds ==
  /\ disc.at = "walking" /\ Unvisited = {}
  /\ disc' = NoDisc
  /\ UNCHANGED <<env, store, command, shared, walk, jobs, cache, worker, results, consumer, saw>>

Discovery ==
  \/ \E f \in Files : WalkPast(f) \/ WalkFinds(f)
  \/ WalkStops \/ WalkErrs \/ ReportError \/ SendJob \/ SendFails \/ WalkEnds

-----------------------------------------------------------------------------
(* A preparation worker.                                                   *)

\* `for item in jobs { if stop { break } ... }`: a stopped worker drops the
\* item it has just received.
TakeJob(w) ==
  /\ worker[w].at = "idle" /\ jobs # << >>
  /\ jobs' = Tail(jobs)
  /\ worker' = [worker EXCEPT ![w] = IF stop THEN Gone
                                     ELSE [Idle EXCEPT !.at = "preparing", !.item = Head(jobs)]]
  /\ UNCHANGED <<env, store, command, shared, walk, disc, cache, results, consumer, saw>>

\* What `prepare` may answer for a file, from the file and the row it sees:
\* the file vanished, changed under the read, is too large or does not
\* extract; the cache knows it; or it was extracted.  A chunker that cannot
\* be made is an AppError, which the consumer takes as fatal.
Prepared(w, f) ==
  {[kind |-> "failed", file |-> f, version |-> Absent]} \cup
  IF fs[f] = Absent THEN {}
  ELSE IF w \in cache /\ Current(f, fs[f])
  THEN {[kind |-> "unchanged", file |-> f, version |-> fs[f]]}
  ELSE {[kind |-> k, file |-> f, version |-> fs[f]] : k \in {"payload", "fatal"}}

\* The events a preparation writes go down the same channel, ahead of it.
\* A worker reads every single root here; of standard input and of a URL the
\* code has the bytes since `input::prepare`, before the root is opened.
Prepare(w) ==
  /\ worker[w].at = "preparing"
  /\ \E m \in Prepared(w, worker[w].item), noisy \in Noisy :
       worker' = [worker EXCEPT ![w] =
         [at |-> "sending", item |-> None,
          out |-> IF noisy THEN <<[m EXCEPT !.kind = "event"], m>> ELSE <<m>>]]
  /\ UNCHANGED <<env, store, command, shared, walk, disc, jobs, cache, results, consumer, saw>>

SendResult(w) ==
  /\ worker[w].at = "sending" /\ Len(results) < QueueCap
  /\ results' = Append(results, Head(worker[w].out))
  /\ worker' = [worker EXCEPT
       ![w].at  = IF Len(worker[w].out) = 1 THEN "idle" ELSE "sending",
       ![w].out = Tail(@)]
  /\ UNCHANGED <<env, store, command, shared, walk, disc, jobs, cache, consumer, saw>>

\* The job channel is empty and its sender gone.
WorkerEnds(w) ==
  /\ worker[w].at = "idle" /\ jobs = << >> /\ DiscoveryDone
  /\ worker' = [worker EXCEPT ![w] = Gone]
  /\ UNCHANGED <<env, store, command, shared, walk, disc, jobs, cache, results, consumer, saw>>

Worker(w) == TakeJob(w) \/ Prepare(w) \/ SendResult(w) \/ WorkerEnds(w)

-----------------------------------------------------------------------------
(* The consumer: the loop of `ingest_root` over the results.               *)

Receiving == pc = "receive" /\ results # << >>
Attentive == ~fatal /\ ~stop
Got == Head(results)

\* A wrong form: the failure is reported and not counted.
ForgetFailure == failed' = failed /\ stop' = stop

\* `counts.failed += 1`, and the check of --fail-fast at the end of the turn.
CountFailure == /\ failed' = failed + 1
                /\ stop' = (stop \/ opts.fail_fast)

GiveUp == fatal' = TRUE /\ stop' = TRUE

\* A wrong form: the consumer leaves the loop and never drains the channel.
LeaveLoop == FALSE

\* After a fatal error or a stop the loop only drains the channel.
Discard ==
  /\ Receiving /\ ~Attentive
  /\ results' = Tail(results)
  /\ UNCHANGED <<env, store, command, shared, threads, consumer, saw>>

ReceiveEvent ==
  /\ Receiving /\ Attentive /\ Got.kind = "event"
  /\ results' = Tail(results)
  /\ UNCHANGED <<env, store, command, shared, threads, consumer, saw>>

\* An error result, or an extracted text that cannot be chunked.  A traversal
\* error carries the identity of the root, which no document has.
ReceiveFailure ==
  /\ Receiving /\ Attentive
  /\ Got.kind \in {"walk_error", "failed", "payload"}
  /\ Got.kind = "payload" => opts.force \/ ~Current(Got.file, Got.version)
  /\ results' = Tail(results)
  /\ docs' = IF Got.kind = "walk_error" THEN docs ELSE SeenAt(docs, Got.file)
  /\ CountFailure
  /\ UNCHANGED <<env, runs, sources, command, root, traversal_ok, threads, saw,
                 pc, fatal, pending, verdict, before>>

ReceiveUnchanged ==
  /\ Receiving /\ Attentive
  /\ \/ Got.kind = "unchanged"
     \/ Got.kind = "payload" /\ ~opts.force /\ Current(Got.file, Got.version)
  /\ results' = Tail(results)
  /\ docs' = SeenAt(docs, Got.file)
  /\ UNCHANGED <<env, runs, sources, command, shared, threads, consumer, saw>>

\* A changed document joins the batch, which is flushed when it has BatchMax
\* documents or, sooner, when its bytes reach their limit.
ReceivePayload ==
  /\ Receiving /\ Attentive /\ Got.kind = "payload"
  /\ opts.force \/ ~Current(Got.file, Got.version)
  /\ results' = Tail(results)
  /\ docs' = SeenAt(docs, Got.file)
  /\ pending' = Append(pending, [file |-> Got.file, version |-> Got.version])
  /\ \E bulky \in BOOLEAN :
       pc' = IF Len(pending') >= BatchMax \/ bulky THEN "embed" ELSE "receive"
  /\ UNCHANGED <<env, runs, sources, command, shared, threads, saw,
                 fatal, verdict, failed, before>>

\* Any error that `process` passes on: an AppError of the preparation or the
\* chunker, a database that cannot be written, a closed standard output.
ReceiveFatal ==
  /\ Receiving /\ Attentive
  /\ results' = Tail(results)
  /\ docs' \in {docs, SeenAt(docs, Got.file)}
  /\ GiveUp
  /\ UNCHANGED <<env, runs, sources, command, root, traversal_ok, threads, saw,
                 pc, pending, verdict, failed, before>>

Receive == Discard \/ ReceiveEvent \/ ReceiveFailure \/ ReceiveUnchanged
             \/ ReceivePayload \/ ReceiveFatal

-----------------------------------------------------------------------------
(* `flush_documents` and the end of the root.                              *)

\* Every sender is gone and the channel is drained.
ChannelClosed == pc = "receive" /\ results = << >> /\ DiscoveryDone /\ WorkersDone

\* A wrong form: `flush_documents` without its check for an empty batch.
FlushNothing ==
  /\ ChannelClosed /\ ~fatal
  /\ pc' = "embed"
  /\ UNCHANGED <<env, store, command, shared, threads, results, saw,
                 fatal, pending, verdict, failed, before>>

FlushRest ==
  /\ ChannelClosed /\ ~fatal /\ pending # << >>
  /\ pc' = "embed"
  /\ UNCHANGED <<env, store, command, shared, threads, results, saw,
                 fatal, pending, verdict, failed, before>>

\* One inference over the whole batch.  An error of the input makes every
\* document be tried alone; an AppError or a wrong count is fatal.
Embed ==
  /\ pc = "embed"
  /\ \/ /\ \E v \in {"vectors", "alone"} : verdict' = v
        /\ pc' = "commit"
        /\ UNCHANGED <<stop, fatal>>
     \/ GiveUp /\ pc' = "receive" /\ UNCHANGED verdict
  /\ UNCHANGED <<env, store, command, root, traversal_ok, threads, results, saw,
                 pending, failed, before>>

Rest == Tail(pending)
AfterCommit == IF Rest = << >> THEN "receive" ELSE "commit"
VerdictLeft == IF Rest = << >> THEN "vectors" ELSE verdict
\* The check of --fail-fast that follows a flush.
StopAfter(n) == stop \/ (Rest = << >> /\ opts.fail_fast /\ n > before)

\* `replace_document` of the next document of the batch.
Commit ==
  /\ pc = "commit"
  /\ docs' = [docs EXCEPT ![Head(pending).file] =
                [version |-> Head(pending).version, recipe |-> opts.recipe, seen |-> run]]
  /\ pending' = Rest /\ pc' = AfterCommit /\ verdict' = VerdictLeft
  /\ stop' = StopAfter(failed)
  /\ UNCHANGED <<env, runs, sources, command, root, traversal_ok, threads, results, saw,
                 fatal, failed, before>>

\* The document, tried alone, fails: its old rows stay.
CommitFails ==
  /\ pc = "commit" /\ verdict = "alone"
  /\ failed' = failed + 1
  /\ pending' = Rest /\ pc' = AfterCommit /\ verdict' = VerdictLeft
  /\ stop' = StopAfter(failed')
  /\ UNCHANGED <<env, store, command, root, traversal_ok, threads, results, saw,
                 fatal, before>>

\* An AppError or a write that fails: the rest of the batch is dropped.
CommitFatal ==
  /\ pc = "commit"
  /\ GiveUp
  /\ pending' = << >> /\ pc' = "receive" /\ verdict' = "vectors"
  /\ UNCHANGED <<env, store, command, root, traversal_ok, threads, results, saw,
                 failed, before>>

\* `ingest_root` returns the fatal error, and so does `ingest`: no
\* reconciliation, and the run stays 'running'.
Abandon ==
  /\ ChannelClosed /\ fatal
  /\ CloseCommand /\ ClosePipeline
  /\ UNCHANGED <<env, store>>

\* `finish_root`: one transaction that deletes what the walk did not meet and
\* records success, each under its own condition.
\* Wrong forms: an error of the walk does not count; a stopped schedule does
\* not count.
WalkNeverErrs == ~stop
ScheduleNeverStops == traversal_ok

Complete == traversal_ok /\ ~stop
Pruned(r, n) == {f \in FilesOf(r) : Stored(f) /\ docs[f].seen # n}

FinishRoot ==
  /\ ChannelClosed /\ ~fatal /\ pending = << >>
  /\ docs' = [f \in Files |->
                IF root \notin Single /\ Complete /\ f \in Pruned(root, run)
                THEN NoDoc ELSE docs[f]]
  /\ sources' = IF Complete /\ failed = before
                THEN [sources EXCEPT ![root].successful = run] ELSE sources
  /\ pc' = "inputs" /\ ClosePipeline
  /\ UNCHANGED <<env, runs, command, failed, before>>

Consumer == Receive \/ FlushRest \/ Embed \/ Commit \/ CommitFails \/ CommitFatal
              \/ Abandon \/ FinishRoot

-----------------------------------------------------------------------------
(* The environment.                                                        *)

\* The process dies: its threads and channels go, the database stays.
Crash ==
  /\ pc # "idle"
  /\ CloseCommand /\ ClosePipeline
  /\ UNCHANGED <<env, store>>

\* Somebody creates, changes or removes a file.
Edit(f) ==
  /\ edits < MaxEdits /\ edits' = edits + 1
  /\ \E c \in Contents \ {fs[f]} :
       /\ fs' = [fs EXCEPT ![f] = c]
       /\ saw' = IF root = None THEN saw ELSE [saw EXCEPT ![f] = @ \cup {c}]
  /\ UNCHANGED <<store, command, shared, threads, results, consumer>>

Rested == pc = "idle" /\ run = MaxRuns /\ UNCHANGED vars

Command == StartRun \/ InputFails \/ OpenRoot \/ EndRun
Next == \/ Command \/ Discovery \/ \E w \in Workers : Worker(w)
        \/ Consumer \/ Crash \/ \E f \in Files : Edit(f) \/ Rested

Spec == Init /\ [][Next]_vars

\* The operating system runs every thread of the process; an inference, an
\* extraction and a write come back (the code puts deadlines on the first
\* two).  Nothing forces a crash, an edit or a new run.
Fairness == /\ WF_vars(InputFails \/ OpenRoot \/ EndRun)
            /\ WF_vars(Discovery)
            /\ \A w \in Workers : WF_vars(Worker(w))
            /\ WF_vars(Consumer)
FairSpec == Spec /\ Fairness

-----------------------------------------------------------------------------
(* Properties.                                                             *)

Options == [force : BOOLEAN, fail_fast : BOOLEAN, recipe : Recipes]
Maybe   == Files \cup {None}

WorkerStates == [at : {"idle", "preparing", "sending", "done"},
                 item : Maybe, out : Seq(Message)]

TypeStore ==
  /\ docs \in [Files -> Docs \cup {NoDoc}]
  /\ runs \in Seq(Status)
  /\ sources \in [Roots -> [attempted : Nat, successful : Nat]]
TypeCommand == opts \in Options /\ inputs \subseteq Roots
TypeShared == root \in Roots \cup {None} /\ stop \in BOOLEAN /\ traversal_ok \in BOOLEAN
TypeDiscovery ==
  /\ walk \in [Files -> {"unvisited", "found", "gone", "error"}]
  /\ disc \in [at : {"walking", "sending", "reporting", "done"}, item : Maybe]
  /\ disc.at \in {"sending", "reporting"} => disc.item # None
TypeWorkers ==
  /\ cache \subseteq Workers
  /\ worker \in [Workers -> WorkerStates]
  /\ \A w \in Workers : /\ worker[w].at = "preparing" <=> worker[w].item # None
                        /\ worker[w].at = "sending" <=> worker[w].out # << >>
TypeChannels == jobs \in Seq(Files) /\ results \in Seq(Message)
TypeConsumer ==
  /\ pc \in {"idle", "inputs", "receive", "embed", "commit"}
  /\ fatal \in BOOLEAN /\ verdict \in {"vectors", "alone"}
  /\ pending \in Seq([file : Files, version : Versions])
  /\ pc \in {"embed", "commit"} => pending # << >>
  /\ pc # "idle" => runs # << >>
  /\ failed \in Nat /\ before \in Nat
TypeFiles ==
  /\ fs \in [Files -> Contents] /\ edits \in Nat
  /\ saw \in [Files -> SUBSET Contents]

\* The type invariant.
TypeOK == /\ TypeStore /\ TypeCommand /\ TypeShared /\ TypeDiscovery
          /\ TypeWorkers /\ TypeChannels /\ TypeConsumer /\ TypeFiles

\* A file is in flight from the moment the walk sends it until the consumer
\* takes what became of it: as a job, in a worker's hands, or as a result.
Carries(m, f) == m.file = f /\ m.kind \notin {"event", "walk_error"}
InFlight(f) ==
  \/ disc.at = "sending" /\ disc.item = f
  \/ f \in Range(jobs)
  \/ \E w \in Workers : \/ worker[w].item = f
                        \/ \E m \in Range(worker[w].out) : Carries(m, f)
  \/ \E m \in Range(results) : Carries(m, f)
Marked(f) == docs[f] = NoDoc \/ docs[f].seen = run

AccountedFor(f) ==
  /\ walk[f] = "found"     => stop \/ InFlight(f) \/ Marked(f)
  /\ walk[f] = "gone"      => Absent \in saw[f]
  /\ walk[f] = "error"     => ~traversal_ok
  /\ walk[f] = "unvisited" => stop \/ ~DiscoveryDone \/ root \in Single

\* No file of the current root falls through: what the walk has met is in
\* flight, or its document is marked, unless the schedule is stopped; and what
\* it has not met was away, or hid behind an error, or is still to come.
Accounted == root # None => \A f \in FilesOf(root) : AccountedFor(f)

\* Reconciliation deletes a document only when its file really was away at
\* some moment of the walk: not when the file was met and then failed, was
\* skipped by a stopped worker, sat in a channel, or hid behind an error.
PruneOnlyAbsent ==
  [][\A f \in Files : Stored(f) /\ docs'[f] = NoDoc => Absent \in saw[f]]_vars

\* A root recorded as successful mirrors the file system: every document of
\* it holds, under the recipe of the run, a content the file had during the
\* run, and a file without a document was away at some moment of the run.
SuccessIsCurrent ==
  [][\A r \in Roots : sources'[r].successful # sources[r].successful =>
       \A f \in FilesOf(r) :
         IF docs'[f] = NoDoc THEN Absent \in saw[f]
         ELSE docs'[f].version \in saw[f] /\ docs'[f].recipe = opts.recipe]_vars

\* After a failure --fail-fast reconciles no deletion.
FailFastDeletesNothing ==
  [][opts.fail_fast /\ failed > 0 => \A f \in Files : Stored(f) => docs'[f] # NoDoc]_vars

\* A run recorded as complete synchronized every root it attempted.
CompleteRunSucceeded ==
  \A i \in 1..run : runs[i] = "complete" =>
    \A r \in Roots : sources[r].attempted = i => sources[r].successful = i

\* A run that died or failed never passes for one in progress: only the last
\* run can be 'running', and a verdict once given is never changed.
RunsAreSettled ==
  [][/\ \A i \in 1..run : runs[i] # "running" => runs'[i] = runs[i]
     /\ Len(runs') > run => \A i \in 1..run : runs'[i] # "running"]_vars

\* Whatever is stopped, fails or is fatal, no thread waits for ever on a
\* channel: the command ends.
RunTerminates == pc # "idle" ~> pc = "idle"
=============================================================================
