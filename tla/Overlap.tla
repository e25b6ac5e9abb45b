------------------------------ MODULE Overlap ------------------------------
(***************************************************************************)
(* Preparation overlap (REE_PIPELINE_OVERLAP=1): the tokenizer that the    *)
(* preparation workers of pipeline/sync.rs share with the consumer.        *)
(*                                                                         *)
(* `TokenizerSource::get` of model/passage.rs loads the tokenizer once,    *)
(* under a mutex, and fetches its file first when the cache has none.      *)
(* What the fetch has to tell goes to the events of the caller: for the    *)
(* consumer that is standard output, for a worker the channel of results,  *)
(* which only the consumer empties.  IngestRoot is the pipeline without    *)
(* this option; here a document is only small or large.                    *)
(***************************************************************************)
EXTENDS Naturals, Sequences

CONSTANTS
  Workers,      \* preparation threads (two in the code)
  Consumer,     \* the thread that commits
  None,         \* nobody holds the mutex
  MaxJobs,      \* documents of the root
  QueueCap,     \* capacity of the channel of results (two in the code)
  Attempts      \* of a download (three in the code)

VARIABLES
  on_disk,      \* the cache has the verified file of the tokenizer
  loaded,       \* the tokenizer is in memory
  holder,       \* who holds the mutex of the TokenizerSource
  jobs,         \* documents that no worker has taken
  results,      \* the channel of results
  thread,       \* where each thread is, and the attempts of its download
  known,        \* the consumer keeps a tokenizer of its own
  stop          \* a fatal error: the loop only drains

vars == <<on_disk, loaded, holder, jobs, results, thread, known, stop>>

Threads == Workers \cup {Consumer}
At(t, place) == thread[t].at = place
Goto(t, place) == thread' = [thread EXCEPT ![t].at = place]
Room == Len(results) < QueueCap
\* Events of the consumer do not wait for the channel.
CanTell(t) == t = Consumer \/ Room
Told(t, message) == IF t = Consumer THEN results ELSE Append(results, message)

Init ==
  /\ on_disk \in BOOLEAN /\ loaded = FALSE /\ holder = None
  /\ jobs = MaxJobs /\ results = << >>
  /\ thread = [t \in Threads |-> [at |-> "idle", tries |-> 0]]
  /\ known = FALSE /\ stop = FALSE

-----------------------------------------------------------------------------
(* `TokenizerSource::get`, by a worker or by the consumer.                 *)

Release(t, place) == holder' = None /\ Goto(t, place)

\* The mutex; the tokenizer may be there already.
Take(t) ==
  /\ At(t, "locking") /\ holder = None
  /\ IF loaded THEN Goto(t, "has") /\ UNCHANGED holder
               ELSE Goto(t, "verifying") /\ holder' = t
  /\ UNCHANGED <<on_disk, loaded, jobs, results, known, stop>>

\* `ensure_artifact` finds the file, or goes on to fetch it.
Verify(t) ==
  /\ At(t, "verifying")
  /\ IF on_disk THEN loaded' = TRUE /\ Release(t, "has")
                ELSE thread' = [thread EXCEPT ![t] = [at |-> "telling", tries |-> 0]]
                     /\ UNCHANGED <<loaded, holder>>
  /\ UNCHANGED <<on_disk, jobs, results, known, stop>>

\* The events "download" and "download_retry" are emitted and flushed.
Tell(t) ==
  /\ At(t, "telling") /\ CanTell(t)
  /\ results' = Told(t, "event")
  /\ Goto(t, "fetching")
  /\ UNCHANGED <<on_disk, loaded, holder, jobs, known, stop>>

\* An attempt succeeds, fails and is retried, or was the last; a wrong checksum
\* is not retried.
Fetch(t) ==
  /\ At(t, "fetching")
  /\ \/ on_disk' = TRUE /\ loaded' = TRUE /\ Release(t, "has")
     \/ /\ thread[t].tries + 1 < Attempts
        /\ thread' = [thread EXCEPT ![t] = [at |-> "telling", tries |-> thread[t].tries + 1]]
        /\ UNCHANGED <<on_disk, loaded, holder>>
     \/ Release(t, "failed") /\ UNCHANGED <<on_disk, loaded>>
  /\ UNCHANGED <<jobs, results, known, stop>>

Get(t) == Take(t) \/ Verify(t) \/ Tell(t) \/ Fetch(t)

-----------------------------------------------------------------------------
(* The threads around it.                                                  *)

\* A worker takes a document: a small text is chunked here, a large one by the
\* consumer.  Without documents, or stopped, the worker ends.
TakeJob(w) ==
  /\ At(w, "idle")
  /\ IF jobs = 0 \/ stop
       THEN Goto(w, "done") /\ UNCHANGED jobs
       ELSE jobs' = jobs - 1 /\ (Goto(w, "locking") \/ Goto(w, "large"))
  /\ UNCHANGED <<on_disk, loaded, holder, results, known, stop>>

\* The chunks of a small text may be too many to be staged.
SendResult(w) ==
  /\ thread[w].at \in {"has", "large", "failed"} /\ Room
  /\ \/ results' = Append(results, thread[w].at)
     \/ At(w, "has") /\ results' = Append(results, "large")
  /\ Goto(w, "idle")
  /\ UNCHANGED <<on_disk, loaded, holder, jobs, known, stop>>

\* The loop over the results: an AppError stops it, a large document needs the
\* tokenizer, a chunked one joins the batch.
Receive ==
  /\ At(Consumer, "idle") /\ results # << >>
  /\ results' = Tail(results)
  /\ stop' = (stop \/ Head(results) = "failed")
  /\ Goto(Consumer, IF ~stop /\ ~known /\ Head(results) = "large" THEN "locking" ELSE "idle")
  /\ UNCHANGED <<on_disk, loaded, holder, jobs, known>>

\* `LocalEngine::tokenizer` returns: the document joins the batch, or the run
\* is over.
Chunked ==
  /\ thread[Consumer].at \in {"has", "failed"}
  /\ known' = (known \/ At(Consumer, "has")) /\ stop' = (stop \/ At(Consumer, "failed"))
  /\ Goto(Consumer, "idle")
  /\ UNCHANGED <<on_disk, loaded, holder, jobs, results>>

Closed ==
  /\ At(Consumer, "idle") /\ results = << >> /\ \A w \in Workers : At(w, "done")
  /\ Goto(Consumer, "done")
  /\ UNCHANGED <<on_disk, loaded, holder, jobs, results, known, stop>>

Worker(w) == TakeJob(w) \/ SendResult(w) \/ Get(w)
Consume == Receive \/ Chunked \/ Closed \/ Get(Consumer)

Next == Consume \/ \E w \in Workers : Worker(w)

\* Threads run, a download ends (it has timeouts), and the mutex is passed on.
FairSpec == /\ Init /\ [][Next]_vars
            /\ WF_vars(Consume) /\ SF_vars(Take(Consumer))
            /\ \A w \in Workers : WF_vars(Worker(w)) /\ SF_vars(Take(w))

-----------------------------------------------------------------------------
\* docs/speedup-v2.md: the shared lazy tokenizer can prepare documents in the
\* workers while the consumer embeds and writes.  Whatever the cache holds and
\* the downloads do, the root comes to its end.
RootEnds == <>At(Consumer, "done")
=============================================================================
