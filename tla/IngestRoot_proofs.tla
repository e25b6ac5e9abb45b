-------------------------- MODULE IngestRoot_proofs --------------------------
(* Proofs about the ingestion pipeline, for every value of the constants. *)
EXTENDS IngestRoot, SequenceTheorems, TLAPS

USE ConstantsAssumption DEF run

-----------------------------------------------------------------------------
(* The one file of a root of one item.                                     *)

\* The file `OpenRoot` sends for a single root belongs to it.
LEMMA OnlyFileIsIt ==
  ASSUME NEW r \in Single
  PROVE  /\ OnlyFile(r) \in Files
         /\ FilesOf(r) = {OnlyFile(r)}
  BY DEF OnlyFile, FilesOf

LEMMA IdleTypes ==
  /\ Idle \in WorkerStates /\ Gone \in WorkerStates
  /\ Idle.at = "idle" /\ Idle.item = None /\ Idle.out = << >>
  /\ Gone.at = "done" /\ Gone.item = None /\ Gone.out = << >>
  BY DEF Idle, Gone, Maybe, WorkerStates

LEMMA Marking ==
  ASSUME NEW table \in [Files -> Docs \cup {NoDoc}], NEW f \in Files, runs \in Seq(Status)
  PROVE  SeenAt(table, f) \in [Files -> Docs \cup {NoDoc}]
  BY DEF SeenAt, Docs, NoDoc, Status

\* Marking abandoned runs keeps the log a log of the same length.
LEMMA Abandoning ==
  ASSUME NEW log \in Seq(Status)
  PROVE  /\ MarkAbandoned(log) \in Seq(Status)
         /\ Len(MarkAbandoned(log)) = Len(log)
         /\ \A i \in 1..Len(log) :
              MarkAbandoned(log)[i] = IF log[i] = "running" THEN "interrupted" ELSE log[i]
  <1>1. MarkAbandoned(log) \in [1..Len(log) -> Status]
    BY DEF MarkAbandoned, Status
  <1>2. Len(log) \in Nat /\ DOMAIN log = 1..Len(log)
    OBVIOUS
  <1>3. MarkAbandoned(log) \in Seq(Status)
    BY <1>1, <1>2, SeqDef
  <1>4. \A i \in 1..Len(log) :
          MarkAbandoned(log)[i] = IF log[i] = "running" THEN "interrupted" ELSE log[i]
    BY <1>2 DEF MarkAbandoned
  <1>5. QED
    BY <1>1, <1>2, <1>3, <1>4

-----------------------------------------------------------------------------
(* Type correctness.                                                       *)

LEMMA InitType == Init => TypeOK
  <1> SUFFICES ASSUME Init PROVE TypeOK
    OBVIOUS
  <1> USE DEF Init
  <1>1. TypeStore
    <2>1. docs \in [Files -> Docs \cup {NoDoc}]
      <3>1. [version : Versions, recipe : Recipes, seen : {0}] \subseteq Docs
        BY DEF Docs
      <3>2. QED
        BY <3>1
    <2>2. runs \in Seq(Status)
      BY EmptySeq
    <2>2a. sources \in [Roots -> [attempted : Nat, successful : Nat]]
      OBVIOUS
    <2>3. QED
      BY <2>1, <2>2, <2>2a DEF TypeStore
  <1>2. TypeCommand /\ TypeShared /\ TypeFiles
    BY DEF TypeCommand, TypeShared, TypeFiles, NoOptions, Options, Contents, NothingSaw
  <1>3. TypeDiscovery
    BY DEF TypeDiscovery, NoWalk, NoDisc, Maybe
  <1>4. TypeWorkers
    BY IdleTypes DEF TypeWorkers
  <1>5. TypeChannels /\ TypeConsumer
    BY EmptySeq DEF TypeChannels, TypeConsumer
  <1>6. QED
    BY <1>1, <1>2, <1>3, <1>4, <1>5 DEF TypeOK

\* What the end of a pipeline or of a command leaves is well typed.
LEMMA ClosedType ==
  ASSUME ClosePipeline
  PROVE  TypeShared' /\ TypeDiscovery' /\ TypeWorkers' /\ TypeChannels'
  <1>1. TypeShared' /\ TypeChannels'
    BY EmptySeq DEF ClosePipeline, TypeShared, TypeChannels
  <1>2. TypeDiscovery'
    BY DEF ClosePipeline, TypeDiscovery, NoWalk, NoDisc, Maybe
  <1>3. TypeWorkers'
    BY IdleTypes DEF ClosePipeline, TypeWorkers
  <1>4. QED
    BY <1>1, <1>2, <1>3

LEMMA CommandType == TypeOK /\ Command => TypeOK'
  <1> SUFFICES ASSUME TypeOK, Command PROVE TypeOK'
    OBVIOUS
  <1> USE DEF TypeOK
  <1>1. CASE StartRun
    <2> USE <1>1 DEF StartRun
    <2>1. TypeStore'
      <3>1. MarkAbandoned(runs) \in Seq(Status)
        BY Abandoning DEF TypeStore
      <3>2. "running" \in Status
        BY DEF Status
      <3>3. QED
        BY <3>1, <3>2, AppendProperties DEF TypeStore
    <2>2. TypeCommand'
      BY DEF TypeCommand, Options
    <2>3. TypeShared' /\ TypeDiscovery' /\ TypeWorkers' /\ TypeChannels'
      BY DEF shared, threads, TypeShared, TypeDiscovery, TypeWorkers, TypeChannels
    <2>4. TypeConsumer' /\ TypeFiles'
      BY DEF env, TypeConsumer, TypeFiles
    <2>5. QED
      BY <2>1, <2>2, <2>3, <2>4
  <1>2. CASE InputFails
    <2> USE <1>2 DEF InputFails
    <2>1. TypeStore' /\ TypeShared' /\ TypeDiscovery' /\ TypeWorkers' /\ TypeChannels' /\ TypeFiles'
      BY DEF env, store, shared, threads, TypeStore, TypeShared, TypeDiscovery, TypeWorkers,
             TypeChannels, TypeFiles
    <2>2. TypeCommand' /\ TypeConsumer'
      BY DEF store, TypeCommand, TypeConsumer
    <2>3. QED
      BY <2>1, <2>2
  <1>3. CASE OpenRoot
    <2> USE <1>3 DEF OpenRoot
    <2> PICK r \in inputs :
          /\ root' = r /\ inputs' = inputs \ {r}
          /\ sources' = [sources EXCEPT ![r].attempted = run]
          /\ IF r \in Single
               THEN /\ disc' = [at |-> "sending", item |-> OnlyFile(r)]
                    /\ walk' = [f \in Files |-> IF f = OnlyFile(r) THEN "found" ELSE "unvisited"]
               ELSE /\ disc' = [at |-> "walking", item |-> None]
                    /\ walk' = NoWalk
      OBVIOUS
    <2>1. TypeStore'
      <3>1. run \in Nat /\ r \in Roots
        BY DEF TypeStore, TypeCommand
      <3>2. sources' \in [Roots -> [attempted : Nat, successful : Nat]]
        BY <3>1 DEF TypeStore
      <3>3. QED
        BY <3>2 DEF TypeStore
    <2>2. TypeCommand' /\ TypeShared'
      BY DEF TypeCommand, TypeShared
    <2>3. TypeDiscovery'
      BY OnlyFileIsIt DEF TypeDiscovery, NoWalk, Maybe
    <2>4. TypeWorkers'
      BY IdleTypes DEF TypeWorkers
    <2>5. TypeChannels' /\ TypeConsumer'
      BY DEF TypeChannels, TypeConsumer
    <2>6. TypeFiles'
      BY DEF env, TypeFiles
    <2>7. QED
      BY <2>1, <2>2, <2>3, <2>4, <2>5, <2>6
  <1>4. CASE EndRun
    <2> USE <1>4 DEF EndRun, CloseCommand
    <2>1. TypeStore'
      <3> DEFINE verdicts == IF failed = 0 THEN "complete" ELSE "partial"
      <3>1. verdicts \in Status
        BY DEF Status
      <3>2. run \in 1..Len(runs)
        BY EmptySeq DEF TypeStore, TypeConsumer
      <3>3. runs' \in Seq(Status)
        BY <3>1, <3>2, ExceptSeq DEF TypeStore
      <3>4. QED
        BY <3>3 DEF TypeStore
    <2>2. TypeCommand'
      BY DEF TypeCommand, NoOptions, Options
    <2>3. TypeShared' /\ TypeDiscovery' /\ TypeWorkers' /\ TypeChannels'
      BY DEF shared, threads, TypeShared, TypeDiscovery, TypeWorkers, TypeChannels
    <2>4. TypeConsumer' /\ TypeFiles'
      BY DEF env, TypeConsumer, TypeFiles
    <2>5. QED
      BY <2>1, <2>2, <2>3, <2>4
  <1>5. QED
    BY <1>1, <1>2, <1>3, <1>4 DEF Command

\* What the threads leave to the consumer stays well typed.
LEMMA OthersType ==
  ASSUME TypeOK, UNCHANGED <<env, store, command, consumer, saw>>
  PROVE  TypeStore' /\ TypeCommand' /\ TypeConsumer' /\ TypeFiles'
  BY DEF TypeOK, env, store, command, consumer, TypeStore, TypeCommand, TypeConsumer, TypeFiles

LEMMA DiscoveryType == TypeOK /\ Discovery => TypeOK'
  <1> SUFFICES ASSUME TypeOK, Discovery PROVE TypeOK'
    OBVIOUS
  <1> USE DEF TypeOK
  <1> DEFINE Action(f) == \/ WalkPast(f) \/ WalkFinds(f)
                          \/ WalkStops \/ WalkErrs \/ ReportError \/ SendJob
                          \/ SendFails \/ WalkEnds
  <1>1. UNCHANGED <<env, store, command, consumer, saw, root, stop, worker, cache>>
    BY DEF Discovery, WalkPast, WalkFinds, WalkStops, WalkErrs, ReportError, SendJob,
           SendFails, WalkEnds, shared
  <1>2. TypeStore' /\ TypeCommand' /\ TypeConsumer' /\ TypeFiles'
    BY <1>1, OthersType
  <1>3. TypeWorkers'
    BY <1>1 DEF TypeWorkers
  <1>4. TypeShared'
    BY DEF Discovery, WalkPast, WalkFinds, WalkStops, WalkErrs, ReportError, SendJob,
           SendFails, WalkEnds, shared, TypeShared
  <1>5. TypeDiscovery' /\ TypeChannels'
    <2>1. ASSUME NEW f \in Files, WalkPast(f) \/ WalkFinds(f)
          PROVE  TypeDiscovery' /\ TypeChannels'
      BY <2>1 DEF WalkPast, WalkFinds, TypeDiscovery, TypeChannels, Maybe
    <2>2. CASE WalkStops \/ SendFails \/ WalkEnds
      BY <2>2 DEF WalkStops, SendFails, WalkEnds, NoDisc, TypeDiscovery, TypeChannels, Maybe
    <2>3. CASE WalkErrs
      BY <2>3 DEF WalkErrs, Unvisited, FilesOf, TypeDiscovery, TypeChannels, Maybe
    <2>4. CASE ReportError
      <3> USE <2>4 DEF ReportError
      <3>1. [kind |-> "walk_error", file |-> disc.item, version |-> Absent] \in Message
        BY DEF Message, Outcomes, Contents, TypeDiscovery, Maybe
      <3>2. TypeChannels'
        BY <3>1, AppendProperties DEF TypeChannels
      <3>3. TypeDiscovery'
        BY DEF TypeDiscovery, Maybe
      <3>4. QED
        BY <3>2, <3>3
    <2>5. CASE SendJob
      <3> USE <2>5 DEF SendJob
      <3>1. TypeChannels'
        BY AppendProperties DEF TypeChannels, TypeDiscovery, Maybe
      <3>2. TypeDiscovery'
        BY DEF TypeDiscovery, Maybe, AfterSend
      <3>3. QED
        BY <3>1, <3>2
    <2>6. QED
      BY <2>1, <2>2, <2>3, <2>4, <2>5 DEF Discovery
  <1>6. QED
    BY <1>2, <1>3, <1>4, <1>5

\* What a preparation answers is a message, and no event.
LEMMA PreparedType ==
  ASSUME TypeOK, NEW w \in Workers, NEW f \in Files, NEW m \in Prepared(w, f)
  PROVE  m \in Message /\ m.file = f /\ m.kind \notin {"event", "walk_error"}
  BY DEF Prepared, Message, Outcomes, Contents, TypeOK, TypeFiles

\* The last message of a worker leaves it with nothing to send.
LEMMA LastOut ==
  ASSUME NEW S, NEW s \in Seq(S), s # << >>
  PROVE  (Tail(s) = << >>) <=> (Len(s) = 1)
  <1>1. Tail(s) \in Seq(S) /\ Len(Tail(s)) = Len(s) - 1
    BY HeadTailProperties
  <1>2. (Tail(s) = << >>) <=> (Len(Tail(s)) = 0)
    BY <1>1, EmptySeq
  <1>3. QED
    BY <1>1, <1>2, LenProperties

LEMMA ReplaceWorker ==
  ASSUME TypeWorkers, NEW w \in Workers, NEW new \in WorkerStates,
         new.at = "preparing" <=> new.item # None,
         new.at = "sending" <=> new.out # << >>,
         worker' = [worker EXCEPT ![w] = new], cache' = cache
  PROVE  TypeWorkers'
  BY DEF TypeWorkers

LEMMA WorkerType ==
  ASSUME TypeOK, NEW w \in Workers, Worker(w)
  PROVE  TypeOK'
  <1> USE DEF TypeOK
  <1>1. /\ UNCHANGED <<env, store, command, consumer, saw>>
        /\ UNCHANGED <<shared, walk, disc, cache>>
    BY DEF Worker, TakeJob, Prepare, SendResult, WorkerEnds
  <1>2. TypeStore' /\ TypeCommand' /\ TypeConsumer' /\ TypeFiles'
    BY <1>1, OthersType
  <1>3. TypeShared' /\ TypeDiscovery'
    BY <1>1 DEF shared, TypeShared, TypeDiscovery
  <1>4. TypeWorkers' /\ TypeChannels'
    <2>1. CASE TakeJob(w)
      <3> USE <2>1 DEF TakeJob
      <3>1. Head(jobs) \in Files /\ Tail(jobs) \in Seq(Files)
        BY HeadTailProperties DEF TypeChannels
      <3>2. TypeChannels'
        BY <3>1 DEF TypeChannels
      <3> DEFINE new == IF stop THEN Gone
                        ELSE [Idle EXCEPT !.at = "preparing", !.item = Head(jobs)]
      <3>3. /\ new \in WorkerStates
            /\ new.at = "preparing" <=> new.item # None
            /\ new.at = "sending" <=> new.out # << >>
        BY <3>1, IdleTypes DEF WorkerStates, Maybe
      <3>4. QED
        BY <3>2, <3>3 DEF TypeWorkers
    <2>2. CASE Prepare(w)
      <3> USE <2>2 DEF Prepare
      <3> PICK m \in Prepared(w, worker[w].item), noisy \in Noisy :
            worker' = [worker EXCEPT ![w] =
              [at |-> "sending", item |-> None,
               out |-> IF noisy THEN <<[m EXCEPT !.kind = "event"], m>> ELSE <<m>>]]
        OBVIOUS
      <3> DEFINE out == IF noisy THEN <<[m EXCEPT !.kind = "event"], m>> ELSE <<m>>
      <3>1. worker[w].item \in Files
        BY DEF TypeWorkers, WorkerStates, Maybe
      <3>2. m \in Message /\ [m EXCEPT !.kind = "event"] \in Message
        BY <3>1, PreparedType DEF Message, Outcomes
      <3>3. out \in Seq(Message) /\ out # << >>
        BY <3>2
      <3>4. TypeWorkers'
        <4> DEFINE new == [at |-> "sending", item |-> None, out |-> out]
        <4>1. new \in WorkerStates /\ new.at = "sending" /\ new.item = None /\ new.out # << >>
          BY <3>3 DEF WorkerStates, Maybe
        <4>2. worker' = [worker EXCEPT ![w] = new]
          OBVIOUS
        <4> HIDE DEF new
        <4>3. QED
          BY <4>1, <4>2 DEF TypeWorkers
      <3>5. QED
        BY <3>4 DEF TypeChannels
    <2>3. CASE SendResult(w)
      <3> USE <2>3 DEF SendResult
      <3> DEFINE out == worker[w].out
      <3>1. out \in Seq(Message) /\ out # << >> /\ worker[w].item = None
        BY DEF TypeWorkers, WorkerStates
      <3>2. Head(out) \in Message /\ Tail(out) \in Seq(Message) /\ Len(Tail(out)) = Len(out) - 1
        BY <3>1, HeadTailProperties
      <3>3. (Tail(out) = << >>) <=> (Len(out) = 1)
        BY <3>1, LastOut
      <3>4. TypeChannels'
        BY <3>2, AppendProperties DEF TypeChannels
      <3> DEFINE new == [worker[w] EXCEPT !.at = IF Len(out) = 1 THEN "idle" ELSE "sending",
                                          !.out = Tail(out)]
      <3>5. worker' = [worker EXCEPT ![w] = new]
        BY DEF TypeWorkers, WorkerStates
      <3>6. /\ new = [at |-> IF Len(out) = 1 THEN "idle" ELSE "sending", item |-> None,
                      out |-> Tail(out)]
        BY <3>1 DEF TypeWorkers, WorkerStates
      <3> HIDE DEF new, out
      <3>6a. new \in WorkerStates
        BY <3>2, <3>6 DEF WorkerStates, Maybe
      <3>6b. new.at \in {"idle", "sending"} /\ new.item = None /\ new.out = Tail(out)
        BY <3>6
      <3>6c. new.at = "sending" <=> Len(out) # 1
        BY <3>6
      <3>6d. new.at = "sending" <=> new.out # << >>
        BY <3>6b, <3>6c, <3>3
      <3>7. TypeWorkers'
        BY <3>5, <3>6a, <3>6b, <3>6d, <1>1, ReplaceWorker
      <3>8. QED
        BY <3>4, <3>7
    <2>4. CASE WorkerEnds(w)
      BY <2>4, IdleTypes DEF WorkerEnds, TypeWorkers, TypeChannels
    <2>5. QED
      BY <2>1, <2>2, <2>3, <2>4 DEF Worker
  <1>5. QED
    BY <1>2, <1>3, <1>4

LEMMA ReceiveType == TypeOK /\ Receive => TypeOK'
  <1> SUFFICES ASSUME TypeOK, Receive PROVE TypeOK'
    OBVIOUS
  <1> USE DEF TypeOK
  <1>1. /\ UNCHANGED <<env, runs, sources, command, root, traversal_ok, threads, saw>>
        /\ UNCHANGED <<verdict, before>>
        /\ Receiving /\ results' = Tail(results)
    BY DEF Receive, Discard, ReceiveEvent, ReceiveFailure, ReceiveUnchanged, ReceivePayload,
           ReceiveFatal, store, shared, consumer
  <1>2. Got \in Message /\ Tail(results) \in Seq(Message)
    BY <1>1, HeadTailProperties DEF TypeChannels, Receiving, Got
  <1>3. SeenAt(docs, Got.file) \in [Files -> Docs \cup {NoDoc}]
    BY <1>2, Marking DEF TypeStore, Message
  <1>4. TypeStore'
    BY <1>1, <1>3 DEF Receive, Discard, ReceiveEvent, ReceiveFailure, ReceiveUnchanged,
       ReceivePayload, ReceiveFatal, store, TypeStore
  <1>5. TypeCommand' /\ TypeDiscovery' /\ TypeWorkers' /\ TypeChannels' /\ TypeFiles'
    BY <1>1, <1>2 DEF env, command, threads, TypeCommand, TypeDiscovery, TypeWorkers,
       TypeChannels, TypeFiles
  <1>6. TypeShared'
    BY <1>1 DEF Receive, Discard, ReceiveEvent, ReceiveFailure, ReceiveUnchanged,
       ReceivePayload, ReceiveFatal, shared, CountFailure, GiveUp, TypeShared, TypeCommand,
       Options
  <1>7. TypeConsumer'
    <2>1. CASE ReceivePayload
      <3> USE <2>1 DEF ReceivePayload
      <3>1. docs[Got.file] \in Docs \cup {NoDoc} /\ Got.file \in Files
        BY <1>2 DEF TypeStore, Message
      <3>2. [file |-> Got.file, version |-> Got.version] \in [file : Files, version : Versions]
        BY <1>2 DEF Message, Contents
      <3>3. pending' \in Seq([file : Files, version : Versions]) /\ pending' # << >>
        BY <3>2, AppendProperties DEF TypeConsumer
      <3>4. QED
        BY <1>1, <3>3 DEF TypeConsumer, Receiving
    <2>2. CASE Discard \/ ReceiveEvent \/ ReceiveUnchanged
      BY <1>1, <2>2 DEF Discard, ReceiveEvent, ReceiveUnchanged, consumer, TypeConsumer
    <2>3. CASE ReceiveFailure
      BY <1>1, <2>3 DEF ReceiveFailure, CountFailure, TypeConsumer
    <2>4. CASE ReceiveFatal
      BY <1>1, <2>4 DEF ReceiveFatal, GiveUp, TypeConsumer
    <2>5. QED
      BY <2>1, <2>2, <2>3, <2>4 DEF Receive
  <1>8. QED
    BY <1>4, <1>5, <1>6, <1>7

\* A batch loses its first document; an empty rest ends the flush.
LEMMA RestType ==
  ASSUME TypeConsumer, pc = "commit"
  PROVE  /\ Head(pending) \in [file : Files, version : Versions]
         /\ Rest \in Seq([file : Files, version : Versions])
         /\ AfterCommit \in {"receive", "commit"}
         /\ AfterCommit = "commit" => Rest # << >>
         /\ VerdictLeft \in {"vectors", "alone"}
  <1>1. Head(pending) \in [file : Files, version : Versions]
        /\ Rest \in Seq([file : Files, version : Versions])
    BY HeadTailProperties DEF TypeConsumer, Rest
  <1>2. QED
    BY <1>1 DEF AfterCommit, VerdictLeft, TypeConsumer

LEMMA FlushType ==
  ASSUME TypeOK, FlushRest \/ Embed \/ Commit \/ CommitFails \/ CommitFatal
  PROVE  TypeOK'
  <1> USE DEF TypeOK
  <1>1. /\ UNCHANGED <<env, runs, sources, command, root, traversal_ok, threads, results, saw>>
        /\ UNCHANGED before
    BY DEF FlushRest, Embed, Commit, CommitFails, CommitFatal, store, shared
  <1>2. TypeCommand' /\ TypeDiscovery' /\ TypeWorkers' /\ TypeChannels' /\ TypeFiles'
    BY <1>1 DEF env, command, threads, TypeCommand, TypeDiscovery, TypeWorkers,
       TypeChannels, TypeFiles
  <1>3. TypeShared'
    BY <1>1 DEF FlushRest, Embed, Commit, CommitFails, CommitFatal, shared, GiveUp, StopAfter,
       TypeShared, TypeCommand, Options
  <1>4. TypeStore' /\ TypeConsumer'
    <2>1. CASE FlushRest
      BY <1>1, <2>1 DEF FlushRest, ChannelClosed, store, TypeStore, TypeConsumer
    <2>2. CASE Embed
      <3>1. TypeStore'
        BY <2>2 DEF Embed, store, TypeStore
      <3>2. pending # << >> \/ pc' = "receive"
        BY <2>2 DEF Embed, TypeConsumer
      <3>3. QED
        BY <1>1, <2>2, <3>1, <3>2 DEF Embed, GiveUp, TypeConsumer
    <2>3. CASE Commit
      <3> USE <2>3 DEF Commit
      <3>1. [version |-> Head(pending).version, recipe |-> opts.recipe, seen |-> run] \in Docs
        BY RestType DEF Docs, TypeCommand, Options, TypeStore
      <3>2. TypeStore'
        BY <1>1, <3>1, RestType DEF TypeStore
      <3>3. TypeConsumer'
        BY <1>1, RestType DEF TypeConsumer
      <3>4. QED
        BY <3>2, <3>3
    <2>4. CASE CommitFails
      BY <1>1, <2>4, RestType DEF CommitFails, store, TypeStore, TypeConsumer
    <2>5. CASE CommitFatal
      <3>1. TypeStore'
        BY <2>5 DEF CommitFatal, store, TypeStore
      <3>2. pending' \in Seq([file : Files, version : Versions])
        BY <2>5, EmptySeq DEF CommitFatal
      <3>3. QED
        BY <1>1, <2>5, <3>1, <3>2 DEF CommitFatal, GiveUp, TypeConsumer
    <2>6. QED
      BY <2>1, <2>2, <2>3, <2>4, <2>5
  <1>5. QED
    BY <1>2, <1>3, <1>4

\* The end of the command, by an error or by a crash.
LEMMA ClosingType ==
  ASSUME TypeOK, CloseCommand, ClosePipeline, UNCHANGED <<env, store>>
  PROVE  TypeOK'
  <1> USE DEF TypeOK
  <1>1. TypeStore' /\ TypeCommand'
    BY DEF CloseCommand, store, TypeStore, TypeCommand, NoOptions, Options
  <1>2. TypeConsumer'
    BY EmptySeq DEF CloseCommand, ClosePipeline, store, TypeConsumer
  <1>3. TypeFiles'
    BY DEF env, ClosePipeline, NothingSaw, TypeFiles
  <1>4. QED
    BY <1>1, <1>2, <1>3, ClosedType

LEMMA FinishType == TypeOK /\ FinishRoot => TypeOK'
  <1> SUFFICES ASSUME TypeOK, FinishRoot PROVE TypeOK'
    OBVIOUS
  <1> USE DEF TypeOK, FinishRoot
  <1>1. TypeStore'
    <2>1. docs' \in [Files -> Docs \cup {NoDoc}] /\ runs' \in Seq(Status)
      BY DEF TypeStore
    <2>2. run \in Nat
      BY DEF TypeStore
    <2>3. sources' \in [Roots -> [attempted : Nat, successful : Nat]]
      <3>1. sources \in [Roots -> [attempted : Nat, successful : Nat]]
        BY DEF TypeStore
      <3>2. \A r : [sources EXCEPT ![r].successful = run]
                     \in [Roots -> [attempted : Nat, successful : Nat]]
        BY <3>1, <2>2
      <3>3. QED
        BY <3>1, <3>2
    <2>4. QED
      BY <2>1, <2>3 DEF TypeStore
  <1>2. TypeCommand'
    BY DEF command, TypeCommand
  <1>3. TypeConsumer'
    BY EmptySeq DEF ClosePipeline, TypeConsumer, ChannelClosed
  <1>4. TypeFiles'
    BY DEF env, ClosePipeline, NothingSaw, TypeFiles
  <1>5. QED
    BY <1>1, <1>2, <1>3, <1>4, ClosedType

LEMMA EditType ==
  ASSUME TypeOK, NEW f \in Files, Edit(f)
  PROVE  TypeOK'
  <1> USE DEF TypeOK, Edit
  <1>1. TypeStore' /\ TypeCommand' /\ TypeConsumer'
    BY DEF store, command, consumer, TypeStore, TypeCommand, TypeConsumer
  <1>2. TypeShared' /\ TypeDiscovery' /\ TypeWorkers' /\ TypeChannels'
    BY DEF shared, threads, TypeShared, TypeDiscovery, TypeWorkers, TypeChannels
  <1>3. TypeFiles'
    BY DEF TypeFiles
  <1>4. QED
    BY <1>1, <1>2, <1>3

\* Every step keeps the types.
LEMMA NextType == TypeOK /\ [Next]_vars => TypeOK'
  <1> SUFFICES ASSUME TypeOK, [Next]_vars PROVE TypeOK'
    OBVIOUS
  <1>1. CASE Command
    BY <1>1, CommandType
  <1>2. CASE Discovery
    BY <1>2, DiscoveryType
  <1>3. ASSUME NEW w \in Workers, Worker(w) PROVE TypeOK'
    BY <1>3, WorkerType
  <1>4. CASE Consumer
    <2>1. CASE Receive
      BY <2>1, ReceiveType
    <2>2. CASE FlushRest \/ Embed \/ Commit \/ CommitFails \/ CommitFatal
      BY <2>2, FlushType
    <2>3. CASE Abandon
      BY <2>3, ClosingType DEF Abandon
    <2>4. CASE FinishRoot
      BY <2>4, FinishType
    <2>5. QED
      BY <1>4, <2>1, <2>2, <2>3, <2>4 DEF Consumer
  <1>5. CASE Crash
    BY <1>5, ClosingType DEF Crash
  <1>6. ASSUME NEW f \in Files, Edit(f) PROVE TypeOK'
    BY <1>6, EditType
  <1>7. CASE UNCHANGED vars
    <2>1. TypeStore' /\ TypeCommand' /\ TypeShared'
      BY <1>7 DEF TypeOK, vars, store, command, shared, TypeStore, TypeCommand, TypeShared
    <2>2. TypeDiscovery' /\ TypeWorkers' /\ TypeChannels'
      BY <1>7 DEF TypeOK, vars, threads, TypeDiscovery, TypeWorkers, TypeChannels
    <2>3. TypeConsumer' /\ TypeFiles'
      BY <1>7 DEF TypeOK, vars, store, env, consumer, TypeConsumer, TypeFiles
    <2>4. QED
      BY <2>1, <2>2, <2>3 DEF TypeOK
  <1>8. QED
    BY <1>1, <1>2, <1>3, <1>4, <1>5, <1>6, <1>7 DEF Next, Rested

\* The type invariant holds in every state of every behaviour, whatever the
\* roots, files, workers, capacities and the number of runs.
THEOREM TypeCorrect == Spec => []TypeOK
  <1>1. QED
    BY InitType, NextType, PTL DEF Spec

-----------------------------------------------------------------------------
(* Reconciliation.  The inductive invariant says where every file of the   *)
(* root is: `Accounted` is not inductive alone, because it needs to know   *)
(* that a channel loses its last receiver only after a stop, that a fatal  *)
(* error stops the schedule, and that the history holds the present.       *)

StopIsHeard == fatal => stop

WorkersLeaveLast ==
  \A w \in Workers : worker[w].at = "done" =>
    root = None \/ stop \/ (DiscoveryDone /\ jobs = << >>)

OpenWhileRunning == pc \in {"idle", "inputs"} <=> root = None
SawThePresent == root # None => \A f \in Files : fs[f] \in saw[f]

Order == StopIsHeard /\ WorkersLeaveLast /\ OpenWhileRunning /\ SawThePresent
Inductive == TypeOK /\ Order /\ Accounted

LEMMA InitInductive == Init => Inductive
  <1> SUFFICES ASSUME Init PROVE Inductive
    OBVIOUS
  <1>1. TypeOK
    BY InitType
  <1>2. Order /\ Accounted
    BY DEF Init, Order, StopIsHeard, WorkersLeaveLast, OpenWhileRunning, SawThePresent, Accounted
  <1>3. QED
    BY <1>1, <1>2 DEF Inductive

LEMMA RangeOfAppend ==
  ASSUME NEW S, NEW s \in Seq(S), NEW e \in S
  PROVE  Range(Append(s, e)) = Range(s) \cup {e}
  <1> DEFINE t == Append(s, e)
  <1>2. t \in Seq(S) /\ Len(t) = Len(s) + 1 /\ t[Len(s) + 1] = e /\ Len(s) \in Nat
        /\ \A i \in 1..Len(s) : t[i] = s[i]
    BY AppendProperties, LenProperties
  <1> HIDE DEF t
  <1>3. Range(s) = {s[i] : i \in 1..Len(s)}
    BY RangeEquality
  <1>4. Range(t) = {t[i] : i \in 1..Len(t)}
    BY <1>2, RangeEquality
  <1>5. Range(t) = Range(s) \cup {e}
    BY <1>2, <1>3, <1>4
  <1>6. QED
    BY <1>5 DEF t

LEMMA RangeOfTail ==
  ASSUME NEW S, NEW s \in Seq(S), s # << >>
  PROVE  Range(s) = {Head(s)} \cup Range(Tail(s))
  <1> DEFINE t == Tail(s)
             h == Head(s)
  <1>1. t \in Seq(S) /\ Len(t) = Len(s) - 1 /\ \A i \in 1..Len(t) : t[i] = s[i + 1]
    BY HeadTailProperties
  <1>2. Len(s) \in Nat \ {0} /\ h = s[1]
    BY EmptySeq
  <1> HIDE DEF t, h
  <1>3. Range(s) = {s[i] : i \in 1..Len(s)}
    BY RangeEquality
  <1>4. Range(t) = {t[i] : i \in 1..Len(t)}
    BY <1>1, RangeEquality
  <1>5. \A i \in 1..Len(s) : i = 1 \/ (i - 1 \in 1..Len(t) /\ t[i - 1] = s[i])
    BY <1>1, <1>2
  <1>6. Range(s) \subseteq {h} \cup Range(t)
    BY <1>2, <1>3, <1>4, <1>5
  <1>7. Range(t) \subseteq Range(s)
    BY <1>1, <1>2, <1>3, <1>4
  <1>8. h \in Range(s)
    BY <1>2, <1>3
  <1>9. QED
    BY <1>6, <1>7, <1>8 DEF t, h

LEMMA RangeOfNothing == Range(<< >>) = {}
  BY DEF Range

\* When the pipeline closes there is no file to account for.
LEMMA ClosedInductive ==
  ASSUME ClosePipeline, pc' \in {"idle", "inputs"}
  PROVE  Order' /\ Accounted'
  BY DEF ClosePipeline, Order, StopIsHeard, WorkersLeaveLast, OpenWhileRunning, SawThePresent,
         Accounted

LEMMA CommandInductive == Inductive /\ Command => Order' /\ Accounted'
  <1> SUFFICES ASSUME Inductive, Command PROVE Order' /\ Accounted'
    OBVIOUS
  <1> USE DEF Inductive
  <1>1. CASE StartRun \/ InputFails \/ EndRun
    <2>1. /\ UNCHANGED <<shared, threads, results, saw, fatal, env>>
          /\ pc \in {"idle", "inputs"} /\ pc' \in {"idle", "inputs"}
      BY <1>1 DEF StartRun, InputFails, EndRun, CloseCommand
    <2>2. root = None /\ root' = None
      BY <2>1 DEF Order, OpenWhileRunning, shared
    <2>3. QED
      BY <2>1, <2>2 DEF shared, Order, StopIsHeard, WorkersLeaveLast, OpenWhileRunning,
         SawThePresent, Accounted
  <1>2. CASE OpenRoot
    <2> PICK r \in inputs :
          /\ root' = r
          /\ IF r \in Single
               THEN /\ disc' = [at |-> "sending", item |-> OnlyFile(r)]
                    /\ walk' = [f \in Files |-> IF f = OnlyFile(r) THEN "found" ELSE "unvisited"]
               ELSE /\ disc' = [at |-> "walking", item |-> None]
                    /\ walk' = NoWalk
      BY <1>2 DEF OpenRoot
    <2>1. r \in Roots /\ r # None
      BY DEF TypeOK, TypeCommand
    <2>2. Order'
      BY <1>2, <2>1, IdleTypes DEF OpenRoot, Order, StopIsHeard, WorkersLeaveLast,
         OpenWhileRunning, SawThePresent, env
    <2>3. disc'.at # "done"
      OBVIOUS
    <2>4. ASSUME NEW f \in Files PROVE AccountedFor(f)'
      <3>1. CASE r \in Single
        BY <2>1, <2>3, <3>1 DEF AccountedFor, InFlight, DiscoveryDone
      <3>2. CASE r \notin Single
        BY <2>1, <2>3, <3>2 DEF AccountedFor, DiscoveryDone, NoWalk
      <3>3. QED
        BY <3>1, <3>2
    <2>5. QED
      BY <2>2, <2>4 DEF Accounted, FilesOf
  <1>3. QED
    BY <1>1, <1>2 DEF Command

\* Nothing of an open root gets lost in the discovery thread.
LEMMA DiscoveryCarries ==
  ASSUME Inductive, Discovery, NEW f \in Files, InFlight(f)
  PROVE  stop \/ root = None \/ InFlight(f)'
  <1> USE DEF Inductive
  <1>0. (\E w \in Workers : worker[w].at = "done") => root = None \/ stop
    BY DEF Discovery, WalkPast, WalkFinds, WalkStops, WalkErrs, ReportError, SendJob,
           SendFails, WalkEnds, Order, WorkersLeaveLast, DiscoveryDone
  <1>1. ASSUME NEW g \in Files, WalkPast(g) \/ WalkFinds(g)
        PROVE  InFlight(f) => InFlight(f)'
    BY <1>1 DEF WalkPast, WalkFinds, InFlight
  <1>2. CASE WalkStops \/ WalkErrs \/ WalkEnds
    BY <1>2 DEF WalkStops, WalkErrs, WalkEnds, InFlight
  <1>3. CASE SendFails
    BY <1>0, <1>3 DEF SendFails, WorkersDone
  <1>4. CASE ReportError
    <2> DEFINE m == [kind |-> "walk_error", file |-> disc.item, version |-> Absent]
    <2>1. m \in Message
      BY <1>4 DEF ReportError, Message, Outcomes, Contents, TypeOK, TypeDiscovery, Maybe
    <2> HIDE DEF m
    <2>2. Range(Append(results, m)) = Range(results) \cup {m}
      BY <2>1, RangeOfAppend DEF TypeOK, TypeChannels
    <2>3. results' = Append(results, m) /\ disc.at = "reporting" /\ UNCHANGED <<jobs, worker>>
      BY <1>4 DEF ReportError, m
    <2>4. QED
      BY <2>2, <2>3 DEF InFlight
  <1>5. CASE SendJob
    <2>1. disc.item \in Files
      BY <1>5 DEF SendJob, TypeOK, TypeDiscovery, Maybe
    <2>2. Range(Append(jobs, disc.item)) = Range(jobs) \cup {disc.item}
      BY <2>1, RangeOfAppend DEF TypeOK, TypeChannels
    <2>3. QED
      BY <1>5, <2>2 DEF SendJob, InFlight
  <1>6. QED
    BY <1>1, <1>2, <1>3, <1>4, <1>5 DEF Discovery

LEMMA DiscoveryInductive == Inductive /\ Discovery => Order' /\ Accounted'
  <1> SUFFICES ASSUME Inductive, Discovery PROVE Order' /\ Accounted'
    OBVIOUS
  <1> USE DEF Inductive
  <1>1. UNCHANGED <<env, store, command, consumer, saw, root, stop, worker, cache>>
    BY DEF Discovery, WalkPast, WalkFinds, WalkStops, WalkErrs, ReportError, SendJob,
           SendFails, WalkEnds, shared
  <1>2. disc.at # "done"
    BY DEF Discovery, WalkPast, WalkFinds, WalkStops, WalkErrs, ReportError, SendJob,
           SendFails, WalkEnds
  <1>3. (\E w \in Workers : worker[w].at = "done") => root = None \/ stop
    BY <1>2 DEF Order, WorkersLeaveLast, DiscoveryDone
  <1>4. Order'
    BY <1>1, <1>3 DEF Order, StopIsHeard, WorkersLeaveLast, OpenWhileRunning, SawThePresent,
       env, consumer
  <1>5. ASSUME NEW f \in Files PROVE InFlight(f) => stop \/ root = None \/ InFlight(f)'
    BY DiscoveryCarries
  <1>6. ASSUME NEW f \in FilesOf(root), root # None, AccountedFor(f)
        PROVE  AccountedFor(f)'
    <2>1. f \in Files /\ (Marked(f) <=> Marked(f)')
      BY <1>1 DEF FilesOf, Marked, store
    <2>2. fs[f] \in saw[f]
      BY <1>6, <2>1 DEF Order, SawThePresent
    <2>3. InFlight(f) => stop \/ InFlight(f)'
      BY <1>5, <1>6, <2>1
    <2>4. traversal_ok' => traversal_ok
      BY DEF Discovery, WalkPast, WalkFinds, WalkStops, WalkErrs, ReportError, SendJob,
             SendFails, WalkEnds, shared
    <2>5. CASE walk'[f] = walk[f]
      <3>1. CASE walk[f] = "unvisited"
        <4>1. ~DiscoveryDone' \/ stop \/ root \in Single
          <5>1. CASE WalkEnds
            BY <3>1, <5>1 DEF WalkEnds, Unvisited
          <5>2. CASE SendFails
            BY <1>3, <1>6, <5>2 DEF SendFails, WorkersDone
          <5>3. CASE WalkStops
            BY <5>3 DEF WalkStops
          <5>4. CASE SendJob
            BY <5>4 DEF SendJob, AfterSend, DiscoveryDone
          <5>5. CASE ReportError \/ WalkErrs
            BY <5>5 DEF ReportError, WalkErrs, DiscoveryDone
          <5>6. ASSUME NEW g \in Files, WalkPast(g) \/ WalkFinds(g) PROVE ~DiscoveryDone'
            BY <5>6 DEF WalkPast, WalkFinds, DiscoveryDone
          <5>7. QED
            BY <5>1, <5>2, <5>3, <5>4, <5>5, <5>6 DEF Discovery
        <4>2. QED
          BY <1>1, <2>5, <3>1, <4>1 DEF AccountedFor
      <3>2. QED
        BY <1>1, <1>6, <2>1, <2>3, <2>4, <2>5, <3>1 DEF AccountedFor
    <2>6. CASE walk'[f] # walk[f]
      <3>1. ASSUME NEW g \in Files, WalkPast(g) PROVE AccountedFor(f)'
        <4>1. f = g /\ walk'[f] = "gone" /\ fs[f] = Absent
          BY <2>1, <2>6, <3>1 DEF WalkPast, TypeOK, TypeDiscovery
        <4>2. QED
          BY <1>1, <2>2, <4>1 DEF AccountedFor
      <3>2. ASSUME NEW g \in Files, WalkFinds(g) PROVE AccountedFor(f)'
        <4>1. f = g /\ walk'[f] = "found" /\ disc' = [at |-> "sending", item |-> f]
          BY <2>1, <2>6, <3>2 DEF WalkFinds, TypeOK, TypeDiscovery
        <4>2. QED
          BY <4>1 DEF AccountedFor, InFlight
      <3>3. CASE WalkErrs
        <4>1. walk'[f] = "error" /\ traversal_ok' = FALSE
          BY <2>1, <2>6, <3>3 DEF WalkErrs
        <4>2. QED
          BY <4>1 DEF AccountedFor
      <3>4. QED
        BY <2>6, <3>1, <3>2, <3>3 DEF Discovery, WalkStops, ReportError, SendJob, SendFails, WalkEnds
    <2>7. QED
      BY <2>5, <2>6
  <1>7. QED
    BY <1>1, <1>4, <1>6 DEF Accounted, FilesOf

\* What is marked stays marked while the store is, and a walk that does not
\* move leaves only the files in flight to follow.
LEMMA Follow ==
  ASSUME Accounted, root' = root,
         UNCHANGED <<runs, walk, disc, traversal_ok>>,
         stop => stop',
         \A f \in Files : saw[f] \subseteq saw'[f],
         \A f \in Files : Marked(f) => Marked(f)',
         \A f \in Files : root # None /\ InFlight(f) => stop' \/ InFlight(f)' \/ Marked(f)'
  PROVE  Accounted'
  BY DEF Accounted, AccountedFor, FilesOf, DiscoveryDone

\* Nothing gets lost in the hands of a worker, unless it drops its job.
LEMMA WorkerCarries ==
  ASSUME Inductive, NEW w \in Workers, Worker(w), NEW f \in Files, InFlight(f)
  PROVE  stop \/ InFlight(f)'
  <1> USE DEF Inductive
  <1>a. UNCHANGED disc
    BY DEF Worker, TakeJob, Prepare, SendResult, WorkerEnds
  <1>b. \A v \in Workers : worker[v] \in WorkerStates
    BY DEF TypeOK, TypeWorkers
  <1>c. \A v \in Workers : v # w => worker'[v] = worker[v]
    BY <1>b DEF Worker, TakeJob, Prepare, SendResult, WorkerEnds, TypeOK, TypeWorkers
  <1>1. CASE TakeJob(w)
    <2>1. jobs \in Seq(Files) /\ jobs # << >> /\ jobs' = Tail(jobs) /\ results' = results
          /\ worker[w].at = "idle" /\ worker[w].item = None /\ worker[w].out = << >>
      BY <1>1, <1>b DEF TakeJob, TypeOK, TypeChannels, TypeWorkers
    <2>2. Range(jobs) = {Head(jobs)} \cup Range(Tail(jobs))
      BY <2>1, RangeOfTail
    <2>3. stop \/ worker'[w].item = Head(jobs)
      BY <1>1, IdleTypes DEF TakeJob, TypeOK, TypeWorkers, Idle
    <2>4. worker[w].item # f /\ Range(worker[w].out) = {}
      BY <2>1, RangeOfNothing
    <2>5. QED
      BY <1>a, <1>c, <2>1, <2>2, <2>3, <2>4 DEF InFlight
  <1>2. CASE Prepare(w)
    <2>1. worker[w].item \in Files /\ worker[w].out = << >> /\ UNCHANGED <<jobs, results>>
      BY <1>2 DEF Prepare, TypeOK, TypeWorkers, WorkerStates, Maybe
    <2> PICK m \in Prepared(w, worker[w].item), noisy \in Noisy :
          worker' = [worker EXCEPT ![w] =
            [at |-> "sending", item |-> None,
             out |-> IF noisy THEN <<[m EXCEPT !.kind = "event"], m>> ELSE <<m>>]]
      BY <1>2 DEF Prepare
    <2>2. Carries(m, worker[w].item)
      BY <2>1, PreparedType DEF Carries
    <2>3. m \in Range(<<m>>) /\ m \in Range(<<[m EXCEPT !.kind = "event"], m>>)
      <3>1. <<m>>[1] = m /\ 1 \in DOMAIN <<m>>
        OBVIOUS
      <3>2. <<[m EXCEPT !.kind = "event"], m>>[2] = m
            /\ 2 \in DOMAIN <<[m EXCEPT !.kind = "event"], m>>
        OBVIOUS
      <3>3. QED
        BY <3>1, <3>2 DEF Range
    <2>4. m \in Range(worker'[w].out)
      BY <2>3 DEF TypeOK, TypeWorkers
    <2>5. Range(worker[w].out) = {}
      BY <2>1, RangeOfNothing
    <2>6. QED
      BY <1>a, <1>c, <2>1, <2>2, <2>4, <2>5 DEF InFlight
  <1>3. CASE SendResult(w)
    <2>1. worker[w].out \in Seq(Message) /\ worker[w].out # << >> /\ worker[w].item = None
      BY <1>3, <1>b DEF SendResult, TypeOK, TypeWorkers, WorkerStates
    <2>2. Range(worker[w].out) = {Head(worker[w].out)} \cup Range(Tail(worker[w].out))
      BY <2>1, RangeOfTail
    <2>3. Head(worker[w].out) \in Message
      BY <2>1, HeadTailProperties
    <2>4. Range(Append(results, Head(worker[w].out))) = Range(results) \cup {Head(worker[w].out)}
      BY <2>3, RangeOfAppend DEF TypeOK, TypeChannels
    <2>5. /\ worker'[w].out = Tail(worker[w].out)
          /\ results' = Append(results, Head(worker[w].out)) /\ jobs' = jobs
      BY <1>3 DEF SendResult, TypeOK, TypeWorkers, WorkerStates
    <2>6. QED
      BY <1>a, <1>c, <2>1, <2>2, <2>4, <2>5 DEF InFlight
  <1>4. CASE WorkerEnds(w)
    <2>1. worker[w].item = None /\ Range(worker[w].out) = {} /\ UNCHANGED <<jobs, results>>
      BY <1>4, RangeOfNothing DEF WorkerEnds, TypeOK, TypeWorkers
    <2>2. QED
      BY <1>a, <1>c, <2>1 DEF InFlight
  <1>5. QED
    BY <1>1, <1>2, <1>3, <1>4 DEF Worker

LEMMA WorkerInductive ==
  ASSUME Inductive, NEW w \in Workers, Worker(w)
  PROVE  Order' /\ Accounted'
  <1> USE DEF Inductive
  <1>1. /\ UNCHANGED <<env, store, command, consumer, saw>>
        /\ UNCHANGED <<shared, walk, disc, cache>>
    BY DEF Worker, TakeJob, Prepare, SendResult, WorkerEnds
  <1>2. TypeOK'
    BY WorkerType
  <1>3. \A v \in Workers : worker[v] \in WorkerStates
    BY DEF TypeOK, TypeWorkers
  <1>4. \A v \in Workers : v # w => worker'[v] = worker[v]
    BY <1>3 DEF Worker, TakeJob, Prepare, SendResult, WorkerEnds, TypeOK, TypeWorkers
  <1>5. jobs' = jobs \/ (jobs # << >> /\ worker[w].at = "idle")
    BY DEF Worker, TakeJob, Prepare, SendResult, WorkerEnds
  <1>6. worker'[w].at = "done" => stop \/ (DiscoveryDone /\ jobs' = << >>)
    <2>1. CASE TakeJob(w)
      BY <2>1, IdleTypes DEF TakeJob, TypeOK, TypeWorkers, Idle
    <2>2. CASE Prepare(w)
      BY <2>2 DEF Prepare, TypeOK, TypeWorkers
    <2>3. CASE SendResult(w)
      BY <2>3 DEF SendResult, TypeOK, TypeWorkers, WorkerStates
    <2>4. CASE WorkerEnds(w)
      BY <2>4 DEF WorkerEnds
    <2>5. QED
      BY <2>1, <2>2, <2>3, <2>4 DEF Worker
  <1>7. Order'
    <2>1. WorkersLeaveLast'
      BY <1>1, <1>4, <1>5, <1>6 DEF Order, WorkersLeaveLast, DiscoveryDone, shared
    <2>2. QED
      BY <1>1, <2>1 DEF Order, StopIsHeard, OpenWhileRunning, SawThePresent, env, consumer, shared
  <1>8. ASSUME NEW f \in Files, InFlight(f) PROVE stop \/ InFlight(f)'
    BY <1>8, WorkerCarries
  <1>9. QED
    BY <1>1, <1>7, <1>8, Follow DEF shared, store, Marked

\* A document is never the absent one, and marking removes none.
LEMMA MarkingMarks ==
  ASSUME TypeOK, NEW f \in Files, docs' = SeenAt(docs, f), runs' = runs
  PROVE  /\ Marked(f)'
         /\ \A g \in Files : Marked(g) => Marked(g)'
         /\ \A g \in Files : Stored(g) => docs'[g] # NoDoc
  <1>1. \A g \in Files : docs[g] \in Docs \cup {NoDoc}
    BY DEF TypeOK, TypeStore
  <1>2. \A d \in Docs : [d EXCEPT !.seen = run] \in Docs
                        /\ [d EXCEPT !.seen = run].seen = run
    <2>1. run \in Nat
      BY DEF TypeOK, TypeStore
    <2> HIDE DEF run
    <2>2. QED
      BY <2>1 DEF Docs
  <1>3. NoDoc \notin Docs
    BY DEF Docs, NoDoc
  <1>4. \A g \in Files : g # f => docs'[g] = docs[g]
    BY DEF SeenAt, TypeOK, TypeStore
  <1>5. CASE docs[f] = NoDoc
    <2>1. docs' = docs
      BY <1>5 DEF SeenAt
    <2>2. QED
      BY <1>5, <2>1 DEF Marked, Stored
  <1>6. CASE docs[f] # NoDoc
    <2>1. docs'[f] = [docs[f] EXCEPT !.seen = run]
      BY <1>6 DEF SeenAt, TypeOK, TypeStore
    <2>2. docs'[f] \in Docs /\ docs'[f].seen = run
      BY <1>1, <1>2, <1>6, <2>1
    <2>3. QED
      BY <1>3, <1>4, <2>2 DEF Marked, Stored
  <1>7. QED
    BY <1>5, <1>6

LEMMA ReceiveInductive == Inductive /\ Receive => Order' /\ Accounted'
  <1> SUFFICES ASSUME Inductive, Receive PROVE Order' /\ Accounted'
    OBVIOUS
  <1> USE DEF Inductive
  <1>1. /\ UNCHANGED <<env, runs, sources, command, root, traversal_ok, threads, saw>>
        /\ Receiving /\ results' = Tail(results)
    BY DEF Receive, Discard, ReceiveEvent, ReceiveFailure, ReceiveUnchanged, ReceivePayload,
           ReceiveFatal, store, shared
  <1>2. Got \in Message /\ Range(results) = {Got} \cup Range(results')
    BY <1>1, HeadTailProperties, RangeOfTail DEF TypeOK, TypeChannels, Receiving, Got
  <1>3. /\ pc = "receive" /\ pc' \in {"receive", "embed"}
        /\ stop => stop'
        /\ fatal' => fatal \/ stop'
    <2>1. CASE Discard \/ ReceiveEvent \/ ReceiveUnchanged
      BY <1>1, <2>1 DEF Discard, ReceiveEvent, ReceiveUnchanged, shared, consumer, Receiving
    <2>2. CASE ReceiveFailure
      BY <1>1, <2>2 DEF ReceiveFailure, CountFailure, Receiving
    <2>3. CASE ReceivePayload
      BY <1>1, <2>3 DEF ReceivePayload, shared, Receiving
    <2>4. CASE ReceiveFatal
      BY <1>1, <2>4 DEF ReceiveFatal, GiveUp, Receiving
    <2>5. QED
      BY <2>1, <2>2, <2>3, <2>4 DEF Receive
  <1>4. Order'
    BY <1>1, <1>3 DEF Order, StopIsHeard, WorkersLeaveLast, OpenWhileRunning, SawThePresent,
       env, threads, DiscoveryDone
  <1>5. docs' \in {docs, SeenAt(docs, Got.file)} /\ Got.file \in Files
    BY <1>2 DEF Receive, Discard, ReceiveEvent, ReceiveFailure, ReceiveUnchanged, ReceivePayload,
       ReceiveFatal, store, Message
  <1>6. \A f \in Files : Marked(f) => Marked(f)'
    BY <1>1, <1>5, MarkingMarks DEF Marked
  <1>7. ASSUME NEW f \in Files, Carries(Got, f) PROVE stop' \/ Marked(f)'
    <2>1. Got.file = f /\ Got.kind \notin {"event", "walk_error"}
      BY <1>7 DEF Carries
    <2>2. stop' \/ docs' = SeenAt(docs, f)
      <3>1. CASE Discard
        BY <3>1 DEF Discard, Attentive, Order, StopIsHeard, shared
      <3>2. CASE ReceiveFatal
        BY <3>2 DEF ReceiveFatal, GiveUp
      <3>3. CASE ReceiveEvent \/ ReceiveFailure \/ ReceiveUnchanged \/ ReceivePayload
        BY <2>1, <3>3 DEF ReceiveEvent, ReceiveFailure, ReceiveUnchanged, ReceivePayload
      <3>4. QED
        BY <3>1, <3>2, <3>3 DEF Receive
    <2>3. QED
      BY <1>1, <2>2, MarkingMarks
  <1>8. ASSUME NEW f \in Files, InFlight(f) PROVE InFlight(f)' \/ Carries(Got, f)
    BY <1>1, <1>2, <1>8 DEF InFlight, threads
  <1>9. QED
    BY <1>1, <1>3, <1>4, <1>6, <1>7, <1>8, Follow DEF threads

LEMMA FlushInductive ==
  ASSUME Inductive, FlushRest \/ Embed \/ Commit \/ CommitFails \/ CommitFatal
  PROVE  Order' /\ Accounted'
  <1> USE DEF Inductive
  <1>1. /\ UNCHANGED <<env, runs, sources, command, root, traversal_ok, threads, results, saw>>
    BY DEF FlushRest, Embed, Commit, CommitFails, CommitFatal, store, shared
  <1>2. /\ stop => stop'
        /\ fatal' => fatal \/ stop'
        /\ pc \notin {"idle", "inputs"} /\ pc' \notin {"idle", "inputs"}
    <2>1. CASE FlushRest
      BY <2>1 DEF FlushRest, ChannelClosed, shared
    <2>2. CASE Embed
      BY <2>2 DEF Embed, GiveUp
    <2>3. CASE Commit \/ CommitFails
      <3>1. /\ pc = "commit" /\ pc' = AfterCommit /\ fatal' = fatal
            /\ stop' = StopAfter(failed) \/ stop' = StopAfter(failed')
        BY <2>3 DEF Commit, CommitFails
      <3>2. stop => StopAfter(failed) /\ StopAfter(failed')
        BY DEF StopAfter
      <3>3. QED
        BY <3>1, <3>2 DEF AfterCommit
    <2>4. CASE CommitFatal
      BY <2>4 DEF CommitFatal, GiveUp
    <2>5. QED
      BY <2>1, <2>2, <2>3, <2>4
  <1>3. Order'
    BY <1>1, <1>2 DEF Order, StopIsHeard, WorkersLeaveLast, OpenWhileRunning, SawThePresent,
       env, threads, DiscoveryDone
  <1>4. ASSUME NEW f \in Files, Marked(f) PROVE Marked(f)'
    <2>1. CASE Commit
      <3>1. docs'[f] = docs[f] \/ docs'[f] = [version |-> Head(pending).version,
                                              recipe |-> opts.recipe, seen |-> run]
        BY <2>1 DEF Commit, TypeOK, TypeStore
      <3>2. QED
        BY <1>1, <1>4, <3>1 DEF Marked
    <2>2. CASE docs' = docs
      BY <1>1, <1>4, <2>2 DEF Marked
    <2>3. QED
      BY <2>1, <2>2 DEF FlushRest, Embed, CommitFails, CommitFatal, store
  <1>5. \A f \in Files : InFlight(f) => InFlight(f)'
    BY <1>1 DEF InFlight, threads
  <1>6. QED
    BY <1>1, <1>2, <1>3, <1>4, <1>5, Follow DEF threads

LEMMA EditInductive ==
  ASSUME Inductive, NEW g \in Files, Edit(g)
  PROVE  Order' /\ Accounted'
  <1> USE DEF Inductive
  <1>1. UNCHANGED <<store, command, shared, threads, results, consumer>>
    BY DEF Edit
  <1>2. \A f \in Files : saw[f] \subseteq saw'[f]
    BY DEF Edit, TypeOK, TypeFiles
  <1>3. SawThePresent'
    BY <1>1 DEF Edit, Order, SawThePresent, TypeOK, TypeFiles, shared
  <1>4. Order'
    BY <1>1, <1>3 DEF Order, StopIsHeard, WorkersLeaveLast, OpenWhileRunning, shared, threads,
       consumer, DiscoveryDone
  <1>5. \A f \in Files : (InFlight(f) => InFlight(f)') /\ (Marked(f) => Marked(f)')
    BY <1>1 DEF InFlight, Marked, threads, store
  <1>6. QED
    BY <1>1, <1>2, <1>4, <1>5, Follow DEF shared, threads, store

LEMMA NextInductive == Inductive /\ [Next]_vars => Inductive'
  <1> SUFFICES ASSUME Inductive, [Next]_vars PROVE Inductive'
    OBVIOUS
  <1>1. TypeOK'
    BY NextType DEF Inductive
  <1>2. Order' /\ Accounted'
    <2>1. CASE Command
      BY <2>1, CommandInductive
    <2>2. CASE Discovery
      BY <2>2, DiscoveryInductive
    <2>3. ASSUME NEW w \in Workers, Worker(w) PROVE Order' /\ Accounted'
      BY <2>3, WorkerInductive
    <2>4. CASE Consumer
      <3>1. CASE Receive
        BY <3>1, ReceiveInductive
      <3>2. CASE FlushRest \/ Embed \/ Commit \/ CommitFails \/ CommitFatal
        BY <3>2, FlushInductive
      <3>3. CASE Abandon \/ FinishRoot
        BY <3>3, ClosedInductive DEF Abandon, FinishRoot, CloseCommand
      <3>4. QED
        BY <2>4, <3>1, <3>2, <3>3 DEF Consumer
    <2>5. CASE Crash
      BY <2>5, ClosedInductive DEF Crash, CloseCommand
    <2>6. ASSUME NEW f \in Files, Edit(f) PROVE Order' /\ Accounted'
      BY <2>6, EditInductive
    <2>7. CASE UNCHANGED vars
      BY <2>7 DEF vars, env, store, command, shared, threads, consumer, Inductive, Order,
         StopIsHeard, WorkersLeaveLast, OpenWhileRunning, SawThePresent, Accounted, AccountedFor,
         FilesOf, InFlight, Marked, DiscoveryDone
    <2>8. QED
      BY <2>1, <2>2, <2>3, <2>4, <2>5, <2>6, <2>7 DEF Next, Rested
  <1>3. QED
    BY <1>1, <1>2 DEF Inductive

\* Every file of the root is accounted for in every state, whatever the
\* number of files, workers and slots of the channels.
THEOREM EveryFileAccounted == Spec => []Accounted
  <1>1. Inductive => Accounted
    BY DEF Inductive
  <1>2. QED
    BY InitInductive, NextInductive, <1>1, PTL DEF Spec

-----------------------------------------------------------------------------
\* When the channel is closed, nothing is in flight.
LEMMA NothingInFlight ==
  ASSUME Inductive, ChannelClosed, ~stop, root # None, NEW f \in Files
  PROVE  ~InFlight(f)
  <1>1. PICK w \in Workers : TRUE
    OBVIOUS
  <1>2. jobs = << >> /\ results = << >> /\ disc.at = "done"
    BY <1>1 DEF ChannelClosed, WorkersDone, DiscoveryDone, Inductive, Order, WorkersLeaveLast
  <1>3. \A v \in Workers : worker[v].item = None /\ worker[v].out = << >>
    BY DEF ChannelClosed, WorkersDone, Inductive, TypeOK, TypeWorkers
  <1>4. QED
    BY <1>2, <1>3, RangeOfNothing DEF InFlight

LEMMA FinishPrunesAbsent ==
  ASSUME Inductive, FinishRoot, NEW f \in Files, Stored(f), docs'[f] = NoDoc
  PROVE  Absent \in saw[f]
  <1>1. root \notin Single /\ Complete /\ f \in Pruned(root, run)
    BY DEF FinishRoot, Stored
  <1>2. ChannelClosed /\ traversal_ok /\ ~stop /\ f \in FilesOf(root) /\ ~Marked(f)
    BY <1>1 DEF FinishRoot, Complete, Pruned, Marked, Stored
  <1>3. root # None
    BY <1>2 DEF ChannelClosed, Inductive, Order, OpenWhileRunning
  <1>4. ~InFlight(f)
    BY <1>2, <1>3, NothingInFlight
  <1>5. AccountedFor(f) /\ DiscoveryDone
    BY <1>2, <1>3 DEF Inductive, Accounted, ChannelClosed
  <1>6. walk[f] \in {"unvisited", "found", "gone", "error"}
    BY DEF Inductive, TypeOK, TypeDiscovery
  <1>7. QED
    BY <1>1, <1>2, <1>4, <1>5, <1>6 DEF AccountedFor

\* No step takes a document away but the reconciliation at the end of a root.
LEMMA OnlyFinishDeletes ==
  ASSUME Inductive, [Next]_vars, NEW f \in Files, Stored(f), docs'[f] = NoDoc
  PROVE  FinishRoot
  <1>1. CASE Receive
    <2>1. docs' = docs \/ (docs' = SeenAt(docs, Got.file) /\ runs' = runs /\ Got \in Message)
      BY <1>1, HeadTailProperties
         DEF Receive, Discard, ReceiveEvent, ReceiveFailure, ReceiveUnchanged, ReceivePayload,
             ReceiveFatal, store, Receiving, Got, Inductive, TypeOK, TypeChannels
    <2>2. QED
      BY <2>1, MarkingMarks DEF Message, Stored, Inductive
  <1>2. CASE Commit
    <2>1. [version |-> Head(pending).version, recipe |-> opts.recipe, seen |-> run] # NoDoc
      BY <1>2, RestType DEF Commit, NoDoc, Inductive, TypeOK
    <2>2. QED
      BY <1>2, <2>1 DEF Commit, Stored, Inductive, TypeOK, TypeStore
  <1>3. CASE docs' = docs
    BY <1>3 DEF Stored
  <1>4. QED
    BY <1>1, <1>2, <1>3
       DEF Next, Command, StartRun, InputFails, OpenRoot, EndRun, Discovery, WalkPast, WalkFinds,
           WalkStops, WalkErrs, ReportError, SendJob, SendFails, WalkEnds, Worker, TakeJob,
           Prepare, SendResult, WorkerEnds, Consumer, FlushRest, Embed, CommitFails,
           CommitFatal, Abandon, Crash, Edit, Rested, vars, store

\* The body of `PruneOnlyAbsent`.
LEMMA OnlyAbsent ==
  ASSUME Inductive, [Next]_vars, NEW f \in Files, Stored(f), docs'[f] = NoDoc
  PROVE  Absent \in saw[f]
  BY OnlyFinishDeletes, FinishPrunesAbsent

\* Reconciliation deletes a document only when its file really was away at
\* some moment of the walk, whatever the number of files, threads and runs.
THEOREM PruningIsSafe == Spec => PruneOnlyAbsent
  <1>1. Inductive /\ [Next]_vars =>
          [\A f \in Files : Stored(f) /\ docs'[f] = NoDoc => Absent \in saw[f]]_vars
    BY OnlyAbsent
  <1>2. QED
    BY InitInductive, NextInductive, <1>1, PTL DEF Spec, PruneOnlyAbsent

-----------------------------------------------------------------------------
(* The verdict of a run.  That a complete run synchronized its roots needs *)
(* every reason a root may fail to be recorded: a schedule is only stopped *)
(* for a fatal error or a counted failure, and a walk that failed is told  *)
(* to the consumer, which counts it, before the channel closes.            *)

RunOpen == pc # "idle" => runs[run] = "running"

\* Between two roots the pipeline is empty and its flags are down.
Emptied ==
  root = None =>
    /\ ~stop /\ traversal_ok /\ ~fatal
    /\ disc = NoDisc /\ jobs = << >> /\ results = << >> /\ pending = << >>
    /\ \A w \in Workers : worker[w] = Gone

AttemptsPast == \A r \in Roots : sources[r].attempted <= run
InputsAhead  == pc # "idle" => \A r \in inputs : sources[r].attempted < run
RootCounts   == root # None => sources[root].attempted = run /\ before <= failed

RootsDone ==
  pc # "idle" => \A r \in Roots : sources[r].attempted = run =>
                   sources[r].successful = run \/ r = root \/ failed > 0
StopHasReason == stop => fatal \/ failed > 0
ErrorIsTold ==
  ~traversal_ok => \/ stop \/ failed > 0 \/ disc.at = "reporting"
                   \/ \E m \in Range(results) : m.kind = "walk_error"
FailFastStops ==
  root # None /\ opts.fail_fast => before = 0 /\ (failed > 0 => stop \/ pending # << >>)

Flags   == Emptied /\ StopHasReason /\ ErrorIsTold /\ FailFastStops
Log     == RunOpen /\ CompleteRunSucceeded /\ RootsDone
Counts  == AttemptsPast /\ InputsAhead /\ RootCounts
Settled == Inductive /\ Flags /\ Log /\ Counts

\* What neither opens, ends nor settles a root or a run: the threads, the
\* consumer at work, and the edits of the files.
Working ==
  \/ Discovery \/ \E w \in Workers : Worker(w)
  \/ Receive \/ FlushRest \/ Embed \/ Commit \/ CommitFails \/ CommitFatal
  \/ \E f \in Files : Edit(f)
  \/ UNCHANGED vars

LEMMA Steps ==
  ASSUME [Next]_vars
  PROVE  \/ Working \/ StartRun \/ InputFails \/ OpenRoot \/ EndRun
         \/ FinishRoot \/ Abandon \/ Crash
  BY DEF Next, Command, Consumer, Rested, Working

\* The log and the roots stand still while a root is worked on.
LEMMA WorkingKeeps ==
  ASSUME Inductive, Working
  PROVE  /\ UNCHANGED <<runs, sources, command, root, before>>
         /\ failed \in Nat /\ before \in Nat /\ failed' \in Nat /\ failed <= failed'
         /\ stop => stop'
         /\ pc = "idle" <=> pc' = "idle"
  <1> USE DEF Inductive
  <1>1. /\ failed \in Nat /\ before \in Nat
        /\ stop \in BOOLEAN /\ opts.fail_fast \in BOOLEAN
    BY DEF TypeOK, TypeConsumer, TypeShared, TypeCommand, Options
  <1>2. CASE Discovery
    BY <1>1, <1>2 DEF Discovery, WalkPast, WalkFinds, WalkStops, WalkErrs, ReportError, SendJob,
       SendFails, WalkEnds, shared, store, consumer
  <1>3. ASSUME NEW w \in Workers, Worker(w)
        PROVE  UNCHANGED <<runs, sources, command, root, before, failed, stop, pc>>
    BY <1>3 DEF Worker, TakeJob, Prepare, SendResult, WorkerEnds, shared, store, consumer
  <1>4. CASE Receive
    <2>1. CASE Discard \/ ReceiveEvent \/ ReceiveUnchanged
      BY <1>1, <2>1 DEF Discard, ReceiveEvent, ReceiveUnchanged, shared, store, consumer
    <2>2. CASE ReceiveFailure
      BY <1>1, <2>2 DEF ReceiveFailure, CountFailure
    <2>3. CASE ReceivePayload
      BY <1>1, <2>3 DEF ReceivePayload, shared, Receiving
    <2>4. CASE ReceiveFatal
      BY <1>1, <2>4 DEF ReceiveFatal, GiveUp
    <2>5. QED
      BY <1>4, <2>1, <2>2, <2>3, <2>4 DEF Receive
  <1>5. CASE FlushRest \/ Embed \/ CommitFatal
    BY <1>1, <1>5 DEF FlushRest, Embed, CommitFatal, GiveUp, shared, store, ChannelClosed
  <1>6. CASE Commit \/ CommitFails
    BY <1>1, <1>6 DEF Commit, CommitFails, StopAfter, AfterCommit, store
  <1>7. ASSUME NEW f \in Files, Edit(f)
        PROVE  UNCHANGED <<runs, sources, command, root, before, failed, stop, pc>>
    BY <1>7 DEF Edit, shared, store, consumer
  <1>8. CASE UNCHANGED vars
    BY <1>1, <1>8 DEF vars, shared, store, consumer
  <1>9. QED
    BY <1>1, <1>2, <1>3, <1>4, <1>5, <1>6, <1>7, <1>8 DEF Working

\* While no root is open no thread and no consumer can move.
LEMMA WorkingHasRoot ==
  ASSUME Inductive, Emptied, root = None, Working
  PROVE  UNCHANGED <<stop, traversal_ok, fatal, disc, jobs, results, pending, worker, failed>>
  <1> USE DEF Inductive
  <1>1. pc \in {"idle", "inputs"}
    BY DEF Order, OpenWhileRunning
  <1>2. disc.at = "done" /\ \A w \in Workers : worker[w].at = "done"
    BY IdleTypes DEF Emptied, NoDisc
  <1>3. ~Discovery
    BY <1>2 DEF Discovery, WalkPast, WalkFinds, WalkStops, WalkErrs, ReportError, SendJob,
       SendFails, WalkEnds
  <1>4. \A w \in Workers : ~Worker(w)
    BY <1>2 DEF Worker, TakeJob, Prepare, SendResult, WorkerEnds
  <1>5. ~Receive /\ ~FlushRest /\ ~Embed /\ ~Commit /\ ~CommitFails /\ ~CommitFatal
    BY <1>1 DEF Receive, Discard, ReceiveEvent, ReceiveFailure, ReceiveUnchanged, ReceivePayload,
       ReceiveFatal, Receiving, FlushRest, ChannelClosed, Embed, Commit, CommitFails, CommitFatal
  <1>6. (\E f \in Files : Edit(f)) \/ UNCHANGED vars
    BY <1>3, <1>4, <1>5 DEF Working
  <1>7. QED
    BY <1>6 DEF Edit, vars, shared, threads, consumer

LEMMA WorkingTells ==
  ASSUME Inductive, ErrorIsTold, Working
  PROVE  ErrorIsTold'
  <1> USE DEF Inductive
  <1> DEFINE told == \E m \in Range(results) : m.kind = "walk_error"
  <1>0. /\ failed \in Nat /\ failed' \in Nat /\ failed <= failed' /\ (stop => stop')
    BY WorkingKeeps
  <1>1. CASE Discovery
    <2>1. CASE WalkErrs
      BY <2>1 DEF WalkErrs, ErrorIsTold
    <2>2. CASE ReportError
      <3> DEFINE m == [kind |-> "walk_error", file |-> disc.item, version |-> Absent]
      <3>1. m \in Message /\ m.kind = "walk_error"
        BY <2>2 DEF ReportError, Message, Outcomes, Contents, TypeOK, TypeDiscovery, Maybe
      <3> HIDE DEF m
      <3>2. Range(Append(results, m)) = Range(results) \cup {m}
        BY <3>1, RangeOfAppend DEF TypeOK, TypeChannels
      <3>3. results' = Append(results, m)
        BY <2>2 DEF ReportError, m
      <3>4. QED
        BY <3>1, <3>2, <3>3 DEF ErrorIsTold
    <2>3. CASE ~WalkErrs /\ ~ReportError
      <3>1. disc.at # "reporting" /\ UNCHANGED <<results, traversal_ok>>
        BY <1>1, <2>3 DEF Discovery, WalkPast, WalkFinds, WalkStops, SendJob, SendFails, WalkEnds,
           shared
      <3>2. QED
        BY <1>0, <3>1 DEF ErrorIsTold
    <2>4. QED
      BY <2>1, <2>2, <2>3
  <1>2. ASSUME NEW w \in Workers, Worker(w) PROVE ErrorIsTold'
    <2>1. UNCHANGED <<disc, traversal_ok>>
      BY <1>2 DEF Worker, TakeJob, Prepare, SendResult, WorkerEnds, shared
    <2>2. told => told'
      <3>1. CASE SendResult(w)
        <4>1. worker[w].out \in Seq(Message) /\ worker[w].out # << >>
          BY <3>1 DEF SendResult, TypeOK, TypeWorkers, WorkerStates
        <4>2. Head(worker[w].out) \in Message
          BY <4>1, HeadTailProperties
        <4>3. Range(Append(results, Head(worker[w].out)))
                = Range(results) \cup {Head(worker[w].out)}
          BY <4>2, RangeOfAppend DEF TypeOK, TypeChannels
        <4>4. QED
          BY <3>1, <4>3 DEF SendResult
      <3>2. CASE ~SendResult(w)
        BY <1>2, <3>2 DEF Worker, TakeJob, Prepare, WorkerEnds
      <3>3. QED
        BY <3>1, <3>2
    <2>3. QED
      BY <1>0, <2>1, <2>2 DEF ErrorIsTold
  <1>3. CASE Receive
    <2>1. UNCHANGED <<disc, traversal_ok>> /\ Receiving /\ results' = Tail(results)
      BY <1>3 DEF Receive, Discard, ReceiveEvent, ReceiveFailure, ReceiveUnchanged,
         ReceivePayload, ReceiveFatal, shared, threads
    <2>2. Range(results) = {Got} \cup Range(results')
      BY <2>1, RangeOfTail DEF TypeOK, TypeChannels, Receiving, Got
    <2>3. Got.kind = "walk_error" => stop' \/ failed' > 0
      <3>1. CASE Discard
        BY <1>0, <3>1 DEF Discard, Attentive, Order, StopIsHeard
      <3>2. CASE ReceiveFailure
        BY <1>0, <3>2 DEF ReceiveFailure, CountFailure
      <3>3. CASE ReceiveFatal
        BY <3>3 DEF ReceiveFatal, GiveUp
      <3>4. CASE ReceiveEvent \/ ReceiveUnchanged \/ ReceivePayload
        BY <3>4 DEF ReceiveEvent, ReceiveUnchanged, ReceivePayload
      <3>5. QED
        BY <1>3, <3>1, <3>2, <3>3, <3>4 DEF Receive
    <2>4. QED
      BY <1>0, <2>1, <2>2, <2>3 DEF ErrorIsTold
  <1>4. CASE UNCHANGED <<disc, traversal_ok, results>>
    BY <1>0, <1>4 DEF ErrorIsTold
  <1>5. (\A f \in Files : ~Edit(f)) \/ UNCHANGED <<disc, traversal_ok, results>>
    BY DEF Edit, shared, threads
  <1>6. FlushRest \/ Embed \/ Commit \/ CommitFails \/ CommitFatal \/ UNCHANGED vars
          => UNCHANGED <<disc, traversal_ok, results>>
    BY DEF FlushRest, Embed, Commit, CommitFails, CommitFatal, shared, threads, vars
  <1>7. QED
    BY <1>1, <1>2, <1>3, <1>4, <1>5, <1>6 DEF Working

LEMMA WorkingStops ==
  ASSUME Inductive, Flags, Working
  PROVE  StopHasReason' /\ FailFastStops'
  <1> USE DEF Inductive
  <1>0. /\ failed \in Nat /\ before \in Nat /\ failed' \in Nat /\ failed <= failed'
        /\ (stop => stop') /\ UNCHANGED <<command, root, before>>
        /\ stop \in BOOLEAN /\ opts.fail_fast \in BOOLEAN
    BY WorkingKeeps DEF TypeOK, TypeShared, TypeCommand, Options
  <1>1. CASE Receive
    <2>1. CASE Discard \/ ReceiveEvent \/ ReceiveUnchanged
      BY <1>0, <2>1 DEF Discard, ReceiveEvent, ReceiveUnchanged, shared, consumer, Flags,
         StopHasReason, FailFastStops, command
    <2>2. CASE ReceiveFailure
      BY <1>0, <2>2 DEF ReceiveFailure, CountFailure, Flags, StopHasReason, FailFastStops, command
    <2>3. CASE ReceivePayload
      <3>1. pending \in Seq([file : Files, version : Versions])
        BY DEF TypeOK, TypeConsumer
      <3>2. pending' # << >>
        BY <2>3, <3>1, ReceiveType, <1>1, EmptySeq, LenProperties DEF ReceivePayload
      <3>3. QED
        BY <1>0, <2>3, <3>2 DEF ReceivePayload, shared, Flags, StopHasReason, FailFastStops, command
    <2>4. CASE ReceiveFatal
      BY <1>0, <2>4 DEF ReceiveFatal, GiveUp, Flags, StopHasReason, FailFastStops, command
    <2>5. QED
      BY <1>1, <2>1, <2>2, <2>3, <2>4 DEF Receive
  <1>2. CASE Commit
    BY <1>0, <1>2 DEF Commit, StopAfter, Flags, StopHasReason, FailFastStops, command, RootCounts
  <1>3. CASE CommitFails
    BY <1>0, <1>3 DEF CommitFails, StopAfter, Flags, StopHasReason, FailFastStops, command
  <1>4. CASE CommitFatal \/ Embed
    BY <1>0, <1>4 DEF CommitFatal, Embed, GiveUp, Flags, StopHasReason, FailFastStops, command
  <1>5. CASE UNCHANGED <<stop, fatal, failed, pending>>
    BY <1>0, <1>5 DEF Flags, StopHasReason, FailFastStops, command
  <1>6. (\A w \in Workers : ~Worker(w)) \/ UNCHANGED <<stop, fatal, failed, pending>>
    BY DEF Worker, TakeJob, Prepare, SendResult, WorkerEnds, shared, consumer
  <1>7. (\A f \in Files : ~Edit(f)) \/ UNCHANGED <<stop, fatal, failed, pending>>
    BY DEF Edit, shared, consumer
  <1>8. Discovery \/ FlushRest \/ UNCHANGED vars => UNCHANGED <<stop, fatal, failed, pending>>
    BY DEF Discovery, WalkPast, WalkFinds, WalkStops, WalkErrs, ReportError, SendJob, SendFails,
       WalkEnds, FlushRest, shared, consumer, vars
  <1>9. QED
    BY <1>1, <1>2, <1>3, <1>4, <1>5, <1>6, <1>7, <1>8 DEF Working

LEMMA InitSettled == Init => Settled
  <1> SUFFICES ASSUME Init PROVE Settled
    OBVIOUS
  <1>1. Inductive
    BY InitInductive
  <1>2. Flags
    BY DEF Init, Flags, Emptied, StopHasReason, ErrorIsTold, FailFastStops
  <1>3. Log
    BY DEF Init, Log, RunOpen, CompleteRunSucceeded, RootsDone
  <1>4. Counts
    BY DEF Init, Counts, AttemptsPast, InputsAhead, RootCounts
  <1>5. QED
    BY <1>1, <1>2, <1>3, <1>4 DEF Settled

LEMMA WorkingSettled == Settled /\ Working => Flags' /\ Log' /\ Counts'
  <1> SUFFICES ASSUME Settled, Working PROVE Flags' /\ Log' /\ Counts'
    OBVIOUS
  <1> USE DEF Settled
  <1>1. /\ UNCHANGED <<runs, sources, command, root, before>>
        /\ failed \in Nat /\ before \in Nat /\ failed' \in Nat /\ failed <= failed'
        /\ pc = "idle" <=> pc' = "idle"
    BY WorkingKeeps
  <1>2. Log'
    BY <1>1 DEF Log, RunOpen, CompleteRunSucceeded, RootsDone
  <1>3. Counts'
    BY <1>1 DEF Counts, AttemptsPast, InputsAhead, RootCounts, command
  <1>4. Emptied'
    BY <1>1, WorkingHasRoot DEF Flags, Emptied
  <1>5. QED
    BY <1>2, <1>3, <1>4, WorkingTells, WorkingStops DEF Flags

\* The end of a pipeline leaves its flags down.
LEMMA ClosedFlags ==
  ASSUME ClosePipeline
  PROVE  Flags'
  BY DEF ClosePipeline, Flags, Emptied, StopHasReason, ErrorIsTold, FailFastStops

LEMMA StartSettled == Settled /\ StartRun => Flags' /\ Log' /\ Counts'
  <1> SUFFICES ASSUME Settled, StartRun PROVE Flags' /\ Log' /\ Counts'
    OBVIOUS
  <1> USE DEF Settled, StartRun
  <1> DEFINE marked == MarkAbandoned(runs)
  <1>1. runs \in Seq(Status) /\ run \in Nat /\ root = None
    BY DEF Inductive, TypeOK, TypeStore, Order, OpenWhileRunning
  <1>2. /\ marked \in Seq(Status) /\ Len(marked) = run
        /\ \A i \in 1..run : marked[i] = IF runs[i] = "running" THEN "interrupted" ELSE runs[i]
    BY <1>1, Abandoning
  <1> HIDE DEF marked
  <1>3. "running" \in Status
    BY DEF Status
  <1>4. /\ Len(runs') = run + 1 /\ runs'[run + 1] = "running"
        /\ \A i \in 1..run : runs'[i] = marked[i]
    BY <1>1, <1>2, <1>3, AppendProperties DEF marked
  <1>5. UNCHANGED <<sources, stop, traversal_ok, fatal, disc, jobs, results, pending, worker,
                    failed, before, root>>
    BY DEF shared, threads
  <1>6. Flags'
    BY <1>1, <1>5 DEF Flags, Emptied, StopHasReason, ErrorIsTold, FailFastStops
  <1>7. \A r \in Roots : sources[r].attempted \in Nat /\ sources[r].attempted <= run
    BY DEF Counts, AttemptsPast, Inductive, TypeOK, TypeStore
  <1>8. Log'
    <2>1. CompleteRunSucceeded'
      <3> SUFFICES ASSUME NEW i \in 1..(run + 1), runs'[i] = "complete"
                   PROVE  i \in 1..run /\ runs[i] = "complete"
        BY <1>4, <1>5 DEF CompleteRunSucceeded, Log
      <3>1. i \in 1..run
        BY <1>1, <1>4
      <3>2. QED
        BY <1>2, <1>4, <3>1
    <2>2. RunOpen' /\ RootsDone'
      BY <1>1, <1>4, <1>5, <1>7 DEF RunOpen, RootsDone
    <2>3. QED
      BY <2>1, <2>2 DEF Log
  <1>9. Counts'
    <2>1. inputs' \subseteq Roots
      OBVIOUS
    <2>2. QED
      BY <1>1, <1>4, <1>5, <1>7, <2>1 DEF Counts, AttemptsPast, InputsAhead, RootCounts
  <1>10. QED
    BY <1>6, <1>8, <1>9

LEMMA InputFailsSettled == Settled /\ InputFails => Flags' /\ Log' /\ Counts'
  <1> SUFFICES ASSUME Settled, InputFails PROVE Flags' /\ Log' /\ Counts'
    OBVIOUS
  <1> USE DEF Settled, InputFails
  <1>1. root = None /\ failed \in Nat /\ failed' = failed + 1
    BY DEF Inductive, Order, OpenWhileRunning, TypeOK, TypeConsumer
  <1>2. UNCHANGED <<sources, runs, stop, traversal_ok, fatal, disc, jobs, results, pending,
                    worker, before, root, pc>>
    BY DEF shared, threads, store
  <1>3. Flags'
    BY <1>1, <1>2 DEF Flags, Emptied, StopHasReason, ErrorIsTold, FailFastStops
  <1>4. Log'
    BY <1>1, <1>2 DEF Log, RunOpen, CompleteRunSucceeded, RootsDone
  <1>5. inputs' \subseteq inputs
    OBVIOUS
  <1>6. Counts'
    BY <1>1, <1>2, <1>5 DEF Counts, AttemptsPast, InputsAhead, RootCounts
  <1>7. QED
    BY <1>3, <1>4, <1>6

LEMMA OpenSettled == Settled /\ OpenRoot => Flags' /\ Log' /\ Counts'
  <1> SUFFICES ASSUME Settled, OpenRoot PROVE Flags' /\ Log' /\ Counts'
    OBVIOUS
  <1> USE DEF Settled
  <1>1. PICK r \in inputs :
          /\ root' = r /\ inputs' = inputs \ {r}
          /\ sources' = [sources EXCEPT ![r].attempted = run]
    BY DEF OpenRoot
  <1>2. /\ r \in Roots /\ r # None /\ inputs \subseteq Roots
        /\ sources \in [Roots -> [attempted : Nat, successful : Nat]]
        /\ run \in Nat /\ failed \in Nat /\ root = None /\ opts.fail_fast \in BOOLEAN
    BY DEF OpenRoot, Inductive, TypeOK, TypeStore, TypeCommand, TypeConsumer, Order,
           OpenWhileRunning, Options
  <1>3. /\ UNCHANGED <<runs, opts, stop, traversal_ok, fatal, results, pending, failed>>
        /\ before' = failed /\ pc = "inputs" /\ pc' = "receive"
        /\ MoreInputs
    BY DEF OpenRoot
  <1>4. /\ sources'[r].attempted = run
        /\ \A s \in Roots : s # r => sources'[s] = sources[s]
    BY <1>1, <1>2
  <1>5. ~stop /\ traversal_ok
    BY <1>2 DEF Flags, Emptied
  <1>6. Flags'
    <2>1. opts.fail_fast => failed = 0
      BY <1>2, <1>3 DEF MoreInputs
    <2>2. QED
      BY <1>1, <1>2, <1>3, <1>5, <2>1 DEF Flags, Emptied, StopHasReason, ErrorIsTold, FailFastStops
  <1>7. runs[run] = "running"
    BY <1>3 DEF Log, RunOpen
  <1>8. Log'
    <2>1. CompleteRunSucceeded'
      BY <1>2, <1>3, <1>4, <1>7 DEF CompleteRunSucceeded, Log
    <2>2. RunOpen' /\ RootsDone'
      BY <1>1, <1>2, <1>3, <1>4, <1>7 DEF RunOpen, RootsDone, Log
    <2>3. QED
      BY <2>1, <2>2 DEF Log
  <1>9. Counts'
    BY <1>1, <1>2, <1>3, <1>4 DEF Counts, AttemptsPast, InputsAhead, RootCounts
  <1>10. QED
    BY <1>6, <1>8, <1>9

LEMMA EndSettled == Settled /\ EndRun => Flags' /\ Log' /\ Counts'
  <1> SUFFICES ASSUME Settled, EndRun PROVE Flags' /\ Log' /\ Counts'
    OBVIOUS
  <1> USE DEF Settled
  <1>1. /\ runs \in Seq(Status) /\ run \in Nat /\ run \in 1..run
        /\ root = None /\ failed \in Nat /\ pc = "inputs"
    BY EmptySeq DEF EndRun, Inductive, TypeOK, TypeStore, TypeConsumer, Order, OpenWhileRunning
  <1>2. /\ UNCHANGED <<sources, stop, traversal_ok, fatal, disc, jobs, results, pending, worker, root>>
        /\ pc' = "idle"
    BY DEF EndRun, CloseCommand, shared, threads
  <1>3. Len(runs') = run /\ \A i \in 1..run : i # run => runs'[i] = runs[i]
    BY <1>1 DEF EndRun
  <1>4. failed > 0 => runs'[run] = "partial"
    BY <1>1 DEF EndRun
  <1>5. Flags'
    BY <1>1, <1>2 DEF Flags, Emptied, StopHasReason, ErrorIsTold, FailFastStops
  <1>6. ASSUME NEW i \in 1..run, runs'[i] = "complete", NEW r \in Roots,
               sources[r].attempted = i
        PROVE  sources[r].successful = i
    <2>1. CASE i = run
      <3>1. ~(failed > 0)
        BY <1>4, <1>6, <2>1
      <3>2. r # root
        BY <1>1
      <3>3. QED
        BY <1>1, <1>6, <2>1, <3>1, <3>2 DEF Log, RootsDone
    <2>2. CASE i # run
      <3>1. runs[i] = "complete"
        BY <1>3, <1>6, <2>2
      <3>2. QED
        BY <1>6, <3>1 DEF Log, CompleteRunSucceeded
    <2>3. QED
      BY <2>1, <2>2
  <1>7. CompleteRunSucceeded'
    BY <1>2, <1>3, <1>6 DEF CompleteRunSucceeded
  <1>8. Log' /\ Counts'
    BY <1>1, <1>2, <1>3, <1>7 DEF Log, RunOpen, RootsDone, Counts, AttemptsPast, InputsAhead,
       RootCounts
  <1>9. QED
    BY <1>5, <1>8

\* A root that ends without being recorded has a failure to show for it.
LEMMA FinishSettled == Settled /\ FinishRoot => Flags' /\ Log' /\ Counts'
  <1> SUFFICES ASSUME Settled, FinishRoot PROVE Flags' /\ Log' /\ Counts'
    OBVIOUS
  <1> USE DEF Settled
  <1>1. /\ ChannelClosed /\ ~fatal /\ ClosePipeline /\ pc' = "inputs"
        /\ UNCHANGED <<runs, command, failed, before>>
        /\ sources' = IF Complete /\ failed = before
                      THEN [sources EXCEPT ![root].successful = run] ELSE sources
    BY DEF FinishRoot
  <1>2. /\ root # None /\ root \in Roots /\ run \in Nat /\ failed \in Nat /\ before \in Nat
        /\ sources \in [Roots -> [attempted : Nat, successful : Nat]]
        /\ stop \in BOOLEAN /\ traversal_ok \in BOOLEAN
    BY <1>1 DEF ChannelClosed, Inductive, Order, OpenWhileRunning, TypeOK, TypeShared, TypeStore,
       TypeConsumer
  <1>3. Flags'
    BY <1>1, ClosedFlags
  <1>4. /\ \A r \in Roots : sources'[r].attempted = sources[r].attempted
        /\ \A r \in Roots : r # root => sources'[r] = sources[r]
        /\ Complete /\ failed = before => sources'[root].successful = run
    BY <1>1, <1>2
  <1>5. sources'[root].successful = run \/ failed > 0
    <2>1. CASE Complete /\ failed = before
      BY <1>4, <2>1
    <2>2. CASE failed # before
      BY <1>2, <2>2 DEF Counts, RootCounts
    <2>3. CASE stop
      BY <1>1, <2>3 DEF Flags, StopHasReason
    <2>4. CASE ~traversal_ok
      <3>1. disc.at = "done" /\ Range(results) = {}
        BY <1>1, RangeOfNothing DEF ChannelClosed, DiscoveryDone
      <3>2. stop \/ failed > 0
        BY <2>4, <3>1 DEF Flags, ErrorIsTold
      <3>3. QED
        BY <2>3, <3>2
    <2>5. QED
      BY <1>2, <2>1, <2>2, <2>3, <2>4 DEF Complete
  <1>6. runs[run] = "running" /\ sources[root].attempted = run
    BY <1>1, <1>2 DEF Log, RunOpen, ChannelClosed, Counts, RootCounts
  <1>7. Log'
    <2>1. CompleteRunSucceeded'
      BY <1>1, <1>2, <1>4, <1>6 DEF CompleteRunSucceeded, Log
    <2>2. RunOpen'
      BY <1>1, <1>6 DEF RunOpen
    <2>3. RootsDone'
      <3> SUFFICES ASSUME NEW r \in Roots, sources'[r].attempted = run
                   PROVE  sources'[r].successful = run \/ failed > 0
        BY <1>1 DEF RootsDone
      <3>1. CASE r = root
        BY <1>5, <3>1
      <3>2. CASE r # root
        BY <1>1, <1>4, <3>2 DEF Log, RootsDone, ChannelClosed
      <3>3. QED
        BY <3>1, <3>2
    <2>4. QED
      BY <2>1, <2>2, <2>3 DEF Log
  <1>8. Counts'
    BY <1>1, <1>4 DEF Counts, AttemptsPast, InputsAhead, RootCounts, ClosePipeline, command,
       ChannelClosed
  <1>9. QED
    BY <1>3, <1>7, <1>8

\* A crash, or the fatal error a command returns.
LEMMA ClosingSettled ==
  ASSUME Settled, CloseCommand, ClosePipeline, UNCHANGED <<env, store>>
  PROVE  Flags' /\ Log' /\ Counts'
  <1>1. UNCHANGED <<runs, sources>> /\ pc' = "idle" /\ root' = None
    BY DEF CloseCommand, ClosePipeline, store
  <1>2. Log' /\ Counts'
    BY <1>1 DEF Settled, Log, RunOpen, CompleteRunSucceeded, RootsDone, Counts, AttemptsPast,
       InputsAhead, RootCounts
  <1>3. QED
    BY <1>2, ClosedFlags

LEMMA NextSettled == Settled /\ [Next]_vars => Settled'
  <1> SUFFICES ASSUME Settled, [Next]_vars PROVE Settled'
    OBVIOUS
  <1>1. Inductive'
    BY NextInductive DEF Settled
  <1>2. Flags' /\ Log' /\ Counts'
    BY Steps, WorkingSettled, StartSettled, InputFailsSettled, OpenSettled, EndSettled,
       FinishSettled, ClosingSettled DEF Abandon, Crash
  <1>3. QED
    BY <1>1, <1>2 DEF Settled

\* A run recorded as complete synchronized every root it attempted, whatever
\* the number of roots, files and runs and whatever is stopped or fails.
THEOREM CompleteRunsSynchronize == Spec => []CompleteRunSucceeded
  <1>1. Settled => CompleteRunSucceeded
    BY DEF Settled, Log
  <1>2. QED
    BY InitSettled, NextSettled, <1>1, PTL DEF Spec

\* The body of `RunsAreSettled`.
LEMMA SettledRunsStay ==
  ASSUME Settled, [Next]_vars
  PROVE  /\ \A i \in 1..run : runs[i] # "running" => runs'[i] = runs[i]
         /\ Len(runs') > run => \A i \in 1..run : runs'[i] # "running"
  <1>1. runs \in Seq(Status) /\ run \in Nat
    BY DEF Settled, Inductive, TypeOK, TypeStore
  <1>2. CASE StartRun
    <2> DEFINE marked == MarkAbandoned(runs)
    <2>1. /\ marked \in Seq(Status) /\ Len(marked) = run
          /\ \A i \in 1..run : marked[i] = IF runs[i] = "running" THEN "interrupted" ELSE runs[i]
      BY <1>1, Abandoning
    <2>2. "running" \in Status /\ runs' = Append(marked, "running")
      BY <1>2 DEF Status, StartRun
    <2> HIDE DEF marked
    <2>3. \A i \in 1..run : runs'[i] = marked[i]
      BY <2>1, <2>2, AppendProperties
    <2>4. QED
      BY <2>1, <2>3
  <1>3. CASE EndRun
    <2>1. runs[run] = "running" /\ run \in 1..run
      BY <1>1, <1>3, EmptySeq DEF EndRun, Settled, Log, RunOpen, Inductive, TypeOK, TypeConsumer
    <2>2. /\ Len(runs') = run /\ \A i \in 1..run : i # run => runs'[i] = runs[i]
      BY <1>1, <1>3, <2>1 DEF EndRun
    <2>3. QED
      BY <1>1, <2>1, <2>2
  <1>4. CASE runs' = runs
    BY <1>1, <1>4
  <1>5. runs' = runs \/ StartRun \/ EndRun
    BY Steps, WorkingKeeps DEF InputFails, OpenRoot, FinishRoot, Abandon, Crash, store, Settled
  <1>6. QED
    BY <1>2, <1>3, <1>4, <1>5

\* A verdict once given is never changed, and no run but the last is ever
\* 'running', over any number of runs, crashes and fatal errors.
THEOREM VerdictsStand == Spec => RunsAreSettled
  <1>1. Settled /\ [Next]_vars =>
          [/\ \A i \in 1..run : runs[i] # "running" => runs'[i] = runs[i]
           /\ Len(runs') > run => \A i \in 1..run : runs'[i] # "running"]_vars
    BY SettledRunsStay
  <1>2. QED
    BY InitSettled, NextSettled, <1>1, PTL DEF Spec, RunsAreSettled

\* After a failure --fail-fast reconciles no deletion, however the failure,
\* the batch and the channels are interleaved.
THEOREM FailFastKeepsDocuments == Spec => FailFastDeletesNothing
  <1>1. ASSUME Settled, [Next]_vars, opts.fail_fast, failed > 0, NEW f \in Files, Stored(f)
        PROVE  docs'[f] # NoDoc
    <2> SUFFICES ASSUME docs'[f] = NoDoc PROVE FALSE
      OBVIOUS
    <2>1. FinishRoot
      BY <1>1, OnlyFinishDeletes DEF Settled
    <2>2. ~stop /\ pending = << >> /\ ChannelClosed
      BY <1>1, <2>1 DEF FinishRoot, Complete, Stored
    <2>3. root # None
      BY <1>1, <2>2 DEF ChannelClosed, Settled, Inductive, Order, OpenWhileRunning
    <2>4. QED
      BY <1>1, <2>2, <2>3 DEF Settled, Flags, FailFastStops
  <1>2. Settled /\ [Next]_vars =>
          [opts.fail_fast /\ failed > 0 => \A f \in Files : Stored(f) => docs'[f] # NoDoc]_vars
    BY <1>1
  <1>3. QED
    BY InitSettled, NextSettled, <1>2, PTL DEF Spec, FailFastDeletesNothing

-----------------------------------------------------------------------------
(* What success means.  A document that the walk meets, or that bears the  *)
(* mark of the run, is followed until its content is one the file had: as  *)
(* a job, as a message, in the batch, and at last in the store, unless the *)
(* root is spoilt by a stop or a failure, and then it is not recorded.     *)

SingleIsFound ==
  root \in Single => walk[OnlyFile(root)] = "found" /\ disc.at \in {"sending", "done"}

SeenPast == \A f \in Files : Stored(f) => docs[f].seen <= sources[RootOf[f]].attempted

\* The document holds a content of this run under the recipe of this run.
Good(f) == Stored(f) /\ docs[f].version \in saw[f] /\ docs[f].recipe = opts.recipe
UpToDate(f) == Good(f) /\ docs[f].seen = run

\* A message tells the truth about a file of the root.
Sound(m) ==
  /\ m.file \in FilesOf(root)
  /\ m.kind \in {"unchanged", "payload"} => m.version \in saw[m.file]
  /\ m.kind = "unchanged" => Good(m.file)

JobsAreOurs == /\ disc.item # None => disc.item \in FilesOf(root)
               /\ \A f \in Range(jobs) : f \in FilesOf(root)
HandsAreOurs ==
  \A w \in Workers : /\ worker[w].item # None => worker[w].item \in FilesOf(root)
                     /\ \A m \in Range(worker[w].out) : Sound(m)
ResultsAreSound == \A m \in Range(results) : Sound(m)
BatchIsSound == \A e \in Range(pending) : e.file \in FilesOf(root) /\ e.version \in saw[e.file]

Spoilt == stop \/ failed > before
Queued(f) == \E e \in Range(pending) : e.file = f
Due(f) == walk[f] = "found" \/ (Stored(f) /\ docs[f].seen = run)
Followed ==
  root # None => \A f \in FilesOf(root) :
    Due(f) => Spoilt \/ InFlight(f) \/ Queued(f) \/ UpToDate(f)

Carried == JobsAreOurs /\ HandsAreOurs /\ ResultsAreSound /\ BatchIsSound
Mirrored == Settled /\ SingleIsFound /\ SeenPast /\ Carried /\ Followed

\* Marking a document changes nothing else of it, and of no other.
LEMMA MarkingKeeps ==
  ASSUME TypeOK, NEW f \in Files, docs' = SeenAt(docs, f)
  PROVE  /\ \A g \in Files : g # f => docs'[g] = docs[g]
         /\ Stored(f)' <=> Stored(f)
         /\ Stored(f) => /\ docs'[f].version = docs[f].version
                         /\ docs'[f].recipe = docs[f].recipe
                         /\ docs'[f].seen = run
  <1>1. docs \in [Files -> Docs \cup {NoDoc}] /\ run \in Nat
    BY DEF TypeOK, TypeStore
  <1>2. NoDoc \notin Docs
    BY DEF Docs, NoDoc
  <1>3. CASE docs[f] = NoDoc
    BY <1>3 DEF SeenAt, Stored
  <1>4. CASE docs[f] # NoDoc
    <2> DEFINE d == docs[f]
               n == run
    <2>1. d \in Docs /\ n \in Nat
      BY <1>1, <1>4
    <2>2. docs' = [docs EXCEPT ![f] = [d EXCEPT !.seen = n]]
      BY <1>4, <1>1 DEF SeenAt
    <2> HIDE DEF d, n
    <2>3. /\ [d EXCEPT !.seen = n] \in Docs
          /\ [d EXCEPT !.seen = n].seen = n
          /\ [d EXCEPT !.seen = n].version = d.version
          /\ [d EXCEPT !.seen = n].recipe = d.recipe
      BY <2>1 DEF Docs
    <2>4. /\ docs'[f] = [d EXCEPT !.seen = n]
          /\ \A g \in Files : g # f => docs'[g] = docs[g]
      BY <1>1, <2>2
    <2>5. QED
      BY <1>2, <1>4, <2>3, <2>4 DEF Stored, d, n
  <1>5. QED
    BY <1>3, <1>4

\* A document that is good stays good while its root is worked on.
LEMMA GoodStays ==
  ASSUME Inductive, BatchIsSound, Working, NEW f \in Files, Good(f)
  PROVE  Good(f)'
  <1> USE DEF Inductive
  <1>1. UNCHANGED opts /\ saw[f] \subseteq saw'[f]
    <2>1. UNCHANGED opts
      BY WorkingKeeps DEF command
    <2>2. (\E g \in Files : Edit(g)) => saw[f] \subseteq saw'[f]
      BY DEF Edit, TypeOK, TypeFiles
    <2>3. (\E g \in Files : Edit(g)) \/ saw' = saw
      BY DEF Working, Discovery, WalkPast, WalkFinds, WalkStops, WalkErrs, ReportError, SendJob,
         SendFails, WalkEnds, Worker, TakeJob, Prepare, SendResult, WorkerEnds, Receive, Discard,
         ReceiveEvent, ReceiveFailure, ReceiveUnchanged, ReceivePayload, ReceiveFatal, FlushRest,
         Embed, Commit, CommitFails, CommitFatal, vars
    <2>4. QED
      BY <2>1, <2>2, <2>3
  <1>2. CASE docs' = docs
    BY <1>1, <1>2 DEF Good, Stored
  <1>3. CASE Receive
    <2>1. docs' = docs \/ (docs' = SeenAt(docs, Got.file) /\ Got.file \in Files)
      BY <1>3, HeadTailProperties
         DEF Receive, Discard, ReceiveEvent, ReceiveFailure, ReceiveUnchanged, ReceivePayload,
             ReceiveFatal, store, Receiving, Got, TypeOK, TypeChannels, Message
    <2>2. CASE docs' = SeenAt(docs, Got.file) /\ Got.file \in Files
      <3>1. \/ docs'[f] = docs[f]
            \/ /\ Stored(f)' /\ docs'[f].version = docs[f].version
               /\ docs'[f].recipe = docs[f].recipe
        BY <2>2, MarkingKeeps DEF Good
      <3>2. QED
        BY <1>1, <3>1 DEF Good, Stored
    <2>3. QED
      BY <1>2, <2>1, <2>2
  <1>4. CASE Commit
    <2> DEFINE e == Head(pending)
               d == [version |-> e.version, recipe |-> opts.recipe, seen |-> run]
    <2>1. e \in Range(pending) /\ e.version \in Versions /\ e.file \in Files
      BY <1>4, RestType, RangeOfTail DEF Commit, TypeOK, TypeConsumer
    <2>2. docs' = [docs EXCEPT ![e.file] = d]
      BY <1>4 DEF Commit
    <2>3. d # NoDoc
      BY <2>1 DEF NoDoc
    <2>4. CASE f = e.file
      <3>1. docs'[f] = d
        BY <2>1, <2>2, <2>4 DEF TypeOK, TypeStore
      <3>2. e.version \in saw[f]
        BY <2>1, <2>4 DEF BatchIsSound
      <3>3. QED
        BY <1>1, <2>3, <3>1, <3>2 DEF Good, Stored
    <2>5. CASE f # e.file
      <3>1. docs'[f] = docs[f]
        BY <2>2, <2>5 DEF TypeOK, TypeStore
      <3>2. QED
        BY <1>1, <3>1 DEF Good, Stored
    <2>6. QED
      BY <2>4, <2>5
  <1>5. docs' = docs \/ Receive \/ Commit
    BY DEF Working, Discovery, WalkPast, WalkFinds, WalkStops, WalkErrs, ReportError, SendJob,
       SendFails, WalkEnds, Worker, TakeJob, Prepare, SendResult, WorkerEnds, FlushRest,
       Embed, CommitFails, CommitFatal, Edit, vars, store
  <1>6. QED
    BY <1>2, <1>3, <1>4, <1>5

\* So does every message, and every document that waits in the batch.
LEMMA SoundStays ==
  ASSUME Inductive, BatchIsSound, Working
  PROVE  /\ root' = root
         /\ \A f \in Files : saw[f] \subseteq saw'[f]
         /\ \A m \in Message : Sound(m) => Sound(m)'
  <1>1. root' = root
    BY WorkingKeeps
  <1>2. \A f \in Files : saw[f] \subseteq saw'[f]
    <2>1. ASSUME NEW f \in Files, NEW g \in Files, Edit(g) PROVE saw[f] \subseteq saw'[f]
      BY <2>1 DEF Edit, Inductive, TypeOK, TypeFiles
    <2>2. (\E g \in Files : Edit(g)) \/ saw' = saw
      BY DEF Working, Discovery, WalkPast, WalkFinds, WalkStops, WalkErrs, ReportError, SendJob,
         SendFails, WalkEnds, Worker, TakeJob, Prepare, SendResult, WorkerEnds, Receive, Discard,
         ReceiveEvent, ReceiveFailure, ReceiveUnchanged, ReceivePayload, ReceiveFatal, FlushRest,
         Embed, Commit, CommitFails, CommitFatal, vars
    <2>3. QED
      BY <2>1, <2>2
  <1>3. ASSUME NEW m \in Message, Sound(m) PROVE Sound(m)'
    <2>1. m.file \in Files
      BY DEF Message
    <2>2. Good(m.file) => Good(m.file)'
      BY <2>1, GoodStays
    <2>3. QED
      BY <1>1, <1>2, <1>3, <2>1, <2>2 DEF Sound, FilesOf
  <1>4. QED
    BY <1>1, <1>2, <1>3

\* A preparation answers with the truth about the file it read.
LEMMA PreparedIsSound ==
  ASSUME Inductive, root # None, NEW w \in Workers, NEW f \in FilesOf(root),
         NEW m \in Prepared(w, f)
  PROVE  Sound(m) /\ Sound([m EXCEPT !.kind = "event"])
  <1>1. fs[f] \in saw[f] /\ f \in Files
    BY DEF Inductive, Order, SawThePresent, FilesOf
  <1>2. m \in Message /\ m.file = f
    BY <1>1, PreparedType DEF Inductive
  <1>3. m.kind \in {"unchanged", "payload"} => m.version = fs[f]
    BY DEF Prepared
  <1>4. m.kind = "unchanged" => Current(f, fs[f])
    BY DEF Prepared
  <1>5. Sound(m)
    BY <1>1, <1>2, <1>3, <1>4 DEF Sound, Current, Good
  <1>6. [m EXCEPT !.kind = "event"].file = f /\ [m EXCEPT !.kind = "event"].kind = "event"
    BY <1>2 DEF Message
  <1>7. QED
    BY <1>5, <1>6 DEF Sound

LEMMA SingleWorking ==
  ASSUME Inductive, SingleIsFound, Working
  PROVE  SingleIsFound'
  <1>1. root' = root
    BY WorkingKeeps
  <1>2. CASE Discovery /\ root \in Single
    <2>1. disc.at = "sending"
      BY <1>2 DEF SingleIsFound, Discovery, WalkPast, WalkFinds, WalkStops, WalkErrs, ReportError,
         SendJob, SendFails, WalkEnds
    <2>2. SendJob \/ SendFails
      BY <1>2, <2>1 DEF Discovery, WalkPast, WalkFinds, WalkStops, WalkErrs, ReportError, WalkEnds
    <2>3. walk' = walk /\ disc'.at = "done"
      BY <1>2, <2>2 DEF SendJob, SendFails, AfterSend, NoDisc
    <2>4. QED
      BY <1>1, <2>3 DEF SingleIsFound
  <1>3. CASE UNCHANGED <<walk, disc>>
    BY <1>1, <1>3 DEF SingleIsFound
  <1>4. Discovery \/ UNCHANGED <<walk, disc>>
    BY DEF Working, Worker, TakeJob, Prepare, SendResult, WorkerEnds, Receive, Discard,
       ReceiveEvent, ReceiveFailure, ReceiveUnchanged, ReceivePayload, ReceiveFatal, FlushRest,
       Embed, Commit, CommitFails, CommitFatal, Edit, vars, threads
  <1>5. QED
    BY <1>1, <1>2, <1>3, <1>4 DEF SingleIsFound

LEMMA MembersAreTyped ==
  ASSUME TypeOK
  PROVE  /\ \A f \in Range(jobs) : f \in Files
         /\ \A m \in Range(results) : m \in Message
         /\ \A w \in Workers : \A m \in Range(worker[w].out) : m \in Message
         /\ \A e \in Range(pending) : e \in [file : Files, version : Versions]
  <1>1. ASSUME NEW S, NEW s \in Seq(S), NEW e \in Range(s) PROVE e \in S
    BY <1>1, RangeEquality
  <1>2. /\ jobs \in Seq(Files) /\ results \in Seq(Message)
        /\ pending \in Seq([file : Files, version : Versions])
        /\ \A w \in Workers : worker[w].out \in Seq(Message)
    BY DEF TypeOK, TypeChannels, TypeConsumer, TypeWorkers, WorkerStates
  <1>3. QED
    BY <1>1, <1>2

LEMMA JobsWorking ==
  ASSUME Inductive, JobsAreOurs, Working
  PROVE  JobsAreOurs'
  <1> USE DEF Inductive
  <1>1. root' = root
    BY WorkingKeeps
  <1>2. CASE Discovery
    <2>1. CASE SendJob
      <3>1. disc.item \in Files /\ disc.item # None
        BY <2>1 DEF SendJob, TypeOK, TypeDiscovery, Maybe
      <3>2. Range(Append(jobs, disc.item)) = Range(jobs) \cup {disc.item}
        BY <3>1, RangeOfAppend DEF TypeOK, TypeChannels
      <3>3. QED
        BY <1>1, <2>1, <3>1, <3>2 DEF SendJob, JobsAreOurs, FilesOf
    <2>2. CASE ~SendJob
      BY <1>1, <1>2, <2>2 DEF Discovery, WalkPast, WalkFinds, WalkStops, WalkErrs, ReportError,
         SendFails, WalkEnds, NoDisc, Unvisited, JobsAreOurs, FilesOf
    <2>3. QED
      BY <2>1, <2>2
  <1>3. ASSUME NEW w \in Workers, Worker(w) PROVE JobsAreOurs'
    <2>1. disc' = disc
      BY <1>3 DEF Worker, TakeJob, Prepare, SendResult, WorkerEnds
    <2>2. CASE TakeJob(w)
      <3>1. jobs \in Seq(Files) /\ jobs # << >> /\ jobs' = Tail(jobs)
        BY <2>2 DEF TakeJob, TypeOK, TypeChannels
      <3>2. Range(jobs) = {Head(jobs)} \cup Range(jobs')
        BY <3>1, RangeOfTail
      <3>3. QED
        BY <1>1, <2>1, <3>2 DEF JobsAreOurs, FilesOf
    <2>3. CASE jobs' = jobs
      BY <1>1, <2>1, <2>3 DEF JobsAreOurs, FilesOf
    <2>4. QED
      BY <1>3, <2>2, <2>3 DEF Worker, Prepare, SendResult, WorkerEnds
  <1>4. CASE UNCHANGED <<disc, jobs>>
    BY <1>1, <1>4 DEF JobsAreOurs, FilesOf
  <1>5. Discovery \/ (\E w \in Workers : Worker(w)) \/ UNCHANGED <<disc, jobs>>
    BY DEF Working, Receive, Discard, ReceiveEvent, ReceiveFailure, ReceiveUnchanged,
       ReceivePayload, ReceiveFatal, FlushRest, Embed, Commit, CommitFails, CommitFatal, Edit,
       vars, threads
  <1>6. QED
    BY <1>2, <1>3, <1>4, <1>5

LEMMA HandsWorking ==
  ASSUME Inductive, Carried, Working
  PROVE  HandsAreOurs'
  <1> USE DEF Inductive
  <1>1. root' = root
    BY WorkingKeeps
  <1>2. \A m \in Message : Sound(m) => Sound(m)'
    BY SoundStays DEF Carried
  <1>3. ASSUME NEW v \in Workers
        PROVE  /\ worker[v].item # None => worker[v].item \in FilesOf(root)'
               /\ \A m \in Range(worker[v].out) : m \in Message /\ Sound(m) /\ Sound(m)'
    BY <1>1, <1>2, MembersAreTyped DEF Carried, HandsAreOurs, FilesOf
  <1>4. ASSUME NEW w \in Workers, Worker(w) PROVE HandsAreOurs'
    <2> DEFINE Ours == /\ worker'[w].item # None => worker'[w].item \in FilesOf(root)'
                       /\ \A m \in Range(worker'[w].out) : Sound(m)'
    <2>1. \A v \in Workers : v # w => worker'[v] = worker[v]
      BY <1>4 DEF Worker, TakeJob, Prepare, SendResult, WorkerEnds, TypeOK, TypeWorkers
    <2>2. worker \in [Workers -> WorkerStates]
      BY DEF TypeOK, TypeWorkers
    <2>3. ASSUME TakeJob(w) PROVE Ours
      <3>1. jobs \in Seq(Files) /\ jobs # << >>
        BY <2>3 DEF TakeJob, TypeOK, TypeChannels
      <3>2. Head(jobs) \in FilesOf(root)
        BY <3>1, RangeOfTail DEF Carried, JobsAreOurs
      <3>3. worker'[w].item \in {None, Head(jobs)} /\ worker'[w].out = << >>
        BY <2>2, <2>3, IdleTypes DEF TakeJob, Idle
      <3>4. QED
        BY <1>1, <3>2, <3>3, RangeOfNothing DEF FilesOf
    <2>4. ASSUME Prepare(w) PROVE Ours
      <3> PICK m \in Prepared(w, worker[w].item), noisy \in Noisy :
            worker' = [worker EXCEPT ![w] =
              [at |-> "sending", item |-> None,
               out |-> IF noisy THEN <<[m EXCEPT !.kind = "event"], m>> ELSE <<m>>]]
        BY <2>4 DEF Prepare
      <3>1. worker[w].item \in FilesOf(root)
        BY <2>4, <1>3, <1>1 DEF Prepare, TypeOK, TypeWorkers, FilesOf
      <3>2. root # None /\ worker[w].item \in Files
        BY <3>1 DEF FilesOf
      <3> DEFINE event == [m EXCEPT !.kind = "event"]
      <3>3. /\ m \in Message /\ event \in Message
            /\ Sound(m) /\ Sound(event)
        BY <3>1, <3>2, PreparedIsSound, PreparedType DEF Message, Outcomes
      <3> HIDE DEF event
      <3>4. Range(<<event, m>>) = {event, m} /\ Range(<<m>>) = {m}
        BY DEF Range
      <3>5. worker'[w].item = None /\ worker'[w].out \in {<<event, m>>, <<m>>}
        BY <2>2 DEF event
      <3>6. QED
        BY <1>2, <3>3, <3>4, <3>5
    <2>5. ASSUME SendResult(w) PROVE Ours
      <3>1. worker[w].out \in Seq(Message) /\ worker[w].out # << >>
        BY <2>2, <2>5 DEF SendResult, TypeOK, TypeWorkers, WorkerStates
      <3>2. Range(worker[w].out) = {Head(worker[w].out)} \cup Range(Tail(worker[w].out))
        BY <3>1, RangeOfTail
      <3>3. worker'[w].item = worker[w].item /\ worker'[w].out = Tail(worker[w].out)
        BY <2>2, <2>5 DEF SendResult, WorkerStates
      <3>4. QED
        BY <1>3, <3>2, <3>3
    <2>6. ASSUME WorkerEnds(w) PROVE Ours
      BY <2>2, <2>6, IdleTypes, RangeOfNothing DEF WorkerEnds
    <2>7. Ours
      BY <1>4, <2>3, <2>4, <2>5, <2>6 DEF Worker
    <2>8. QED
      BY <1>3, <2>1, <2>7 DEF HandsAreOurs
  <1>5. CASE worker' = worker
    BY <1>3, <1>5 DEF HandsAreOurs
  <1>6. (\E w \in Workers : Worker(w)) \/ worker' = worker
    BY DEF Working, Discovery, WalkPast, WalkFinds, WalkStops, WalkErrs, ReportError, SendJob,
       SendFails, WalkEnds, Receive, Discard, ReceiveEvent, ReceiveFailure, ReceiveUnchanged,
       ReceivePayload, ReceiveFatal, FlushRest, Embed, Commit, CommitFails, CommitFatal, Edit,
       vars, threads
  <1>7. QED
    BY <1>4, <1>5, <1>6

LEMMA ResultsWorking ==
  ASSUME Inductive, Carried, Working
  PROVE  ResultsAreSound'
  <1> USE DEF Inductive
  <1>1. root' = root
    BY WorkingKeeps
  <1>2. \A m \in Message : Sound(m) => Sound(m)'
    BY SoundStays DEF Carried
  <1>3. \A m \in Range(results) : Sound(m)'
    BY <1>2, MembersAreTyped DEF Carried, ResultsAreSound
  <1>4. CASE ReportError
    <2> DEFINE m == [kind |-> "walk_error", file |-> disc.item, version |-> Absent]
    <2>1. m \in Message /\ disc.item # None
      BY <1>4 DEF ReportError, Message, Outcomes, Contents, TypeOK, TypeDiscovery, Maybe
    <2>2. Sound(m)
      BY <2>1 DEF Sound, Carried, JobsAreOurs
    <2> HIDE DEF m
    <2>3. Range(Append(results, m)) = Range(results) \cup {m}
      BY <2>1, RangeOfAppend DEF TypeOK, TypeChannels
    <2>4. results' = Append(results, m)
      BY <1>4 DEF ReportError, m
    <2>5. QED
      BY <1>2, <1>3, <2>1, <2>2, <2>3, <2>4 DEF ResultsAreSound
  <1>5. ASSUME NEW w \in Workers, SendResult(w) PROVE ResultsAreSound'
    <2>1. worker[w].out \in Seq(Message) /\ worker[w].out # << >>
      BY <1>5 DEF SendResult, TypeOK, TypeWorkers, WorkerStates
    <2> DEFINE m == Head(worker[w].out)
    <2>2. m \in Message /\ m \in Range(worker[w].out)
      BY <2>1, HeadTailProperties, RangeOfTail
    <2>3. Sound(m)
      BY <2>2 DEF Carried, HandsAreOurs
    <2>4. Range(Append(results, m)) = Range(results) \cup {m}
      BY <2>2, RangeOfAppend DEF TypeOK, TypeChannels
    <2>5. results' = Append(results, m)
      BY <1>5 DEF SendResult
    <2>6. QED
      BY <1>2, <1>3, <2>2, <2>3, <2>4, <2>5 DEF ResultsAreSound
  <1>6. CASE Receive
    <2>1. Receiving /\ results' = Tail(results)
      BY <1>6 DEF Receive, Discard, ReceiveEvent, ReceiveFailure, ReceiveUnchanged,
         ReceivePayload, ReceiveFatal
    <2>2. Range(results) = {Head(results)} \cup Range(results')
      BY <2>1, RangeOfTail DEF TypeOK, TypeChannels, Receiving
    <2>3. QED
      BY <1>3, <2>2 DEF ResultsAreSound
  <1>7. CASE results' = results
    BY <1>3, <1>7 DEF ResultsAreSound
  <1>8. ReportError \/ (\E w \in Workers : SendResult(w)) \/ Receive \/ results' = results
    BY DEF Working, Discovery, WalkPast, WalkFinds, WalkStops, WalkErrs, SendJob, SendFails,
       WalkEnds, Worker, TakeJob, Prepare, WorkerEnds, FlushRest, Embed, Commit, CommitFails,
       CommitFatal, Edit, vars
  <1>9. QED
    BY <1>4, <1>5, <1>6, <1>7, <1>8

LEMMA BatchWorking ==
  ASSUME Inductive, Carried, Working
  PROVE  BatchIsSound'
  <1> USE DEF Inductive
  <1>1. root' = root /\ \A f \in Files : saw[f] \subseteq saw'[f]
    BY SoundStays DEF Carried
  <1>2. \A e \in Range(pending) : e.file \in FilesOf(root)' /\ e.version \in saw'[e.file]
    BY <1>1, MembersAreTyped DEF Carried, BatchIsSound, FilesOf
  <1>3. pending \in Seq([file : Files, version : Versions])
    BY DEF TypeOK, TypeConsumer
  <1>4. CASE ReceivePayload
    <2> DEFINE doc == [file |-> Got.file, version |-> Got.version]
    <2>1. Got \in Range(results) /\ Got \in Message /\ Got.kind = "payload"
      BY <1>4, HeadTailProperties, RangeOfTail DEF ReceivePayload, Receiving, Got, TypeOK,
         TypeChannels
    <2>2. doc \in [file : Files, version : Versions]
      BY <2>1 DEF Message, Contents
    <2>3. Got.file \in FilesOf(root) /\ Got.version \in saw[Got.file] /\ Got.file \in Files
      BY <2>1 DEF Carried, ResultsAreSound, Sound, Message
    <2>4. doc.file \in FilesOf(root)' /\ doc.version \in saw'[doc.file]
      BY <1>1, <2>3 DEF FilesOf
    <2>5. pending' = Append(pending, doc)
      BY <1>4 DEF ReceivePayload
    <2> HIDE DEF doc
    <2> DEFINE entries == [file : Files, version : Versions]
    <2>6. Range(pending') = Range(pending) \cup {doc}
      <3>1. pending \in Seq(entries) /\ doc \in entries
        BY <1>3, <2>2
      <3> HIDE DEF entries
      <3>2. Range(Append(pending, doc)) = Range(pending) \cup {doc}
        BY <3>1, RangeOfAppend
      <3>3. QED
        BY <2>5, <3>2
    <2>7. ASSUME NEW e \in Range(pending')
          PROVE  e.file \in FilesOf(root)' /\ e.version \in saw'[e.file]
      <3>1. e \in Range(pending) \/ e = doc
        BY <2>6
      <3>2. QED
        BY <1>2, <2>4, <3>1
    <2>8. QED
      BY <2>7 DEF BatchIsSound
  <1>5. CASE Commit \/ CommitFails
    <2>1. pending # << >> /\ pending' = Tail(pending)
      BY <1>5 DEF Commit, CommitFails, Rest, TypeOK, TypeConsumer
    <2>2. Range(pending) = {Head(pending)} \cup Range(pending')
      BY <1>3, <2>1, RangeOfTail
    <2>3. QED
      BY <1>2, <2>2 DEF BatchIsSound
  <1>6. CASE CommitFatal
    BY <1>6, RangeOfNothing DEF CommitFatal, BatchIsSound
  <1>7. CASE pending' = pending
    BY <1>2, <1>7 DEF BatchIsSound
  <1>8. ReceivePayload \/ Commit \/ CommitFails \/ CommitFatal \/ pending' = pending
    BY DEF Working, Discovery, WalkPast, WalkFinds, WalkStops, WalkErrs, ReportError, SendJob,
       SendFails, WalkEnds, Worker, TakeJob, Prepare, SendResult, WorkerEnds, Receive, Discard,
       ReceiveEvent, ReceiveFailure, ReceiveUnchanged, ReceiveFatal, FlushRest, Embed, Edit,
       vars, consumer
  <1>9. QED
    BY <1>4, <1>5, <1>6, <1>7, <1>8

\* Only the consumer touches the store, and only at the document it holds.
LEMMA SeenWorking ==
  ASSUME Settled, Carried, SeenPast, Working
  PROVE  SeenPast'
  <1> USE DEF Settled, Inductive
  <1>1. sources' = sources /\ runs' = runs
    BY WorkingKeeps
  <1>2. /\ \A f \in Files : docs[f] \in Docs \cup {NoDoc}
        /\ \A r \in Roots : sources[r].attempted \in Nat
        /\ run \in Nat /\ RootOf \in [Files -> Roots]
    BY DEF TypeOK, TypeStore
  <1>3. ASSUME NEW g \in FilesOf(root) PROVE sources[RootOf[g]].attempted = run /\ g \in Files
    BY <1>3 DEF Counts, RootCounts, FilesOf
  <1>4. CASE Receive
    <2>1. docs' = docs \/ docs' = SeenAt(docs, Got.file)
      BY <1>4 DEF Receive, Discard, ReceiveEvent, ReceiveFailure, ReceiveUnchanged,
         ReceivePayload, ReceiveFatal, store
    <2>2. Got \in Range(results)
      BY <1>4, RangeOfTail DEF Receive, Discard, ReceiveEvent, ReceiveFailure, ReceiveUnchanged,
         ReceivePayload, ReceiveFatal, Receiving, Got, TypeOK, TypeChannels
    <2>3. Got.file \in FilesOf(root)
      BY <2>2 DEF Carried, ResultsAreSound, Sound
    <2>4. CASE docs' = SeenAt(docs, Got.file)
      <3>1. PICK g : g = Got.file
        OBVIOUS
      <3>2. g \in Files /\ sources[RootOf[g]].attempted = run
        BY <1>3, <2>3, <3>1
      <3>3. /\ \A f \in Files : f # g => docs'[f] = docs[f]
            /\ Stored(g)' <=> Stored(g)
            /\ Stored(g) => docs'[g].seen = run
        BY <2>4, <3>1, <3>2, MarkingKeeps
      <3>4. QED
        BY <1>1, <1>2, <3>2, <3>3 DEF SeenPast, Stored
    <2>5. CASE docs' = docs
      BY <1>1, <2>5 DEF SeenPast, Stored
    <2>6. QED
      BY <2>1, <2>4, <2>5
  <1>5. CASE Commit
    <2> DEFINE g == Head(pending).file
    <2>1. Head(pending) \in Range(pending)
      BY <1>5, RangeOfTail DEF Commit, TypeOK, TypeConsumer
    <2>2. g \in FilesOf(root)
      BY <2>1 DEF Carried, BatchIsSound
    <2>3. /\ docs'[g].seen = run
          /\ \A f \in Files : f # g => docs'[f] = docs[f]
      BY <1>3, <1>5, <2>2 DEF Commit, TypeOK, TypeStore
    <2> HIDE DEF g
    <2>4. QED
      BY <1>1, <1>2, <1>3, <2>2, <2>3 DEF SeenPast, Stored
  <1>6. CASE docs' = docs
    BY <1>1, <1>6 DEF SeenPast, Stored
  <1>7. docs' = docs \/ Receive \/ Commit
    BY DEF Working, Discovery, WalkPast, WalkFinds, WalkStops, WalkErrs, ReportError, SendJob,
       SendFails, WalkEnds, Worker, TakeJob, Prepare, SendResult, WorkerEnds, FlushRest,
       Embed, CommitFails, CommitFatal, Edit, vars, store
  <1>8. QED
    BY <1>4, <1>5, <1>6, <1>7

\* What stands after one step of what `Followed` says of a document.
Told(f) == Spoilt \/ InFlight(f) \/ Queued(f) \/ UpToDate(f)

\* The threads find a file, and carry it on.
LEMMA ThreadsFollow ==
  ASSUME Mirrored, root # None, NEW f \in FilesOf(root), Due(f)',
         Discovery \/ \E w \in Workers : Worker(w)
  PROVE  Told(f)'
  <1> USE DEF Mirrored, Settled
  <1>0. f \in Files /\ Working
    BY DEF FilesOf, Working
  <1>1. UNCHANGED <<docs, runs, pending, failed, before, saw, opts, stop>>
    BY DEF Discovery, WalkPast, WalkFinds, WalkStops, WalkErrs, ReportError, SendJob,
       SendFails, WalkEnds, Worker, TakeJob, Prepare, SendResult, WorkerEnds, store, consumer,
       command, shared
  <1>2. (Spoilt => Spoilt') /\ (Queued(f) => Queued(f)') /\ (UpToDate(f) => UpToDate(f)')
    BY <1>1 DEF Spoilt, Queued, UpToDate, Good, Stored
  <1>3. InFlight(f) => stop \/ InFlight(f)'
    BY <1>0, DiscoveryCarries, WorkerCarries
  <1>4. CASE Due(f)
    BY <1>1, <1>2, <1>3, <1>4 DEF Followed, Told, Spoilt
  <1>5. CASE ~Due(f)
    <2>1. walk[f] # "found" /\ walk'[f] = "found"
      BY <1>1, <1>5 DEF Due, Stored
    <2>2. walk \in [Files -> {"unvisited", "found", "gone", "error"}]
      BY DEF Inductive, TypeOK, TypeDiscovery
    <2>3. PICK g \in Files : WalkFinds(g)
      <3>1. \A g \in Files : ~WalkPast(g)
        BY <1>0, <2>1, <2>2 DEF WalkPast
      <3>2. ~WalkErrs
        BY <1>0, <2>1, <2>2 DEF WalkErrs
      <3>3. walk' # walk
        BY <2>1
      <3>4. QED
        BY <3>1, <3>2, <3>3 DEF Discovery, WalkStops, ReportError, SendJob, SendFails, WalkEnds,
           Worker, TakeJob, Prepare, SendResult, WorkerEnds
    <2>4. f = g
      BY <1>0, <2>1, <2>2, <2>3 DEF WalkFinds
    <2>5. disc' = [at |-> "sending", item |-> f]
      BY <2>3, <2>4 DEF WalkFinds
    <2>6. InFlight(f)'
      BY <2>5 DEF InFlight
    <2>7. QED
      BY <2>6 DEF Told
  <1>6. QED
    BY <1>4, <1>5

\* The file of the message that the consumer takes: failed, up to date, or
\* in the batch.
LEMMA ReceivedFollows ==
  ASSUME Mirrored, root # None, Receive, NEW f \in Files, Carries(Got, f)
  PROVE  Spoilt' \/ Queued(f)' \/ UpToDate(f)'
  <1> USE DEF Mirrored, Settled
  <1>1. /\ Receiving /\ Got \in Range(results) /\ Got \in Message
        /\ pending \in Seq([file : Files, version : Versions])
        /\ failed \in Nat /\ before \in Nat /\ before <= failed
    BY HeadTailProperties, RangeOfTail DEF Receive, Discard, ReceiveEvent, ReceiveFailure,
       ReceiveUnchanged, ReceivePayload, ReceiveFatal, Receiving, Got, Inductive, TypeOK,
       TypeChannels, TypeConsumer, Counts, RootCounts
  <1>2. Got.file = f /\ Sound(Got)
    BY <1>1 DEF Carried, ResultsAreSound, Carries
  <1>3. CASE Discard
    BY <1>3 DEF Discard, Attentive, Inductive, Order, StopIsHeard, Spoilt, shared
  <1>4. CASE ReceiveEvent
    BY <1>4 DEF ReceiveEvent, Carries
  <1>5. CASE ReceiveFailure
    BY <1>1, <1>5 DEF ReceiveFailure, CountFailure, Spoilt
  <1>6. CASE ReceiveUnchanged
    <2>1. Good(f)
      BY <1>2, <1>6 DEF ReceiveUnchanged, Sound, Good, Current
    <2>2. docs' = SeenAt(docs, f) /\ UNCHANGED <<saw, runs, opts>>
      BY <1>2, <1>6 DEF ReceiveUnchanged, command
    <2>3. Stored(f)' /\ docs'[f].version = docs[f].version /\ docs'[f].recipe = docs[f].recipe
          /\ docs'[f].seen = run
      BY <1>2, <2>1, <2>2, MarkingKeeps DEF Good, Inductive
    <2>4. UpToDate(f)'
      BY <2>1, <2>2, <2>3 DEF UpToDate, Good, Stored
    <2>5. QED
      BY <2>4
  <1>7. CASE ReceivePayload
    <2> DEFINE doc == [file |-> Got.file, version |-> Got.version]
               entries == [file : Files, version : Versions]
    <2>1. doc \in entries /\ doc.file = f /\ pending' = Append(pending, doc)
      BY <1>1, <1>2, <1>7 DEF ReceivePayload, Message, Contents
    <2>2. pending \in Seq(entries)
      BY <1>1
    <2> HIDE DEF doc, entries
    <2>3. Range(Append(pending, doc)) = Range(pending) \cup {doc}
      BY <2>1, <2>2, RangeOfAppend
    <2>4. Queued(f)'
      BY <2>1, <2>3 DEF Queued
    <2>5. QED
      BY <2>4
  <1>8. CASE ReceiveFatal
    BY <1>8 DEF ReceiveFatal, GiveUp, Spoilt
  <1>9. QED
    BY <1>3, <1>4, <1>5, <1>6, <1>7, <1>8 DEF Receive

LEMMA ReceiveFollows ==
  ASSUME Mirrored, root # None, Receive, NEW f \in FilesOf(root), Due(f)'
  PROVE  Told(f)'
  <1> USE DEF Mirrored, Settled
  <1>0. f \in Files /\ Working
    BY DEF FilesOf, Working
  <1>1. /\ Receiving /\ results' = Tail(results) /\ UNCHANGED <<runs, opts, saw, threads, before>>
        /\ Range(results) = {Got} \cup Range(results')
    BY RangeOfTail DEF Receive, Discard, ReceiveEvent, ReceiveFailure, ReceiveUnchanged,
       ReceivePayload, ReceiveFatal, Receiving, Got, Inductive, TypeOK, TypeChannels, consumer,
       command, store
  <1>2. CASE Carries(Got, f)
    BY <1>0, <1>2, ReceivedFollows DEF Told
  <1>3. CASE ~Carries(Got, f)
    <2>1. InFlight(f) => InFlight(f)'
      BY <1>1, <1>3 DEF InFlight, threads
    <2>2. Spoilt => Spoilt'
      BY <1>0, <1>1, WorkingKeeps DEF Spoilt
    <2>3. Queued(f) => Queued(f)'
      <3>1. CASE pending' = pending
        BY <3>1 DEF Queued
      <3>2. CASE ReceivePayload
        <4> DEFINE doc == [file |-> Got.file, version |-> Got.version]
                   entries == [file : Files, version : Versions]
        <4>1. Got \in Message
          BY <1>1, HeadTailProperties DEF Receiving, Got, Inductive, TypeOK, TypeChannels
        <4>2. doc \in entries /\ pending' = Append(pending, doc) /\ pending \in Seq(entries)
          BY <3>2, <4>1 DEF ReceivePayload, Message, Contents, Inductive, TypeOK, TypeConsumer
        <4> HIDE DEF doc, entries
        <4>3. Range(Append(pending, doc)) = Range(pending) \cup {doc}
          BY <4>2, RangeOfAppend
        <4>4. QED
          BY <4>2, <4>3 DEF Queued
      <3>3. QED
        BY <3>1, <3>2 DEF Receive, Discard, ReceiveEvent, ReceiveFailure, ReceiveUnchanged,
           ReceiveFatal, consumer
    <2>4. CASE docs'[f] = docs[f]
      <3>1. Due(f) /\ (UpToDate(f) => UpToDate(f)')
        BY <1>1, <2>4 DEF Due, UpToDate, Good, Stored, threads
      <3>2. QED
        BY <2>1, <2>2, <2>3, <3>1 DEF Followed, Told
    <2>5. CASE docs'[f] # docs[f]
      <3>1. docs' = SeenAt(docs, Got.file) /\ ~Discard /\ ~ReceiveEvent
        BY <2>5 DEF Receive, Discard, ReceiveEvent, ReceiveFailure, ReceiveUnchanged,
           ReceivePayload, ReceiveFatal, store
      <3>2. Got.file = f
        BY <1>0, <2>5, <3>1 DEF SeenAt, Inductive, TypeOK, TypeStore
      <3>3. Got.kind \in {"event", "walk_error"}
        BY <1>3, <3>2 DEF Carries
      <3>4. ReceiveFatal
        BY <2>5, <3>1, <3>3 DEF Receive, ReceiveFailure, ReceiveUnchanged, ReceivePayload
      <3>5. QED
        BY <3>4 DEF ReceiveFatal, GiveUp, Told, Spoilt
    <2>6. QED
      BY <2>4, <2>5
  <1>4. QED
    BY <1>2, <1>3

LEMMA FlushFollows ==
  ASSUME Mirrored, root # None, FlushRest \/ Embed \/ Commit \/ CommitFails \/ CommitFatal,
         NEW f \in FilesOf(root), Due(f)'
  PROVE  Told(f)'
  <1> USE DEF Mirrored, Settled
  <1>0. f \in Files /\ Working
    BY DEF FilesOf, Working
  <1>1. UNCHANGED <<runs, opts, saw, threads, results, before>>
    BY DEF FlushRest, Embed, Commit, CommitFails, CommitFatal, store, command
  <1>2. /\ failed \in Nat /\ before \in Nat /\ before <= failed
        /\ (Spoilt => Spoilt')
    <2>1. failed \in Nat /\ before \in Nat /\ failed' \in Nat /\ failed <= failed'
          /\ (stop => stop')
      BY <1>0, WorkingKeeps
    <2>2. QED
      BY <1>1, <2>1 DEF Spoilt, Counts, RootCounts
  <1>3. InFlight(f) => InFlight(f)'
    BY <1>1 DEF InFlight, threads
  <1>4. CASE UNCHANGED <<docs, pending>>
    <2>1. Due(f) /\ (UpToDate(f) => UpToDate(f)') /\ (Queued(f) => Queued(f)')
      BY <1>1, <1>4 DEF Due, UpToDate, Good, Stored, Queued, threads
    <2>2. QED
      BY <1>2, <1>3, <2>1 DEF Followed, Told
  <1>5. CASE CommitFails
    BY <1>2, <1>5 DEF CommitFails, Told, Spoilt
  <1>6. CASE CommitFatal
    BY <1>6 DEF CommitFatal, GiveUp, Told, Spoilt
  <1>7. CASE Commit
    <2> DEFINE entries == [file : Files, version : Versions]
               d == [version |-> Head(pending).version, recipe |-> opts.recipe, seen |-> run]
    <2>1. /\ pending \in Seq(entries) /\ pending # << >> /\ pending' = Tail(pending)
          /\ docs' = [docs EXCEPT ![Head(pending).file] = d]
          /\ Head(pending) \in entries /\ d # NoDoc
      BY <1>7, RestType DEF Commit, Rest, Inductive, TypeOK, TypeConsumer, NoDoc
    <2>2. Range(pending) = {Head(pending)} \cup Range(pending')
      <3> HIDE DEF entries
      <3>1. QED
        BY <2>1, RangeOfTail
    <2>3. CASE Head(pending).file = f
      <3>1. docs'[f] = d
        BY <1>0, <2>1, <2>3 DEF Inductive, TypeOK, TypeStore
      <3>2. Head(pending).version \in saw[f]
        BY <2>2, <2>3 DEF Carried, BatchIsSound
      <3>3. UpToDate(f)'
        BY <1>1, <2>1, <3>1, <3>2 DEF UpToDate, Good, Stored
      <3>4. QED
        BY <3>3 DEF Told
    <2>4. CASE Head(pending).file # f
      <3>1. docs'[f] = docs[f]
        BY <1>0, <2>1, <2>4 DEF Inductive, TypeOK, TypeStore
      <3>2. Due(f) /\ (UpToDate(f) => UpToDate(f)')
        BY <1>1, <3>1 DEF Due, UpToDate, Good, Stored, threads
      <3>3. Queued(f) => Queued(f)'
        BY <2>2, <2>4 DEF Queued
      <3>4. QED
        BY <1>2, <1>3, <3>2, <3>3 DEF Followed, Told
    <2>5. QED
      BY <2>3, <2>4
  <1>8. QED
    BY <1>4, <1>5, <1>6, <1>7 DEF FlushRest, Embed, store

LEMMA WorkingMirrored == Mirrored /\ Working => SingleIsFound' /\ SeenPast' /\ Carried' /\ Followed'
  <1> SUFFICES ASSUME Mirrored, Working
               PROVE  SingleIsFound' /\ SeenPast' /\ Carried' /\ Followed'
    OBVIOUS
  <1> USE DEF Mirrored, Settled
  <1>1. SingleIsFound' /\ SeenPast'
    BY SingleWorking, SeenWorking
  <1>2. Carried'
    BY JobsWorking, HandsWorking, ResultsWorking, BatchWorking DEF Carried
  <1>3. root' = root
    BY WorkingKeeps
  <1>4. ASSUME root # None, NEW f \in FilesOf(root), Due(f)' PROVE Told(f)'
    <2>1. CASE Discovery \/ \E w \in Workers : Worker(w)
      BY <1>4, <2>1, ThreadsFollow
    <2>2. CASE Receive
      BY <1>4, <2>2, ReceiveFollows
    <2>3. CASE FlushRest \/ Embed \/ Commit \/ CommitFails \/ CommitFatal
      BY <1>4, <2>3, FlushFollows
    <2>4. CASE (\E g \in Files : Edit(g)) \/ UNCHANGED vars
      <3>1. /\ UNCHANGED <<docs, runs, opts, threads, results, pending, stop, failed, before>>
            /\ f \in Files
        BY <2>4 DEF Edit, vars, store, command, shared, consumer, FilesOf
      <3>2. saw[f] \subseteq saw'[f]
        BY <2>4, <3>1, SoundStays DEF Carried, Working
      <3>3. Due(f) /\ (Told(f) => Told(f)')
        BY <1>4, <3>1, <3>2 DEF Due, Told, Spoilt, InFlight, Queued, UpToDate, Good, Stored, threads
      <3>4. QED
        BY <1>4, <3>3 DEF Followed, Told
    <2>5. QED
      BY <2>1, <2>2, <2>3, <2>4 DEF Working
  <1>5. Followed'
    BY <1>3, <1>4 DEF Followed, Told, FilesOf
  <1>6. QED
    BY <1>1, <1>2, <1>5

\* Where no pipeline is there is nothing to follow.
LEMMA EmptyCarries ==
  ASSUME root' = None, Emptied'
  PROVE  SingleIsFound' /\ Carried' /\ Followed'
  <1>1. root' \notin Single
    OBVIOUS
  <1>2. /\ disc'.item = None /\ Range(jobs') = {} /\ Range(results') = {} /\ Range(pending') = {}
        /\ \A w \in Workers : worker'[w].item = None /\ Range(worker'[w].out) = {}
    BY IdleTypes, RangeOfNothing DEF Emptied, NoDisc
  <1>3. Carried'
    BY <1>2 DEF Carried, JobsAreOurs, HandsAreOurs, ResultsAreSound, BatchIsSound
  <1>4. QED
    BY <1>1, <1>3 DEF SingleIsFound, Followed

LEMMA OpenMirrored ==
  ASSUME Mirrored, OpenRoot
  PROVE  SingleIsFound' /\ SeenPast' /\ Carried' /\ Followed'
  <1> USE DEF Mirrored, Settled
  <1>1. PICK r \in inputs :
          /\ root' = r
          /\ sources' = [sources EXCEPT ![r].attempted = run]
          /\ IF r \in Single
               THEN /\ disc' = [at |-> "sending", item |-> OnlyFile(r)]
                    /\ walk' = [f \in Files |-> IF f = OnlyFile(r) THEN "found" ELSE "unvisited"]
               ELSE /\ disc' = [at |-> "walking", item |-> None]
                    /\ walk' = NoWalk
    BY DEF OpenRoot
  <1>2. /\ r \in Roots /\ root = None /\ run \in Nat
        /\ sources \in [Roots -> [attempted : Nat, successful : Nat]]
        /\ sources[r].attempted < run
    BY DEF OpenRoot, Inductive, TypeOK, TypeStore, TypeCommand, Order, OpenWhileRunning, Counts,
       InputsAhead
  <1>3. /\ UNCHANGED <<docs, runs, jobs, results, pending>>
        /\ worker' = [w \in Workers |-> Idle]
    BY DEF OpenRoot
  <1>4. jobs = << >> /\ results = << >> /\ pending = << >>
    BY <1>2 DEF Flags, Emptied
  <1>5. SingleIsFound'
    BY <1>1, OnlyFileIsIt DEF SingleIsFound
  <1>6. SeenPast'
    <2>1. \A s \in Roots : sources[s].attempted \in Nat /\ sources[s].attempted <= run
      BY <1>2 DEF Counts, AttemptsPast
    <2>2. \A s \in Roots : sources'[s].attempted = IF s = r THEN run ELSE sources[s].attempted
      BY <1>1, <1>2
    <2>3. \A f \in Files : RootOf[f] \in Roots /\ docs[f] \in Docs \cup {NoDoc}
      BY DEF Inductive, TypeOK, TypeStore
    <2>4. \A f \in Files : Stored(f) => docs[f].seen \in Nat
      BY <2>3 DEF Stored, Docs
    <2>5. ASSUME NEW f \in Files, Stored(f)
          PROVE  docs[f].seen <= sources'[RootOf[f]].attempted
      <3>1. RootOf[f] \in Roots /\ docs[f].seen \in Nat
        BY <2>3, <2>4, <2>5
      <3>2. docs[f].seen <= sources[RootOf[f]].attempted
        BY <2>5 DEF SeenPast
      <3> HIDE DEF run
      <3>3. sources[RootOf[f]].attempted <= sources'[RootOf[f]].attempted
            /\ sources[RootOf[f]].attempted \in Nat /\ sources'[RootOf[f]].attempted \in Nat
        BY <1>2, <2>1, <2>2, <3>1
      <3>4. QED
        BY <3>1, <3>2, <3>3
    <2>6. QED
      BY <1>3, <2>5 DEF SeenPast, Stored
  <1>7. Carried'
    <2>1. JobsAreOurs'
      BY <1>1, <1>3, <1>4, OnlyFileIsIt, RangeOfNothing DEF JobsAreOurs
    <2>2. HandsAreOurs'
      BY <1>3, IdleTypes, RangeOfNothing DEF HandsAreOurs
    <2>3. ResultsAreSound' /\ BatchIsSound'
      BY <1>3, <1>4, RangeOfNothing DEF ResultsAreSound, BatchIsSound
    <2>4. QED
      BY <2>1, <2>2, <2>3 DEF Carried
  <1>8. ASSUME NEW f \in FilesOf(r), Due(f)' PROVE InFlight(f)'
    <2>1. f \in Files /\ RootOf[f] = r
      BY <1>8 DEF FilesOf
    <2>2. ~(Stored(f) /\ docs[f].seen = run)
      <3>1. Stored(f) => docs[f].seen <= sources[r].attempted /\ docs[f].seen \in Nat
        BY <2>1 DEF SeenPast, Stored, Inductive, TypeOK, TypeStore, Docs
      <3>2. sources[r].attempted \in Nat
        BY <1>2
      <3>3. QED
        BY <1>2, <3>1, <3>2
    <2>3. walk'[f] = "found"
      BY <1>3, <1>8, <2>2 DEF Due, Stored
    <2>4. r \in Single /\ f = OnlyFile(r)
      BY <1>1, <2>1, <2>3 DEF NoWalk
    <2>5. disc'.at = "sending" /\ disc'.item = f
      BY <1>1, <2>4
    <2>6. QED
      BY <2>5 DEF InFlight
  <1>9. Followed'
    BY <1>1, <1>8 DEF Followed, FilesOf
  <1>10. QED
    BY <1>5, <1>6, <1>7, <1>9

LEMMA NextMirrored == Mirrored /\ [Next]_vars => Mirrored'
  <1> SUFFICES ASSUME Mirrored, [Next]_vars PROVE Mirrored'
    OBVIOUS
  <1>1. Settled'
    BY NextSettled DEF Mirrored
  <1>2. CASE Working
    BY <1>1, <1>2, WorkingMirrored DEF Mirrored
  <1>3. CASE OpenRoot
    BY <1>1, <1>3, OpenMirrored DEF Mirrored
  <1>4. CASE StartRun \/ InputFails \/ EndRun \/ FinishRoot \/ Abandon \/ Crash
    <2>1. root' = None
      BY <1>4 DEF StartRun, InputFails, EndRun, FinishRoot, Abandon, Crash, ClosePipeline, shared,
         Mirrored, Settled, Inductive, Order, OpenWhileRunning
    <2>2. SingleIsFound' /\ Carried' /\ Followed'
      BY <1>1, <2>1, EmptyCarries DEF Settled, Flags
    <2>3. SeenPast'
      <3>1. CASE FinishRoot
        <4>1. \A f \in Files : docs'[f] \in {NoDoc, docs[f]}
          BY <3>1 DEF FinishRoot
        <4>2. \A r \in Roots : sources'[r].attempted = sources[r].attempted
          BY <3>1 DEF FinishRoot, Mirrored, Settled, Inductive, TypeOK, TypeStore
        <4>3. \A f \in Files : RootOf[f] \in Roots
          OBVIOUS
        <4>4. QED
          BY <4>1, <4>2, <4>3 DEF SeenPast, Stored, Mirrored
      <3>2. CASE UNCHANGED <<docs, sources>>
        BY <3>2 DEF SeenPast, Stored, Mirrored
      <3>3. QED
        BY <1>4, <3>1, <3>2 DEF StartRun, InputFails, EndRun, Abandon, Crash, store
    <2>4. QED
      BY <1>1, <2>2, <2>3 DEF Mirrored
  <1>5. QED
    BY <1>2, <1>3, <1>4, Steps

LEMMA InitMirrored == Init => Mirrored
  <1> SUFFICES ASSUME Init PROVE Mirrored
    OBVIOUS
  <1>1. Settled /\ root = None
    BY InitSettled DEF Init
  <1>2. SingleIsFound /\ Carried /\ Followed
    <2>1. /\ disc.item = None /\ Range(jobs) = {} /\ Range(results) = {} /\ Range(pending) = {}
          /\ \A w \in Workers : worker[w].item = None /\ Range(worker[w].out) = {}
      BY IdleTypes, RangeOfNothing DEF Init, NoDisc
    <2>2. Carried
      BY <2>1 DEF Carried, JobsAreOurs, HandsAreOurs, ResultsAreSound, BatchIsSound
    <2>3. QED
      BY <1>1, <2>2 DEF SingleIsFound, Followed
  <1>3. SeenPast
    <2>1. \A f \in Files : Stored(f) => docs[f].seen = 0
      BY DEF Init, Stored
    <2>2. \A f \in Files : sources[RootOf[f]].attempted = 0
      BY DEF Init
    <2>3. QED
      BY <2>1, <2>2 DEF SeenPast
  <1>4. QED
    BY <1>1, <1>2, <1>3 DEF Mirrored

\* The body of `SuccessIsCurrent`, of the one step that records a success.
LEMMA RecordedIsCurrent ==
  ASSUME Mirrored, FinishRoot, Complete, failed = before, NEW f \in FilesOf(root)
  PROVE  IF docs'[f] = NoDoc THEN Absent \in saw[f]
         ELSE docs'[f].version \in saw[f] /\ docs'[f].recipe = opts.recipe
  <1> USE DEF Mirrored, Settled
  <1>1. /\ f \in Files /\ ~stop /\ traversal_ok /\ ChannelClosed /\ pending = << >>
        /\ failed \in Nat
    BY DEF FilesOf, Complete, FinishRoot, Inductive, TypeOK, TypeConsumer
  <1>2. root # None
    BY <1>1 DEF ChannelClosed, Inductive, Order, OpenWhileRunning
  <1>3. ~InFlight(f) /\ ~Queued(f) /\ ~Spoilt
    BY <1>1, <1>2, NothingInFlight, RangeOfNothing DEF Queued, Spoilt
  <1>4. Due(f) => UpToDate(f)
    BY <1>2, <1>3 DEF Followed
  <1>5. root \in Single => walk[f] = "found"
    BY OnlyFileIsIt DEF SingleIsFound
  <1>6. docs'[f] = IF root \notin Single /\ f \in Pruned(root, run) THEN NoDoc ELSE docs[f]
    BY <1>1 DEF FinishRoot
  <1>7. CASE Stored(f) /\ docs'[f] = NoDoc
    BY <1>1, <1>7, FinishPrunesAbsent
  <1>8. CASE ~Stored(f)
    <2>1. ~Due(f)
      BY <1>4, <1>8 DEF UpToDate, Good
    <2>2. AccountedFor(f) /\ DiscoveryDone
      BY <1>1, <1>2 DEF Inductive, Accounted, ChannelClosed
    <2>3. walk[f] \in {"unvisited", "found", "gone", "error"}
      BY <1>1 DEF Inductive, TypeOK, TypeDiscovery
    <2>4. walk[f] = "gone"
      BY <1>1, <1>5, <2>1, <2>2, <2>3 DEF AccountedFor, Due
    <2>5. docs'[f] = NoDoc
      BY <1>6, <1>8 DEF Stored
    <2>6. QED
      BY <2>2, <2>4, <2>5 DEF AccountedFor
  <1>9. CASE Stored(f) /\ docs'[f] # NoDoc
    <2>1. docs'[f] = docs[f]
      BY <1>6, <1>9
    <2>2. Due(f)
      <3>1. CASE root \in Single
        BY <1>5, <3>1 DEF Due
      <3>2. CASE root \notin Single
        BY <1>6, <1>9, <3>2 DEF Pruned, Due
      <3>3. QED
        BY <3>1, <3>2
    <2>3. QED
      BY <1>4, <1>9, <2>1, <2>2 DEF UpToDate, Good
  <1>10. QED
    BY <1>7, <1>8, <1>9

\* Nothing but the end of a root records a success, and it records its own.
LEMMA OnlyFinishRecords ==
  ASSUME Settled, [Next]_vars, NEW r \in Roots,
         sources'[r].successful # sources[r].successful
  PROVE  FinishRoot /\ Complete /\ failed = before /\ r = root
  <1>1. sources \in [Roots -> [attempted : Nat, successful : Nat]]
    BY DEF Settled, Inductive, TypeOK, TypeStore
  <1>2. ~OpenRoot
    <2> SUFFICES ASSUME OpenRoot PROVE FALSE
      OBVIOUS
    <2>1. PICK q \in inputs : sources' = [sources EXCEPT ![q].attempted = run]
      BY DEF OpenRoot
    <2>2. sources'[r].successful = sources[r].successful
      BY <1>1, <2>1
    <2>3. QED
      BY <2>2
  <1>3. FinishRoot
    BY <1>2, Steps, WorkingKeeps DEF Settled, StartRun, InputFails, EndRun, Abandon, Crash, store
  <1>4. QED
    BY <1>1, <1>3 DEF FinishRoot

\* A root recorded as successful mirrors the file system, whatever the number
\* of files, workers, batches and edits, and however the run is interleaved.
THEOREM SuccessMeansCurrent == Spec => SuccessIsCurrent
  <1>1. ASSUME Mirrored, [Next]_vars, NEW r \in Roots,
               sources'[r].successful # sources[r].successful, NEW f \in FilesOf(r)
        PROVE  IF docs'[f] = NoDoc THEN Absent \in saw[f]
               ELSE docs'[f].version \in saw[f] /\ docs'[f].recipe = opts.recipe
    BY <1>1, OnlyFinishRecords, RecordedIsCurrent DEF Mirrored
  <1>2. Mirrored /\ [Next]_vars =>
          [\A r \in Roots : sources'[r].successful # sources[r].successful =>
             \A f \in FilesOf(r) :
               IF docs'[f] = NoDoc THEN Absent \in saw[f]
               ELSE docs'[f].version \in saw[f] /\ docs'[f].recipe = opts.recipe]_vars
    BY <1>1
  <1>3. QED
    BY InitMirrored, NextMirrored, <1>2, PTL DEF Spec, SuccessIsCurrent

=============================================================================
