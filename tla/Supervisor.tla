----------------------------- MODULE Supervisor -----------------------------
(***************************************************************************)
(* The query supervisor: `serve` of retrieval/transport.rs.                *)
(*                                                                         *)
(* One thread multiplexes up to MaxClients connections (or standard input  *)
(* and output, `stream`) over one disposable engine process that executes  *)
(* one search at a time.  Every turn of its loop looks at the stop signal, *)
(* accepts connections, writes to, reads from and parses the frames of     *)
(* each client, bounds the retained output, polls the engine, releases it  *)
(* when idle, drops the clients that are done, and dispatches a search.    *)
(* All I/O is nonblocking, so what the peers do is what a call may return. *)
(***************************************************************************)
EXTENDS Integers, Sequences, SequencesExt, FiniteSetsExt

CONSTANTS
  Conns,           \* names of connections; a name may connect again later
  Ids,             \* request ids
  Ops,             \* the operations the peers use
  Bursts,          \* what one read may bring: frames, the last one perhaps partial
  Stream,          \* standard input and output, or a socket
  Metrics,         \* whether stage metrics are on
  MaxClients,      \* 8 in the code
  QueuePerClient,  \* searches queued per client (two in the code)
  Frames,          \* frames parsed per client and turn (four in the code)
  MaxResponse,     \* retained output of a client (8 MiB in the code)
  Sizes,           \* what a response may take of it; other packets take 1
  MaxConnects,     \* bound on the connections of a behaviour
  None             \* no id, no search

ASSUME SupervisorAssumption ==
  /\ Ops \subseteq {"lexical", "dense", "rejected", "cancel", "garbage"}
  /\ Stream \in BOOLEAN /\ Metrics \in BOOLEAN
  /\ MaxClients \in Nat \ {0} /\ QueuePerClient \in Nat \ {0}
  /\ Frames \in Nat \ {0} /\ MaxResponse \in Nat \ {0}
  /\ Sizes \subseteq 1..MaxResponse
  /\ Conns # {}
  /\ None \notin Conns \cup Ids \cup [client : Conns, id : Ids, op : Ops]

VARIABLES
  phase,      \* where the turn of the loop is
  at, budget, \* the client whose turn it is, and the frames it has left
  ring,       \* connected clients, in the order of their keys
  last,       \* how many of them have a key up to `last_client`
  conn,       \* [Conns -> the Client]
  active,     \* the search that is being executed
  engine,     \* the child process: none, used, or idle for too long
  stopping, exit,
  connects,
  \* history: requests answered by a failure; for the client whose search
  \* waits, the clients that were served since it has been waiting
  failures, served

vars == <<phase, at, budget, ring, last, conn, active, engine, stopping, exit, connects,
          failures, served>>

\* A frame on the wire: a search, one the contract rejects, a cancellation
\* (rejected without a target), or something that is no frame or has no id; a
\* partial frame has no end yet.
Searches == [op : {"lexical", "dense", "rejected"} \cap Ops, id : Ids, target : {None}]
Cancels  == [op : {"cancel"} \cap Ops, id : Ids, target : Ids \cup {None}]
Garbage  == [op : {"garbage"} \cap Ops, id : {None}, target : {None}]
Partial  == [op |-> "partial", id |-> None, target |-> None]
Wire     == Searches \cup Cancels \cup Garbage
Frame    == Wire \cup {Partial}

ASSUME BurstsAssumption ==
  /\ Bursts \subseteq Seq(Frame)
  /\ \A b \in Bursts : b # << >> /\ \A i \in 1..Len(b) - 1 : b[i] # Partial

Packet  == [release : Ids \cup {None}, size : 1..MaxResponse]
Control(id) == [release |-> id, size |-> 1]
Fresh == [input |-> << >>, pending |-> << >>, outstanding |-> {}, output |-> << >>,
          output_bytes |-> 0, eof |-> FALSE, dead |-> FALSE, framing |-> FALSE, blocked |-> FALSE]

OutputBytes(c) == conn[c].output_bytes
Connected == ToSet(ring)
Here == ring[at]

Init ==
  /\ phase = "signals" /\ at = 1 /\ budget = 0
  /\ ring = IF Stream THEN <<CHOOSE c \in Conns : TRUE>> ELSE << >>
  /\ last = 0
  /\ conn = [c \in Conns |-> Fresh]
  /\ active = None /\ engine = "none"
  /\ stopping = "no" /\ exit = 0 /\ connects = 0
  /\ failures = FALSE /\ served = [c \in Conns |-> {}]

\* The exit code, of a stream only: a worker ends with 0 or with an error.
AtLeast(code) == IF Stream /\ exit < code THEN code ELSE exit
Failure(happens) == failures' = (failures \/ (Stream /\ happens))

\* `Client::enqueue`: output beyond the limit kills the client instead.
Enqueue(k, packet) ==
  IF k.output_bytes + packet.size > MaxResponse THEN [k EXCEPT !.dead = TRUE]
  ELSE [k EXCEPT !.output = Append(@, packet), !.output_bytes = @ + packet.size]
FailId(k, id) == Enqueue(k, Control(id))
\* The same for several ids, one after the other.
FailAll(k, ids) ==
  LET answers == [i \in DOMAIN ids |-> Control(ids[i])]
      room == MaxResponse - k.output_bytes
  IN IF Len(ids) > room
     THEN [k EXCEPT !.dead = TRUE, !.output = @ \o SubSeq(answers, 1, room), !.output_bytes = MaxResponse]
     ELSE [k EXCEPT !.output = @ \o answers, !.output_bytes = @ + Len(ids)]
FrameError(k) ==
  [FailId([k EXCEPT !.framing = TRUE], None) EXCEPT !.eof = TRUE, !.input = << >>]

ActiveIs(c) == active # None /\ active.client = c
KillEngine == active' = None /\ engine' = "none"
Pass(next) == phase' = next /\ UNCHANGED <<at, budget>>

-----------------------------------------------------------------------------
(* The stop signal and new connections.                                    *)

\* Everything accepted is answered now; input that was not parsed is dropped.
Cancelled(c) ==
  LET k == conn[c]
      ids == (IF ActiveIs(c) THEN <<active.id>> ELSE << >>)
             \o [i \in DOMAIN k.pending |-> k.pending[i].id]
  IN [FailAll(k, ids) EXCEPT !.pending = << >>, !.eof = TRUE, !.input = << >>]

\* A wrong form: only the search that runs counts.
BusyEngine == active # None
Busy == active # None \/ \E c \in Connected : conn[c].pending # << >>

StopSignal ==
  /\ phase = "signals" /\ stopping = "no"
  /\ stopping' = "draining"
  /\ exit' = IF Busy THEN AtLeast(1) ELSE exit
  /\ Failure(active # None \/ \E c \in Connected : conn[c].pending # << >>)
  /\ conn' = [c \in Conns |-> IF c \in Connected THEN Cancelled(c) ELSE conn[c]]
  /\ KillEngine /\ Pass("accept")
  /\ UNCHANGED <<ring, last, connects, served>>

NoSignal ==
  /\ phase = "signals" /\ Pass("accept")
  /\ UNCHANGED <<ring, last, conn, active, engine, stopping, exit, connects, failures, served>>

\* A connection over the limit is told so and closed: nothing stays of it.
Accept(c) ==
  /\ phase = "accept" /\ ~Stream /\ stopping = "no"
  /\ connects < MaxConnects /\ c \notin Connected /\ Len(ring) < MaxClients
  /\ connects' = connects + 1
  /\ ring' = Append(ring, c) /\ conn' = [conn EXCEPT ![c] = Fresh]
  /\ UNCHANGED <<phase, at, budget, last, active, engine, stopping, exit, failures, served>>

\* `accept` fails for good: `serve` returns the error, and drops the engine.
AcceptFails ==
  /\ phase = "accept" /\ ~Stream /\ stopping = "no"
  /\ exit' = 3 /\ KillEngine /\ Pass("over")
  /\ UNCHANGED <<ring, last, conn, stopping, connects, failures, served>>

Accepted ==
  /\ phase = "accept"
  /\ IF ring = << >> THEN Pass("bound") ELSE phase' = "exchange" /\ at' = 1 /\ UNCHANGED budget
  /\ UNCHANGED <<ring, last, conn, active, engine, stopping, exit, connects, failures, served>>

-----------------------------------------------------------------------------
(* The turn of a client: write, read, and parse a few frames.              *)

\* A packet is written to its end, and its id is free again.
Flushed(k) == [k EXCEPT !.output = Tail(@), !.output_bytes = @ - Head(k.output).size,
                        !.outstanding = @ \ {Head(k.output).release}]

\* `Client::write`: no progress yet, the packet is out, or the peer is gone or
\* has not read for ten seconds.
Written(k) ==
  {k} \cup IF k.output = << >> THEN {} ELSE {Flushed(k), [k EXCEPT !.dead = TRUE]}

HasFrame(k) == k.input # << >> /\ Head(k.input) # Partial

\* `Client::read`: it does not read on while a frame is buffered; a partial
\* frame may grow, fill the buffer, or time out.
Received(k) ==
  LET open == [k EXCEPT !.blocked = @ /\ Len(k.pending) >= QueuePerClient]
  IN IF open.blocked THEN {open}
     ELSE IF k.eof \/ k.dead \/ HasFrame(k)
     THEN {open} \cup IF Stream THEN {} ELSE {[open EXCEPT !.dead = TRUE]}
     ELSE {open, [open EXCEPT !.dead = TRUE], [open EXCEPT !.eof = TRUE]}
          \cup {[open EXCEPT !.input = b] : b \in Bursts}
          \cup IF k.input = << >> THEN {} ELSE {FrameError(open)}

NextClient == IF at < Len(ring) THEN phase' = "exchange" /\ at' = at + 1 /\ UNCHANGED budget
                                ELSE Pass("bound")

Exchange ==
  /\ phase = "exchange"
  /\ \E k \in UNION {Received(w) : w \in Written(conn[Here])} : conn' = [conn EXCEPT ![Here] = k]
  /\ phase' = "parse" /\ UNCHANGED at
  /\ budget' = IF conn'[Here].dead \/ stopping # "no" THEN 0 ELSE Frames
  /\ UNCHANGED <<ring, last, active, engine, stopping, exit, connects, failures, served>>

\* The frame that is parsed now.
Parsing == phase = "parse" /\ budget > 0 /\ HasFrame(conn[Here]) /\ ~conn[Here].blocked
Got == Head(conn[Here].input)
Taken == [conn[Here] EXCEPT !.input = Tail(@), !.outstanding = @ \cup {Got.id}]
Full == Len(conn[Here].pending) >= QueuePerClient
IsSearch == Got.op \in {"lexical", "dense", "rejected"}
Client(k) == conn' = [conn EXCEPT ![Here] = k]
Duplicate == Got.id \in conn[Here].outstanding
Admitted == Parsing /\ Got.op # "garbage" /\ ~(Stream /\ Full /\ IsSearch) /\ ~Duplicate
Continue == budget' = budget - 1 /\ UNCHANGED <<phase, at>>

\* An extra search on standard input stays in the buffer.
HoldBack ==
  /\ Parsing /\ Stream /\ Full /\ IsSearch
  /\ Client([conn[Here] EXCEPT !.blocked = TRUE])
  /\ Continue
  /\ UNCHANGED <<ring, last, active, engine, stopping, exit, connects, failures, served>>

\* No frame, no id, or an id that is outstanding: the connection is closed.
RefuseFrame ==
  /\ Parsing
  /\ Got.op = "garbage" \/ (Duplicate /\ ~(Stream /\ Full /\ IsSearch))
  /\ Client(FrameError(conn[Here])) /\ exit' = AtLeast(2)
  /\ budget' = 0 /\ UNCHANGED <<phase, at>>
  /\ UNCHANGED <<ring, last, active, engine, stopping, connects, failures, served>>

\* A request that the contract rejects, or a search that finds the queue full.
Invalid == Got.op = "rejected" \/ (Got.op = "cancel" /\ Got.target = None)
RefuseRequest ==
  /\ Admitted /\ (Invalid \/ (IsSearch /\ Full))
  /\ Client(FailId(Taken, Got.id)) /\ exit' = AtLeast(1) /\ Failure(TRUE)
  /\ Continue
  /\ UNCHANGED <<ring, last, active, engine, stopping, connects, served>>

QueueSearch ==
  /\ Admitted /\ Got.op \in {"lexical", "dense"} /\ ~Full
  /\ Client([Taken EXCEPT !.pending = Append(@, [id |-> Got.id, op |-> Got.op])])
  /\ Continue
  /\ UNCHANGED <<ring, last, active, engine, stopping, exit, connects, failures, served>>

\* A wrong form: a cancelled search stays in the queue.
KeepQueued(k, target) == k
Unqueue(k, target) == [k EXCEPT !.pending = RemoveFirstMatch(@, LAMBDA f : f.id = target)]

\* A cancellation: a queued search leaves the queue, a running one takes the
\* engine with it, and either is answered; then the cancellation is.
Cancel ==
  LET target  == Got.target
      queued  == \E i \in DOMAIN Taken.pending : Taken.pending[i].id = target
      running == ActiveIs(Here) /\ active.id = target
      hit == queued \/ running
      k == IF hit THEN FailId(Unqueue(Taken, target), target) ELSE Taken
  IN /\ Admitted /\ Got.op = "cancel" /\ ~Invalid
     /\ Client(Enqueue(k, Control(Got.id)))
     /\ IF running /\ ~queued THEN KillEngine ELSE UNCHANGED <<active, engine>>
     /\ exit' = IF hit THEN AtLeast(1) ELSE exit
     /\ Failure(hit)
     /\ Continue
     /\ UNCHANGED <<ring, last, stopping, connects, served>>

\* The turn ends; input that ends in a partial frame is an error.
TurnEnds ==
  LET broken == conn[Here].eof /\ conn[Here].input # << >> /\ ~HasFrame(conn[Here])
  IN /\ phase = "parse" /\ ~Parsing
     /\ Client(IF broken THEN FrameError(conn[Here]) ELSE conn[Here])
     /\ exit' = IF broken THEN AtLeast(2) ELSE exit
     /\ NextClient
     /\ UNCHANGED <<ring, last, active, engine, stopping, connects, failures, served>>

-----------------------------------------------------------------------------
(* The rest of the turn of the loop.                                       *)

Alive == {c \in Connected : ~conn[c].dead}
\* The sum of a sequence of numbers: the last of its running totals.
Total(w) ==
  LET upTo[i \in 0..Len(w)] == IF i = 0 THEN 0 ELSE upTo[i - 1] + w[i]
  IN upTo[Len(w)]
RetainedBy(C) == Total([i \in DOMAIN ring |-> IF ring[i] \in C THEN OutputBytes(ring[i]) ELSE 0])
Retained == RetainedBy(Alive)

\* A wrong form: every client only has its own limit.
CutNobody(D) == D = {}
\* The clients D that are cut off until the others retain at most one response
\* together: those that retain most of it, and none too many.
CutOff(D) ==
  /\ RetainedBy(Alive \ D) <= MaxResponse
  /\ \A d \in D :
       /\ \A c \in Alive \ D : OutputBytes(c) <= OutputBytes(d)
       /\ RetainedBy((Alive \ D) \cup {d}) > MaxResponse

Bound ==
  /\ phase = "bound"
  /\ exit' = IF Stream /\ \E c \in Connected : conn[c].dead THEN AtLeast(3)
             ELSE IF \E c \in Connected : conn[c].framing THEN AtLeast(2) ELSE exit
  /\ \E D \in SUBSET Alive :
       /\ CutOff(D)
       /\ conn' = [c \in Conns |-> IF c \in D THEN [conn[c] EXCEPT !.dead = TRUE] ELSE conn[c]]
  /\ Pass("engine")
  /\ UNCHANGED <<ring, last, active, engine, stopping, connects, failures, served>>

\* The consumer of the running search is gone: so are the search and its
\* process.
\* A wrong form: the engine is left to finish.
NeverAbandon == FALSE
Orphaned == active # None /\ conn[active.client].dead

Abandon ==
  /\ phase = "engine" /\ Orphaned
  /\ KillEngine /\ Pass("retire")
  /\ UNCHANGED <<ring, last, conn, stopping, exit, connects, failures, served>>

\* The engine's complete response; only a search that really encoded its
\* query renews the residency of the model.
\* A wrong form: any answer renews it.
RenewedByAll(encoded) == "used"
Renewed(encoded) == IF encoded THEN "used" ELSE engine

Answer ==
  /\ phase = "engine" /\ active # None /\ ~Orphaned
  /\ \E size \in Sizes, failed \in BOOLEAN, encoded \in BOOLEAN :
       /\ encoded => active.op = "dense"
       /\ conn' = [conn EXCEPT ![active.client] = Enqueue(@, [release |-> active.id, size |-> size])]
       /\ exit' = IF failed THEN AtLeast(1) ELSE exit
       /\ Failure(failed)
       /\ engine' = Renewed(encoded)
  /\ active' = None /\ Pass("retire")
  /\ UNCHANGED <<ring, last, stopping, connects, served>>

\* It exits, breaks the protocol or its limit, or runs for thirty minutes.
EngineFails ==
  /\ phase = "engine" /\ active # None /\ ~Orphaned
  /\ conn' = [conn EXCEPT ![active.client] = FailId(@, active.id)]
  /\ exit' = AtLeast(1) /\ Failure(TRUE)
  /\ KillEngine /\ Pass("retire")
  /\ UNCHANGED <<ring, last, stopping, connects, served>>

NoAnswer ==
  /\ phase = "engine" /\ ~Orphaned /\ Pass("retire")
  /\ UNCHANGED <<ring, last, conn, active, engine, stopping, exit, connects, failures, served>>

QueuedDense == \E c \in Connected : \E i \in DOMAIN conn[c].pending : conn[c].pending[i].op = "dense"
Drained(c) == /\ conn[c].eof /\ conn[c].input = << >> /\ conn[c].pending = << >>
              /\ conn[c].output = << >> /\ ~ActiveIs(c)
Staying(c) == ~conn[c].dead /\ ~Drained(c)

\* A wrong form: a shutdown waits for every client.
FinishedDrained == ring' = << >> /\ (Stream \/ stopping # "no")
Finished == stopping = "late" \/ (ring' = << >> /\ (Stream \/ stopping # "no"))

\* The idle engine is released, and the clients that are done are dropped: what
\* was outstanding for them stays on record.  `retain` keeps the order.
Retire ==
  LET staying == {i \in DOMAIN ring : Staying(ring[i])} IN
  /\ phase = "retire"
  /\ \E kept \in [1..Cardinality(staying) -> staying] :
       /\ ToSet(kept) = staying /\ \A i, j \in DOMAIN kept : i < j => kept[i] < kept[j]
       /\ ring' = [i \in DOMAIN kept |-> ring[kept[i]]]
       /\ last' = Cardinality({i \in DOMAIN kept : kept[i] <= last})
  /\ conn' = [c \in Conns |-> IF c \in Connected \ ToSet(ring')
                              THEN [Fresh EXCEPT !.outstanding = conn[c].outstanding] ELSE conn[c]]
  /\ served' = [c \in Conns |-> IF c \in ToSet(ring') THEN served[c] \cap ToSet(ring') ELSE {}]
  /\ Pass(IF Finished THEN "over" ELSE "dispatch")
  /\ engine' = IF phase' = "over" \/ (engine = "idle" /\ active = None /\ ~QueuedDense)
               THEN "none" ELSE engine
  /\ UNCHANGED <<active, stopping, exit, connects, failures>>

\* A wrong form: a half-closed connection is not served any more.
WaitingOpen(c) == ~conn[c].eof /\ conn[c].pending # << >>
Waiting(c) == conn[c].pending # << >> /\ OutputBytes(c) < MaxResponse \div 2
\* A wrong form: the ring always starts over.
FirstInRing(i) == \A j \in DOMAIN ring : j < i => ~Waiting(ring[j])
\* `min_by_key` of (c.key <= last_client, c.key).
NextInRing(i) ==
  \/ i > last /\ \A j \in last + 1..i - 1 : ~Waiting(ring[j])
  \/ i <= last /\ \A j \in DOMAIN ring : j > last \/ j < i => ~Waiting(ring[j])
MayDispatch == active = None /\ stopping = "no" /\ Retained <= MaxResponse

\* The next search of the next client in the ring goes to the engine, which is
\* started when there is none; that may fail.
Dispatch ==
  /\ phase = "dispatch" /\ MayDispatch
  /\ \E i \in DOMAIN ring :
       LET c == ring[i]
           job == Head(conn[c].pending)
           k == [conn[c] EXCEPT !.pending = Tail(@)]
       IN /\ Waiting(c) /\ NextInRing(i)
          /\ last' = i
          /\ served' = [d \in Conns |-> IF d # c /\ d \in Connected /\ Waiting(d)
                                        THEN served[d] \cup {c} ELSE {}]
          /\ \/ /\ active' = [client |-> c, id |-> job.id, op |-> job.op]
                /\ engine' = IF engine = "none" THEN "used" ELSE engine
                /\ conn' = [conn EXCEPT ![c] = IF Metrics THEN Enqueue(k, Control(None)) ELSE k]
                /\ UNCHANGED <<exit, failures>>
             \/ /\ KillEngine
                /\ conn' = [conn EXCEPT ![c] = FailId(k, job.id)]
                /\ exit' = AtLeast(1) /\ Failure(TRUE)
  /\ Pass("signals")
  /\ UNCHANGED <<ring, stopping, connects>>

NoDispatch ==
  /\ phase = "dispatch" /\ ~(MayDispatch /\ \E c \in Connected : Waiting(c))
  /\ Pass("signals")
  /\ UNCHANGED <<ring, last, conn, active, engine, stopping, exit, connects, failures, served>>

\* Time: the idle timeout of the engine, and the ten seconds of a shutdown.
GoesIdle ==
  /\ phase # "over" /\ engine = "used" /\ engine' = "idle"
  /\ UNCHANGED <<phase, at, budget, ring, last, conn, active, stopping, exit, connects,
                 failures, served>>
StopsLate ==
  /\ phase # "over" /\ stopping = "draining" /\ stopping' = "late"
  /\ UNCHANGED <<phase, at, budget, ring, last, conn, active, engine, exit, connects,
                 failures, served>>
Over == phase = "over" /\ UNCHANGED vars

Turn == \/ NoSignal \/ Accepted
        \/ Exchange \/ HoldBack \/ RefuseFrame \/ RefuseRequest \/ QueueSearch \/ Cancel \/ TurnEnds
        \/ Bound \/ Abandon \/ Answer \/ EngineFails \/ NoAnswer \/ Retire
        \/ Dispatch \/ NoDispatch
Next == Turn \/ StopSignal \/ (\E c \in Conns : Accept(c)) \/ AcceptFails
          \/ GoesIdle \/ StopsLate \/ Over

Spec == Init /\ [][Next]_vars

\* The thread runs, and clocks go on.
FairSpec == Spec /\ WF_vars(Turn) /\ WF_vars(StopsLate) /\ WF_vars(GoesIdle)

\* The deadlines: output is written or its client given up after ten seconds
\* without progress; a search is answered or given up after thirty minutes.
Delivers(c) == /\ phase = "exchange" /\ Here = c /\ conn[c].output # << >> /\ Exchange
               /\ conn'[c].dead \/ Len(conn'[c].output) < Len(conn[c].output)
Deadlines == SF_vars(Answer \/ EngineFails) /\ \A c \in Conns : SF_vars(Delivers(c))

-----------------------------------------------------------------------------
(* Properties.                                                             *)

\* Every request a client was promised an answer for is in exactly one place:
\* queued, running, or answered by a packet that still has to be written.  So
\* it gets one terminal answer, and not a second one, whatever cancellation,
\* engine failure, deadline or shutdown meets it on its way.
Owed(c) ==
  LET k == conn[c] IN
  {[place |-> "queue", at |-> i, id |-> k.pending[i].id] : i \in DOMAIN k.pending}
    \cup (IF ActiveIs(c) THEN {[place |-> "engine", at |-> 0, id |-> active.id]} ELSE {})
    \cup {[place |-> "output", at |-> i, id |-> k.output[i].release] :
             i \in {j \in DOMAIN k.output : k.output[j].release # None}}
OneAnswerEach ==
  \A c \in Connected : phase # "over" /\ ~conn[c].dead =>
    /\ {o.id : o \in Owed(c)} = conn[c].outstanding
    /\ \A o, other \in Owed(c) : o.id = other.id => o = other

\* The engine never works for a client that is gone, and a search that runs
\* has an engine.
EngineHasConsumer ==
  active # None => engine # "none" /\ (phase # "over" => active.client \in Connected)

\* Whoever waits with a search, no other connection is served twice before.
ConnectionsTakeTurns ==
  [][phase = "dispatch" =>
       \A c, d \in Connected :
         Len(conn'[c].pending) < Len(conn[c].pending) /\ c # d /\ Waiting(d) => c \notin served[d]]_vars

\* Retained memory is bounded: after the phase that cuts off the largest, and
\* until the next turn, the clients that live retain no more than two responses
\* together, one of them being the engine's last.  (Before that phase a turn
\* may add to it what the frames of a read bring.)  No client ever queues more
\* than its share, and what is counted of its output is what it holds.
SizeOf(output) == Total([i \in DOMAIN output |-> output[i].size])
OutputIsBounded ==
  /\ phase \in {"engine", "retire", "dispatch"} => Retained <= 2 * MaxResponse
  /\ \A c \in Conns : /\ Len(conn[c].pending) <= QueuePerClient
                       /\ conn[c].output_bytes = SizeOf(conn[c].output)

\* No failure is answered without a trace in the exit code.
FailuresAreTold == failures => exit # 0

\* A stream that ends of its own accord with exit code 0 has delivered an
\* answer to every request it accepted.
ExitZeroMeansDelivered ==
  Stream /\ phase = "over" /\ stopping = "no" /\ exit = 0 =>
    \A c \in Conns : conn[c].outstanding = {}

\* The accepted requests of a connection that stays are answered: the deadlines
\* of the loop see to it.
EveryRequestEnds ==
  Deadlines => \A c \in Conns, id \in Ids :
    c \in Connected /\ id \in conn[c].outstanding
      ~> phase = "over" \/ c \notin Connected \/ id \notin conn[c].outstanding

\* A stop signal ends the process whatever its clients and its engine do, and
\* when they do nothing.
ShutdownEnds == stopping # "no" ~> phase = "over"

\* Lexical searches do not keep the model resident.
DenseWanted == QueuedDense \/ (active # None /\ active.op = "dense")
LexicalDoesNotRenew == Deadlines /\ <>[]~DenseWanted => []<>(engine = "none")
=============================================================================
