------------------------------- MODULE Engine -------------------------------
(***************************************************************************)
(* A search over the socket, from the process that asks to the engine that *)
(* answers: `client`, `Backend` in retrieval/transport.rs, `engine_main`   *)
(* in retrieval/protocol.rs, `QueryService::search` in                     *)
(* retrieval/service.rs.                                                   *)
(*                                                                         *)
(* The worker talks to its engine, a child process, over a pair of         *)
(* sockets: it writes what it has and reads what there is without ever     *)
(* blocking, so frames and lines pass in pieces.  The engine reads a       *)
(* frame, searches, and writes its response when the search is over.  The  *)
(* worker hands a complete response to the client, which prints line by    *)
(* line.  Everybody may die at any step.  How the worker chooses among its *)
(* clients is in Supervisor; here it serves one after the other.           *)
(***************************************************************************)
EXTENDS Naturals, Sequences, SequencesExt

CONSTANTS
  Requests, None,
  Results,       \* the number of results a request has
  MaxLines,      \* the limit of a response
  PairSize       \* what a direction of the pair buffers, in halves of a line

ASSUME EngineAssumption ==
  /\ None \notin Requests /\ Results \in [Requests -> Nat]
  /\ MaxLines \in Nat \ {0} /\ PairSize \in Nat

VARIABLES
  client,        \* the one-shot process: "idle", "asking", "waiting"; "cut" when its worker died
  request,       \* its request
  asked,         \* requests whose ids are used up
  wire,          \* lines on their way to the client
  printed, outcome,
  worker,        \* "up", "down"
  active,        \* the request the worker runs
  answer,        \* lines the worker has for the client
  send,          \* what it still has to write to the engine
  response,      \* what it has read of a response
  line_start,    \* the lines of it that are complete and checked
  child,         \* where the engine is
  frame,         \* the request it serves
  reply,         \* what it still has to write
  down, up       \* the two directions of the pair

asking  == <<client, request, asked, wire, printed, outcome>>
serving == <<worker, active, answer>>
backend == <<send, response, line_start>>
engine  == <<child, frame, reply>>
pair    == <<down, up>>
query_vars == <<asking, serving, backend, engine, pair>>

-----------------------------------------------------------------------------
(* Messages.  A frame or a line passes as two halves; the second has the   *)
(* newline.                                                                *)

Config == [id |-> None, kind |-> "config", n |-> 0]
Search(r) == [id |-> r, kind |-> "search", n |-> 0]
Result(r, n) == [id |-> r, kind |-> "result", n |-> n]
Completed(r) == [id |-> r, kind |-> "completed", n |-> 0]
Failed(r) == [id |-> r, kind |-> "failed", n |-> 0]

Halves(lines) ==
  [i \in 1..2 * Len(lines) |-> [line |-> lines[(i + 1) \div 2], newline |-> i % 2 = 0]]
\* The complete lines of what was read, as `position` of newlines finds them.
Lines(halves) == [i \in 1..(Len(halves) \div 2) |-> halves[2 * i].line]
Terminal(l) == l.kind \in {"completed", "failed"}

\* The events of a search that succeeds.
Whole(r) == [n \in 1..Results[r] |-> Result(r, n)] \o <<Completed(r)>>

QueryInit ==
  /\ client = "idle" /\ request = None /\ asked = {} /\ wire = << >>
  /\ printed = {} /\ outcome = "none"
  /\ worker = "up" /\ active = None /\ answer = << >>
  /\ send = << >> /\ response = << >> /\ line_start = 0
  /\ child = "none" /\ frame = None /\ reply = << >>
  /\ down = << >> /\ up = << >>

-----------------------------------------------------------------------------
(* The engine.                                                             *)

\* `pre_exec`: the kernel is told to kill the child when its parent dies.
Arm ==
  /\ child = "forked" /\ child' = "armed"
  /\ UNCHANGED <<asking, serving, backend, frame, reply, pair>>

\* A wrong form: a parent that died before is not noticed.
ParentIsAnybody == "config"
\* The parent may have died before it was told.
Surviving == IF worker = "up" THEN "config" ELSE "gone"
NoticeParent ==
  /\ child = "armed" /\ child' = Surviving
  /\ UNCHANGED <<asking, serving, backend, frame, reply, pair>>

\* `read_frame`: a frame is taken when its newline is there.
ReadFrame ==
  /\ child \in {"config", "frame"} /\ Len(down) >= 2
  /\ down' = SubSeq(down, 3, Len(down))
  /\ IF child = "config" THEN child' = "frame" /\ UNCHANGED frame
     ELSE child' = "search" /\ frame' = down[1].line.id
  /\ UNCHANGED <<asking, serving, backend, reply, up>>

\* A wrong form: what was captured before the limit is published, and the end.
PublishPartial(r) ==
  IF Len(Whole(r)) <= MaxLines THEN Whole(r)
  ELSE SubSeq(Whole(r), 1, MaxLines - 1) \o <<Completed(r)>>
\* The events of a search are captured, within the limit, and published only
\* when all of them were.
Published(r) == IF Len(Whole(r)) <= MaxLines THEN Whole(r) ELSE <<Failed(r)>>

\* The database of the request cannot be opened, or the search fails.
SearchFails ==
  /\ child = "search" /\ child' = "write" /\ reply' = Halves(<<Failed(frame)>>)
  /\ UNCHANGED <<asking, serving, backend, frame, pair>>

SearchEnds ==
  /\ child = "search" /\ child' = "write" /\ reply' = Halves(Published(frame))
  /\ UNCHANGED <<asking, serving, backend, frame, pair>>

WriteReply ==
  /\ child = "write" /\ reply # << >> /\ Len(up) < PairSize
  /\ up' = Append(up, Head(reply)) /\ reply' = Tail(reply)
  /\ UNCHANGED <<asking, serving, backend, child, frame, down>>

NextFrame ==
  /\ child = "write" /\ reply = << >> /\ child' = "frame" /\ frame' = None
  /\ UNCHANGED <<asking, serving, backend, reply, pair>>

\* It runs out of memory, is killed, panics, or its configuration is refused.
EngineDies ==
  /\ child \notin {"none", "gone"} /\ child' = "gone" /\ frame' = None /\ reply' = << >>
  /\ UNCHANGED <<asking, serving, backend, pair>>

-----------------------------------------------------------------------------
(* The worker and its `Backend`.                                           *)

\* `spawn` returns when the child runs: until then the worker waits for it.
WorkerRuns == worker = "up" /\ child \notin {"forked", "armed"}

\* `drop`: the child is killed, and everything between the two goes with it.
NoEngine ==
  /\ child' = "none" /\ frame' = None /\ reply' = << >> /\ down' = << >> /\ up' = << >>
  /\ send' = << >> /\ response' = << >> /\ line_start' = 0

\* `submit`
Submit(queued) ==
  send' = queued \o Halves(<<Search(request)>>) /\ response' = << >> /\ line_start' = 0

\* The request of the client is dispatched; `spawn` if there is no engine.
Dispatch ==
  /\ WorkerRuns /\ active = None /\ answer = << >>
  /\ client = "asking" /\ client' = "waiting" /\ active' = request
  /\ IF child = "none"
     THEN Submit(Halves(<<Config>>)) /\ child' = "forked"
     ELSE Submit(send) /\ UNCHANGED child
  /\ UNCHANGED <<request, asked, wire, printed, outcome, worker, answer, frame, reply, pair>>

\* What the client of the running request is told, unless it has gone.
Tell(lines) == answer' = IF client = "waiting" /\ request = active THEN lines ELSE answer

\* The queue is full, the request is not valid or the engine cannot be
\* started: the answer does not come from the engine.
Refuse ==
  /\ WorkerRuns /\ client = "asking" /\ client' = "waiting"
  /\ answer = << >> /\ answer' = <<Failed(request)>>
  /\ UNCHANGED <<request, asked, wire, printed, outcome, worker, active, backend, engine, pair>>

\* The write of `poll`: as much as the pair takes.
PollWrite ==
  /\ WorkerRuns /\ active # None /\ child # "gone"
  /\ \E k \in 1..Len(send) :
       /\ Len(down) + k <= PairSize
       /\ down' = down \o SubSeq(send, 1, k) /\ send' = SubSeq(send, k + 1, Len(send))
  /\ UNCHANGED <<asking, serving, response, line_start, engine, up>>

\* A complete line ends the request only if it is the last of what was read,
\* and every line has to be of the request.
Ours(ls) == \A i \in DOMAIN ls : i > line_start => ls[i].id = active
Ended(ls) == \E i \in DOMAIN ls : i > line_start /\ Terminal(ls[i])
EndsWell(all) ==
  /\ Len(all) % 2 = 0
  /\ \A i \in 1..(Len(all) \div 2 - 1) : i > line_start => ~Terminal(Lines(all)[i])

EngineFails ==
  /\ Tell(<<Failed(active)>>) /\ active' = None /\ NoEngine
  /\ UNCHANGED <<asking, worker>>

\* The read of `poll`: any part of what the engine has written.
PollRead ==
  /\ WorkerRuns /\ active # None
  /\ \E k \in 1..Len(up) :
       LET all == response \o SubSeq(up, 1, k)
           ls  == Lines(all)
       IN IF Len(all) > 2 * MaxLines \/ ~Ours(ls) \/ (Ended(ls) /\ ~EndsWell(all))
          THEN EngineFails
          ELSE /\ up' = SubSeq(up, k + 1, Len(up))
               /\ IF Ended(ls)
                  THEN /\ Tell(ls) /\ active' = None
                       /\ response' = << >> /\ line_start' = Len(ls)
                  ELSE /\ response' = all /\ line_start' = Len(ls)
                       /\ UNCHANGED <<answer, active>>
               /\ UNCHANGED <<asking, worker, send, engine, down>>

\* Writing to an engine that is gone fails, and so does reading once its
\* output is used up.
PollFails ==
  /\ WorkerRuns /\ active # None /\ child = "gone" /\ (send # << >> \/ up = << >>)
  /\ EngineFails

\* The client of the running request has gone or cancels it, or its deadline
\* has passed.
Abandon == WorkerRuns /\ active # None /\ EngineFails

\* The engine has been idle for long enough, or memory has to be given back.
Release ==
  /\ WorkerRuns /\ active = None /\ child # "none" /\ NoEngine
  /\ UNCHANGED <<asking, serving>>

\* A line is written to the client, or to nobody.
Deliver ==
  /\ WorkerRuns /\ answer # << >> /\ answer' = Tail(answer)
  /\ wire' = IF client = "waiting" /\ Head(answer).id = request
             THEN Append(wire, Head(answer)) ELSE wire
  /\ UNCHANGED <<client, request, asked, printed, outcome, worker, active, backend, engine, pair>>

\* The worker dies at any step: what it has not written is lost, and an
\* engine that was armed is killed by the kernel.
WorkerDies ==
  /\ worker = "up" /\ worker' = "down" /\ active' = None /\ answer' = << >>
  /\ client' = IF client = "idle" THEN client ELSE "cut"
  /\ child' = IF child \in {"none", "forked"} THEN child ELSE "gone"
  /\ frame' = None /\ reply' = << >>
  /\ send' = << >> /\ response' = << >> /\ line_start' = 0
  /\ UNCHANGED <<request, asked, wire, printed, outcome, pair>>

\* Another worker starts, with no engine.
WorkerStarts ==
  /\ worker = "down" /\ child \in {"none", "gone"} /\ worker' = "up" /\ NoEngine
  /\ UNCHANGED <<asking, active, answer>>

-----------------------------------------------------------------------------
(* The client.                                                             *)

\* `client` connects and sends its request under an id nobody has used.
Ask(r) ==
  /\ client = "idle" /\ worker = "up" /\ r \notin asked
  /\ client' = "asking" /\ request' = r /\ asked' = asked \cup {r}
  /\ wire' = << >> /\ printed' = {} /\ outcome' = "none"
  /\ UNCHANGED <<serving, backend, engine, pair>>

Returns(how) == client' = "idle" /\ request' = None /\ wire' = << >> /\ outcome' = how

\* A line arrives: a result is printed, the last line decides.
ReceiveLine ==
  /\ wire # << >>
  /\ LET l == Head(wire)
     IN \/ /\ l.id = request /\ l.kind = "result"
           /\ printed' = printed \cup {<<l.id, l.n>>} /\ wire' = Tail(wire)
           /\ UNCHANGED <<client, request, outcome>>
        \/ l.id = request /\ l.kind = "completed" /\ Returns("success") /\ UNCHANGED printed
        \/ (l.id # request \/ l.kind = "failed") /\ Returns("failure") /\ UNCHANGED printed
  /\ UNCHANGED <<asked, serving, backend, engine, pair>>

\* The worker disconnects or stays silent for too long, a line cannot be
\* printed, or the process is killed.
ClientFails ==
  /\ client # "idle" /\ Returns("failure")
  /\ UNCHANGED <<asked, printed, serving, backend, engine, pair>>

QueryNext ==
  \/ Arm \/ NoticeParent \/ ReadFrame \/ SearchFails \/ SearchEnds \/ WriteReply
  \/ NextFrame \/ EngineDies
  \/ Dispatch \/ Refuse \/ PollWrite \/ PollRead \/ PollFails \/ Abandon
  \/ Release \/ Deliver \/ WorkerDies \/ WorkerStarts
  \/ ReceiveLine \/ ClientFails \/ \E r \in Requests : Ask(r)
QuerySpec == QueryInit /\ [][QueryNext]_query_vars

-----------------------------------------------------------------------------
(* Properties.                                                             *)

\* The type invariant.
QueryTypeOK ==
  /\ client \in {"idle", "asking", "waiting", "cut"} /\ request \in Requests \cup {None}
  /\ asked \subseteq Requests /\ active \in Requests \cup {None}
  /\ worker \in {"up", "down"}
  /\ child \in {"none", "forked", "armed", "config", "frame", "search", "write", "gone"}
  /\ Len(down) <= PairSize /\ Len(up) <= PairSize /\ Len(response) <= 2 * MaxLines

\* No engine outlives its worker, which may die between any two steps of
\* starting it: one that was not yet armed notices that its parent is gone.
NoOrphanEngine == worker = "down" => child \in {"none", "forked", "armed", "gone"}

\* A search over the socket implements what Answers promises.
Promise == INSTANCE Answers
ImplementsAnswers == Promise!Spec
=============================================================================
