-------------------------- MODULE Processes_proofs ---------------------------
(***************************************************************************)
(* Proofs about the processes that ree starts and waits for: the engine of *)
(* a query worker, and the helper of a converter.                          *)
(***************************************************************************)
EXTENDS Engine, External, TLAPS

-----------------------------------------------------------------------------
(***************************************************************************)
(* No engine outlives its worker, and a search over the socket implements  *)
(* what Answers promises, for any requests, numbers of results, limit of a *)
(* response and size of the pair.                                          *)
(*                                                                         *)
(* The argument: a request and its response are sequences of halves that   *)
(* are spread over several places, and every place holds a piece of the    *)
(* same sequence, one after the other.  A response ends with its only      *)
(* terminal line, so one that ended was read completely.                   *)
(***************************************************************************)

Kinds == {"config", "search", "result", "completed", "failed"}
Line == [id : Requests \cup {None}, kind : Kinds, n : Nat]
Half == [line : Line, newline : BOOLEAN]

\* s is the piece of h that follows its first k elements.
Piece(s, k, h) ==
  /\ k + Len(s) <= Len(h)
  /\ \A i \in 1..Len(s) : s[i] = h[k + i]

\* What the engine may answer to r.
Replies(r) == {Whole(r), <<Failed(r)>>}

EngineTyped ==
  /\ QueryTypeOK /\ frame \in Requests \cup {None}
  /\ wire \in Seq(Line) /\ answer \in Seq(Line)
  /\ send \in Seq(Half) /\ response \in Seq(Half) /\ reply \in Seq(Half)
  /\ down \in Seq(Half) /\ up \in Seq(Half)

\* The client has one request, which nobody had before; nothing was said to it
\* as long as the request waits or runs.
OwnRequest ==
  /\ client = "idle" <=> request = None
  /\ request \in asked \cup {None} /\ active \in asked \cup {None}
  /\ client = "idle" => wire = << >>
  /\ client = "asking" => wire = << >> /\ printed = {} /\ active # request
  /\ client = "waiting" /\ active = request =>
       wire = << >> /\ answer = << >> /\ printed = {}

\* What was printed, what is on its way and what the worker still has are
\* pieces of one response.
Followed(t, p) ==
  /\ printed = {<<request, m>> : m \in 1..p}
  /\ Piece(wire, p, t)
  /\ client = "waiting" => Piece(answer, p + Len(wire), t)
Following ==
  client # "idle" => \E t \in Replies(request) : \E p \in 0..Len(t) : Followed(t, p)

\* Nothing is left between a worker and its engine when no request runs.
Empty == down = << >> /\ send = << >> /\ up = << >> /\ response = << >> /\ reply = << >>
Resting == worker = "up" /\ active = None => child \in {"none", "frame", "write", "gone"} /\ Empty

\* The request that runs is on its way to the engine, is searched for, or has
\* a response that is on its way back.
Silent == up = << >> /\ response = << >> /\ reply = << >>
Heard == down = << >> /\ send = << >>
Asked(lines) == Piece(down, 0, Halves(lines)) /\ Piece(send, Len(down), Halves(lines))
Replied(t) ==
  /\ Piece(response, 0, Halves(t))
  /\ Piece(up, Len(response), Halves(t))
  /\ Piece(reply, Len(response) + Len(up), Halves(t))
Starting == child \in {"forked", "armed", "config"} /\ Silent /\ Asked(<<Config, Search(active)>>)
Reading == child \in {"frame", "write"} /\ Silent /\ Asked(<<Search(active)>>)
Searching == child = "search" /\ frame = active /\ Silent /\ Heard
Answering ==
  /\ child \in {"write", "frame", "gone"} /\ Heard
  /\ child # "write" => reply = << >>
  /\ \E t \in Replies(active) : Replied(t)
Deceased == child = "gone" /\ Silent
Running ==
  worker = "up" /\ active # None =>
    Starting \/ Reading \/ Searching \/ Answering \/ Deceased

Orphaned == worker = "down" => active = None

EngineInv ==
  EngineTyped /\ OwnRequest /\ Following /\ Resting /\ Running /\ Orphaned /\ NoOrphanEngine

-----------------------------------------------------------------------------
(* Pieces of a sequence.                                                   *)

LEMMA EmptyPiece ==
  ASSUME NEW S, NEW h \in Seq(S), NEW k \in 0..Len(h)
  PROVE  Piece(<< >>, k, h)
BY DEF Piece

LEMMA CutSeq ==
  ASSUME NEW S, NEW s \in Seq(S), NEW j \in 0..Len(s)
  PROVE  /\ SubSeq(s, j + 1, Len(s)) \in Seq(S)
         /\ Len(SubSeq(s, j + 1, Len(s))) = Len(s) - j
OBVIOUS

\* A piece is cut in two, or its beginning is.
LEMMA CutPiece ==
  ASSUME NEW S, NEW h \in Seq(S), NEW s \in Seq(S), NEW k \in Nat, Piece(s, k, h),
         NEW j \in 0..Len(s)
  PROVE  /\ SubSeq(s, 1, j) \in Seq(S) /\ Len(SubSeq(s, 1, j)) = j
         /\ SubSeq(s, j + 1, Len(s)) \in Seq(S)
         /\ Len(SubSeq(s, j + 1, Len(s))) = Len(s) - j
         /\ Piece(SubSeq(s, 1, j), k, h)
         /\ Piece(SubSeq(s, j + 1, Len(s)), k + j, h)
<1>1. /\ SubSeq(s, 1, j) \in Seq(S) /\ Len(SubSeq(s, 1, j)) = j
      /\ \A i \in 1..j : SubSeq(s, 1, j)[i] = s[i]
  OBVIOUS
<1>2. /\ SubSeq(s, j + 1, Len(s)) \in Seq(S)
      /\ Len(SubSeq(s, j + 1, Len(s))) = Len(s) - j
      /\ \A i \in 1..Len(s) - j : SubSeq(s, j + 1, Len(s))[i] = s[j + i]
  OBVIOUS
<1>3. Piece(SubSeq(s, 1, j), k, h)
  BY <1>1 DEF Piece
<1>4. Piece(SubSeq(s, j + 1, Len(s)), k + j, h)
  <2>1. (k + j) + (Len(s) - j) <= Len(h)
    BY DEF Piece
  <2>2. ASSUME NEW i \in 1..Len(s) - j
        PROVE  SubSeq(s, j + 1, Len(s))[i] = h[(k + j) + i]
    <3>1. j + i \in 1..Len(s) /\ k + (j + i) = (k + j) + i
      BY <2>2
    <3>2. s[j + i] = h[k + (j + i)]
      BY <3>1 DEF Piece
    <3> QED
      BY <1>2, <2>2, <3>1, <3>2
  <2> QED
    BY <1>2, <2>1, <2>2 DEF Piece
<1> QED
  BY <1>1, <1>2, <1>3, <1>4

LEMMA JoinSeqs ==
  ASSUME NEW S, NEW s \in Seq(S), NEW u \in Seq(S)
  PROVE  /\ s \o u \in Seq(S) /\ Len(s \o u) = Len(s) + Len(u)
         /\ \A i \in 1..Len(s) + Len(u) : (s \o u)[i] = IF i <= Len(s) THEN s[i] ELSE u[i - Len(s)]
OBVIOUS

\* Two pieces that follow each other are one.
LEMMA JoinPieces ==
  ASSUME NEW S, NEW h \in Seq(S), NEW s \in Seq(S), NEW u \in Seq(S), NEW k \in Nat,
         Piece(s, k, h), Piece(u, k + Len(s), h)
  PROVE  /\ s \o u \in Seq(S) /\ Len(s \o u) = Len(s) + Len(u)
         /\ Piece(s \o u, k, h)
<1>1. /\ s \o u \in Seq(S) /\ Len(s \o u) = Len(s) + Len(u)
      /\ \A i \in 1..Len(s) + Len(u) : (s \o u)[i] = IF i <= Len(s) THEN s[i] ELSE u[i - Len(s)]
  OBVIOUS
<1>2. ASSUME NEW i \in 1..Len(s \o u) PROVE (s \o u)[i] = h[k + i]
  <2>1. CASE i <= Len(s)
    <3>1. i \in 1..Len(s)
      BY <1>1, <1>2, <2>1
    <3>2. s[i] = h[k + i]
      BY <3>1 DEF Piece
    <3> QED
      BY <1>1, <1>2, <2>1, <3>2
  <2>2. CASE i > Len(s)
    <3>1. i - Len(s) \in 1..Len(u) /\ (k + Len(s)) + (i - Len(s)) = k + i
      BY <1>1, <1>2, <2>2
    <3> QED
      BY <1>1, <1>2, <2>2, <3>1 DEF Piece
  <2> QED
    BY <1>1, <1>2, <2>1, <2>2
<1> QED
  BY <1>1, <1>2 DEF Piece

\* The head of a piece passes to the piece before it.
LEMMA PassHead ==
  ASSUME NEW S, NEW h \in Seq(S), NEW s \in Seq(S), NEW u \in Seq(S), NEW k \in Nat,
         Piece(s, k, h), Piece(u, k + Len(s), h), u # << >>
  PROVE  /\ Append(s, Head(u)) \in Seq(S) /\ Len(Append(s, Head(u))) = Len(s) + 1
         /\ Tail(u) \in Seq(S) /\ Len(Tail(u)) = Len(u) - 1
         /\ Piece(Append(s, Head(u)), k, h)
         /\ Piece(Tail(u), k + Len(Append(s, Head(u))), h)
<1>1. Len(u) >= 1 /\ Head(u) = u[1] /\ Head(u) \in S
  OBVIOUS
<1>2. /\ Append(s, Head(u)) \in Seq(S) /\ Len(Append(s, Head(u))) = Len(s) + 1
      /\ \A i \in 1..Len(s) : Append(s, Head(u))[i] = s[i]
      /\ Append(s, Head(u))[Len(s) + 1] = u[1]
  BY <1>1
<1>3. /\ Tail(u) \in Seq(S) /\ Len(Tail(u)) = Len(u) - 1
      /\ \A i \in 1..Len(u) - 1 : Tail(u)[i] = u[i + 1]
  BY <1>1
<1>4. Piece(Append(s, Head(u)), k, h)
  BY <1>1, <1>2 DEF Piece
<1>5. Piece(Tail(u), k + Len(Append(s, Head(u))), h)
  BY <1>1, <1>2, <1>3 DEF Piece
<1> QED
  BY <1>2, <1>3, <1>4, <1>5

\* The head of a piece is used up.
LEMMA DropHead ==
  ASSUME NEW S, NEW h \in Seq(S), NEW s \in Seq(S), NEW k \in Nat, Piece(s, k, h), s # << >>
  PROVE  /\ k + 1 \in 1..Len(h) /\ Head(s) = h[k + 1] /\ Head(s) \in S
         /\ Tail(s) \in Seq(S) /\ Len(Tail(s)) = Len(s) - 1
         /\ Piece(Tail(s), k + 1, h)
<1>1. Len(s) >= 1 /\ Head(s) = s[1] /\ Head(s) \in S
  OBVIOUS
<1>2. /\ Tail(s) \in Seq(S) /\ Len(Tail(s)) = Len(s) - 1
      /\ \A i \in 1..Len(s) - 1 : Tail(s)[i] = s[i + 1]
  BY <1>1
<1> QED
  BY <1>1, <1>2 DEF Piece

-----------------------------------------------------------------------------
(* Lines and their halves.                                                 *)

LEMMA LinesAreLines ==
  ASSUME NEW r \in Requests
  PROVE  /\ Config \in Line /\ Search(r) \in Line /\ Completed(r) \in Line /\ Failed(r) \in Line
         /\ \A n \in Nat : Result(r, n) \in Line
BY DEF Config, Search, Completed, Failed, Result, Line, Kinds

LEMMA HalvesOfLines ==
  ASSUME NEW t \in Seq(Line)
  PROVE  /\ Halves(t) \in Seq(Half) /\ Len(Halves(t)) = 2 * Len(t)
         /\ \A i \in 1..2 * Len(t) : Halves(t)[i].line = t[(i + 1) \div 2]
         /\ \A i \in 1..Len(t) : Halves(t)[2 * i].line = t[i]
<1>1. \A i \in 1..2 * Len(t) : (i + 1) \div 2 \in 1..Len(t)
  OBVIOUS
<1>2. \A i \in 1..2 * Len(t) :
        [line |-> t[(i + 1) \div 2], newline |-> i % 2 = 0] \in Half
  BY <1>1 DEF Half
<1>3. Halves(t) \in [1..2 * Len(t) -> Half]
  BY <1>2 DEF Halves
<1>4. Halves(t) \in Seq(Half) /\ Len(Halves(t)) = 2 * Len(t)
  BY <1>3
<1>5. \A i \in 1..2 * Len(t) : Halves(t)[i].line = t[(i + 1) \div 2]
  BY DEF Halves
<1>6. \A i \in 1..Len(t) : 2 * i \in 1..2 * Len(t) /\ (2 * i + 1) \div 2 = i
  OBVIOUS
<1> QED
  BY <1>4, <1>5, <1>6

LEMMA LenHalves ==
  ASSUME NEW t \in Seq(Line)
  PROVE  Halves(t) \in Seq(Half) /\ Len(Halves(t)) = 2 * Len(t)
BY HalvesOfLines

\* What was read of a response are its first lines.
LEMMA LinesOfHalves ==
  ASSUME NEW t \in Seq(Line), NEW all \in Seq(Half), Piece(all, 0, Halves(t))
  PROVE  /\ Lines(all) \in Seq(Line) /\ Len(Lines(all)) = Len(all) \div 2
         /\ Len(all) <= 2 * Len(t) /\ Len(Lines(all)) <= Len(t)
         /\ \A i \in 1..Len(Lines(all)) : Lines(all)[i] = t[i]
<1>1. Len(all) <= 2 * Len(t) /\ \A i \in 1..Len(all) : all[i] = Halves(t)[i]
  BY HalvesOfLines DEF Piece
<1> DEFINE m == Len(all) \div 2
<1>2. m \in Nat /\ m <= Len(t) /\ \A i \in 1..m : 2 * i \in 1..Len(all) /\ i \in 1..Len(t)
  BY <1>1
<1>3. \A i \in 1..m : all[2 * i].line = t[i]
  BY <1>1, <1>2, HalvesOfLines
<1>4. Lines(all) = [i \in 1..m |-> t[i]]
  BY <1>3 DEF Lines
<1>5. Lines(all) \in [1..m -> Line]
  BY <1>2, <1>4
<1>6. Lines(all) \in Seq(Line) /\ Len(Lines(all)) = m
  BY <1>2, <1>5
<1> QED
  BY <1>1, <1>2, <1>4, <1>6

\* Only the last line of a response is terminal, and every line is of the request.
LEMMA RepliesEnd ==
  ASSUME NEW r \in Requests, NEW t \in Replies(r)
  PROVE  /\ t \in Seq(Line) /\ Len(t) >= 1
         /\ \A i \in 1..Len(t) : t[i].id = r /\ (Terminal(t[i]) <=> i = Len(t))
         /\ \A i \in 1..Len(t) : t[i].kind = "result" =>
              i \in 1..Results[r] /\ t[i].n = i /\ t = Whole(r)
         /\ \A i \in 1..Len(t) : t[i].kind = "completed" => i = Results[r] + 1
<1> DEFINE results == [n \in 1..Results[r] |-> Result(r, n)]
<1>1. Results[r] \in Nat
  BY EngineAssumption
<1>2. results \in [1..Results[r] -> Line]
  BY LinesAreLines
<1>3. results \in Seq(Line) /\ Len(results) = Results[r]
      /\ \A i \in 1..Results[r] : results[i] = Result(r, i)
  BY <1>1, <1>2
<1> HIDE DEF results
<1>4. CASE t = Whole(r)
  <2>1. t = results \o <<Completed(r)>>
    BY <1>4 DEF Whole, results
  <2>2. <<Completed(r)>> \in Seq(Line) /\ Len(<<Completed(r)>>) = 1
    BY LinesAreLines
  <2>3. /\ t \in Seq(Line) /\ Len(t) = Results[r] + 1
        /\ \A i \in 1..Results[r] : t[i] = Result(r, i)
        /\ t[Results[r] + 1] = Completed(r)
    BY <1>1, <1>3, <2>1, <2>2
  <2>4. /\ t[Results[r] + 1].id = r /\ t[Results[r] + 1].kind = "completed"
        /\ \A i \in 1..Results[r] : t[i].id = r /\ t[i].kind = "result" /\ t[i].n = i
    <3>1. Completed(r).id = r /\ Completed(r).kind = "completed"
      BY DEF Completed
    <3>2. ASSUME NEW i \in 1..Results[r]
          PROVE  Result(r, i).id = r /\ Result(r, i).kind = "result" /\ Result(r, i).n = i
      BY DEF Result
    <3> QED
      BY <2>3, <3>1, <3>2
  <2>5. \A i \in 1..Len(t) : i \in 1..Results[r] \/ i = Results[r] + 1
    BY <1>1, <2>3
  <2>6. \A i \in 1..Results[r] : i \in 1..Len(t) /\ i # Len(t)
    BY <1>1, <2>3
  <2> QED
    BY <1>1, <1>4, <2>3, <2>4, <2>5, <2>6 DEF Terminal
<1>5. CASE t = <<Failed(r)>>
  <2>1. t \in Seq(Line) /\ Len(t) = 1 /\ t[1] = Failed(r)
    BY <1>5, LinesAreLines
  <2> QED
    BY <2>1 DEF Failed, Terminal
<1> QED
  BY <1>4, <1>5 DEF Replies

\* A response that has ended was read completely.
LEMMA EndedIsWhole ==
  ASSUME NEW r \in Requests, NEW t \in Replies(r), NEW all \in Seq(Half),
         Piece(all, 0, Halves(t)), Ended(Lines(all))
  PROVE  Lines(all) = t /\ Len(all) = 2 * Len(t)
<1>1. PICK i \in DOMAIN Lines(all) : Terminal(Lines(all)[i])
  BY DEF Ended
<1>2. t \in Seq(Line)
  BY RepliesEnd
<1>3. /\ Lines(all) \in Seq(Line) /\ Len(Lines(all)) = Len(all) \div 2
      /\ Len(all) <= 2 * Len(t) /\ Len(Lines(all)) <= Len(t)
      /\ \A n \in 1..Len(Lines(all)) : Lines(all)[n] = t[n]
  BY <1>2, LinesOfHalves
<1>4. i \in 1..Len(Lines(all)) /\ i \in 1..Len(t) /\ Terminal(t[i])
  BY <1>1, <1>2, <1>3
<1>5. i = Len(t)
  BY <1>4, RepliesEnd
<1>6. Len(Lines(all)) = Len(t)
  BY <1>2, <1>3, <1>4, <1>5
<1>7. Lines(all) = t
  BY <1>2, <1>3, <1>6
<1>8. Len(all) = 2 * Len(t)
  BY <1>2, <1>3, <1>6
<1> QED
  BY <1>7, <1>8

LEMMA PublishedIsReply ==
  ASSUME NEW r \in Requests
  PROVE  Published(r) \in Replies(r) /\ <<Failed(r)>> \in Replies(r)
BY DEF Published, Replies
-----------------------------------------------------------------------------
(* Steps that leave a side alone, or all of the engine behind.             *)

LEMMA ClientLeft ==
  ASSUME EngineInv, UNCHANGED <<asking, active, answer>>
  PROVE  OwnRequest' /\ Following'
<1>1. OwnRequest'
  BY DEF EngineInv, OwnRequest, asking
<1>2. ASSUME client # "idle" PROVE Following'
  <2>1. PICK t \in Replies(request) : \E p \in 0..Len(t) : Followed(t, p)
    BY <1>2 DEF EngineInv, Following
  <2>2. PICK p \in 0..Len(t) : Followed(t, p)
    BY <2>1
  <2>3. Followed(t, p)'
    BY <2>2 DEF Followed, asking
  <2>4. t \in Replies(request')
    BY DEF asking
  <2> QED
    BY <2>3, <2>4 DEF Following
<1>3. client = "idle" => Following'
  BY DEF Following, asking
<1> QED
  BY <1>1, <1>2, <1>3

LEMMA EngineLeft ==
  ASSUME EngineInv, UNCHANGED <<worker, active, backend, engine, pair>>
  PROVE  Resting' /\ Running' /\ Orphaned' /\ NoOrphanEngine'
<1> USE DEF backend, engine, pair
<1>1. Resting'
  BY DEF EngineInv, Resting, Empty
<1>2. Orphaned' /\ NoOrphanEngine'
  BY DEF EngineInv, Orphaned, NoOrphanEngine
<1>3. ASSUME worker = "up", active # None PROVE Running'
  <2>1. Starting \/ Reading \/ Searching \/ Answering \/ Deceased
    BY <1>3 DEF EngineInv, Running
  <2>2. Starting => Starting'
    BY DEF Starting, Silent, Asked
  <2>3. Reading => Reading'
    BY DEF Reading, Silent, Asked
  <2>4. Searching => Searching'
    BY DEF Searching, Silent, Heard
  <2>5. Answering => Answering'
    <3>1. HAVE Answering
    <3>2. PICK t \in Replies(active) : Replied(t)
      BY <3>1 DEF Answering
    <3>3. Replied(t)' /\ t \in Replies(active')
      BY <3>2 DEF Replied
    <3> QED
      BY <3>1, <3>3 DEF Answering, Heard
  <2>6. Deceased => Deceased'
    BY DEF Deceased, Silent
  <2> QED
    BY <2>1, <2>2, <2>3, <2>4, <2>5, <2>6 DEF Running
<1>4. ~(worker = "up" /\ active # None) => Running'
  BY DEF Running
<1> QED
  BY <1>1, <1>2, <1>3, <1>4

LEMMA EngineGone ==
  ASSUME NoEngine, active' = None
  PROVE  Resting' /\ Running' /\ Orphaned' /\ NoOrphanEngine'
BY DEF NoEngine, Resting, Empty, Running, Orphaned, NoOrphanEngine

\* The client of the running request is told all of a response, or nobody is.
LEMMA Told ==
  ASSUME EngineInv, active # None, NEW t \in Replies(active), Tell(t),
         active' = None, UNCHANGED asking
  PROVE  OwnRequest' /\ Following' /\ answer' \in Seq(Line)
<1>1. active \in Requests /\ request \in Requests \cup {None} /\ None \notin Requests
  BY EngineAssumption DEF EngineInv, EngineTyped, QueryTypeOK
<1>2. t \in Seq(Line)
  BY <1>1, RepliesEnd
<1>3. CASE client = "waiting" /\ request = active
  <2>1. answer' = t /\ wire' = << >> /\ printed' = {} /\ client' = "waiting" /\ request' = active
    BY <1>3 DEF Tell, asking, EngineInv, OwnRequest
  <2>2. OwnRequest'
    BY <1>1, <1>3, <2>1 DEF EngineInv, OwnRequest, asking
  <2>3. Followed(t, 0)'
    <3>1. printed' = {<<request', m>> : m \in 1..0}
      BY <2>1
    <3>2. Piece(wire', 0, t)
      BY <1>2, <2>1, EmptyPiece
    <3>3. Piece(answer', 0 + Len(wire'), t)
      BY <1>2, <2>1 DEF Piece
    <3> QED
      BY <3>1, <3>2, <3>3 DEF Followed
  <2>4. 0 \in 0..Len(t)
    BY <1>2
  <2>5. Following'
    BY <2>1, <2>3, <2>4 DEF Following
  <2> QED
    BY <1>2, <2>1, <2>2, <2>5
<1>4. CASE ~(client = "waiting" /\ request = active)
  <2>1. answer' = answer
    BY <1>4 DEF Tell
  <2>2. OwnRequest'
    BY <1>1, <1>4, <2>1 DEF EngineInv, OwnRequest, asking
  <2>3. Following'
    <3>1. CASE client = "idle"
      BY <3>1 DEF Following, asking
    <3>2. CASE client # "idle"
      <4>1. PICK u \in Replies(request) : \E p \in 0..Len(u) : Followed(u, p)
        BY <3>2 DEF EngineInv, Following
      <4>2. PICK p \in 0..Len(u) : Followed(u, p)
        BY <4>1
      <4>3. Followed(u, p)' /\ u \in Replies(request')
        BY <2>1, <4>2 DEF Followed, asking
      <4> QED
        BY <4>3 DEF Following
    <3> QED
      BY <3>1, <3>2
  <2> QED
    BY <2>1, <2>2, <2>3 DEF EngineInv, EngineTyped
<1> QED
  BY <1>3, <1>4

\* A failure is a response too.
LEMMA ToldFailure ==
  ASSUME EngineInv, active # None, Tell(<<Failed(active)>>), active' = None, UNCHANGED asking
  PROVE  OwnRequest' /\ Following' /\ answer' \in Seq(Line)
<1>1. PICK t : t = <<Failed(active)>>
  OBVIOUS
<1>2. active \in Requests
  BY DEF EngineInv, EngineTyped, QueryTypeOK
<1>3. t \in Replies(active) /\ Tell(t)
  BY <1>1, <1>2, PublishedIsReply
<1> QED
  BY <1>3, Told

-----------------------------------------------------------------------------
(* A request on its way to the engine.                                     *)

LEMMA ConfigRead ==
  ASSUME NEW c \in Line, NEW l \in Line, NEW s \in Seq(Half), NEW k \in Nat,
         Piece(s, k + 2, Halves(<<c, l>>))
  PROVE  Piece(s, k, Halves(<<l>>))
<1>1. <<c, l>> \in Seq(Line) /\ Len(<<c, l>>) = 2 /\ <<c, l>>[2] = l
      /\ <<l>> \in Seq(Line) /\ Len(<<l>>) = 1 /\ <<l>>[1] = l
  OBVIOUS
<1>2. Halves(<<c, l>>)[3] = Halves(<<l>>)[1] /\ Halves(<<c, l>>)[4] = Halves(<<l>>)[2]
  BY <1>1 DEF Halves
<1> DEFINE h == Halves(<<c, l>>)
           b == Halves(<<l>>)
<1>3. Len(h) = 4 /\ Len(b) = 2
  <2>1. PICK two \in Seq(Line) : two = <<c, l>> /\ Len(two) = 2
    BY <1>1
  <2>2. PICK one \in Seq(Line) : one = <<l>> /\ Len(one) = 1
    BY <1>1
  <2>3. Len(Halves(two)) = 4 /\ Len(Halves(one)) = 2
    <3>1. Len(Halves(two)) = 2 * Len(two) /\ Len(Halves(one)) = 2 * Len(one)
      BY LenHalves
    <3> QED
      BY <2>1, <2>2, <3>1
  <2> QED
    BY <2>1, <2>2, <2>3
<1>4. (k + 2) + Len(s) <= Len(h) /\ \A i \in 1..Len(s) : s[i] = h[(k + 2) + i]
  BY DEF Piece
<1>5. h[3] = b[1] /\ h[4] = b[2]
  BY <1>2
<1> HIDE DEF h, b
<1>6. Len(s) \in Nat /\ k + Len(s) <= 2
  BY <1>3, <1>4
<1>7. ASSUME NEW i \in 1..Len(s) PROVE s[i] = b[k + i]
  <2>1. \/ k + i = 1 /\ (k + 2) + i = 3
        \/ k + i = 2 /\ (k + 2) + i = 4
    BY <1>6, <1>7
  <2>2. s[i] = h[(k + 2) + i]
    BY <1>4, <1>7
  <2> QED
    BY <1>5, <2>1, <2>2
<1>8. Piece(s, k, b)
  BY <1>3, <1>6, <1>7 DEF Piece
<1> QED
  BY <1>8 DEF b

LEMMA ShortFrames ==
  ASSUME NEW c \in Line, NEW l \in Line
  PROVE  /\ <<l>> \in Seq(Line) /\ <<c, l>> \in Seq(Line)
         /\ Halves(<<l>>) \in Seq(Half) /\ Halves(<<c, l>>) \in Seq(Half)
<1>1. PICK one : one = <<l>>
  OBVIOUS
<1>2. PICK two : two = <<c, l>>
  OBVIOUS
<1>3. one \in Seq(Line) /\ two \in Seq(Line)
  BY <1>1, <1>2
<1>4. Halves(one) \in Seq(Half) /\ Halves(two) \in Seq(Half)
  BY <1>3, LenHalves
<1> QED
  BY <1>1, <1>2, <1>3, <1>4

\* `spawn` queues the configuration before the request.
LEMMA ConfigFirst ==
  ASSUME NEW c \in Line, NEW l \in Line
  PROVE  Halves(<<c>>) \o Halves(<<l>>) = Halves(<<c, l>>)
<1>1. <<c, l>> \in Seq(Line) /\ Len(<<c, l>>) = 2 /\ <<c, l>>[2] = l /\ <<c, l>>[1] = c
      /\ <<l>> \in Seq(Line) /\ Len(<<l>>) = 1 /\ <<l>>[1] = l
      /\ <<c>> \in Seq(Line) /\ Len(<<c>>) = 1 /\ <<c>>[1] = c
  OBVIOUS
<1> DEFINE a == Halves(<<c>>)
           b == Halves(<<l>>)
           h == Halves(<<c, l>>)
<1>2. /\ h \in Seq(Half) /\ Len(h) = 4 /\ b \in Seq(Half) /\ Len(b) = 2
      /\ a \in Seq(Half) /\ Len(a) = 2
  <2>1. PICK two \in Seq(Line) : two = <<c, l>> /\ Len(two) = 2
    BY <1>1
  <2>2. PICK one \in Seq(Line) : one = <<l>> /\ Len(one) = 1
    BY <1>1
  <2>3. PICK other \in Seq(Line) : other = <<c>> /\ Len(other) = 1
    BY <1>1
  <2>4. /\ Halves(two) \in Seq(Half) /\ Len(Halves(two)) = 4
        /\ Halves(one) \in Seq(Half) /\ Len(Halves(one)) = 2
        /\ Halves(other) \in Seq(Half) /\ Len(Halves(other)) = 2
    <3>1. /\ Halves(two) \in Seq(Half) /\ Len(Halves(two)) = 2 * Len(two)
          /\ Halves(one) \in Seq(Half) /\ Len(Halves(one)) = 2 * Len(one)
          /\ Halves(other) \in Seq(Half) /\ Len(Halves(other)) = 2 * Len(other)
      BY LenHalves
    <3> QED
      BY <2>1, <2>2, <2>3, <3>1
  <2> QED
    BY <2>1, <2>2, <2>3, <2>4
<1>3. h[1] = a[1] /\ h[2] = a[2] /\ h[3] = b[1] /\ h[4] = b[2]
  BY <1>1 DEF Halves
<1> HIDE DEF a, b, h
<1>4. a \o b \in Seq(Half) /\ Len(a \o b) = 4
      /\ \A i \in 1..4 : (a \o b)[i] = IF i <= 2 THEN a[i] ELSE b[i - 2]
  <2>1. /\ a \o b \in Seq(Half) /\ Len(a \o b) = Len(a) + Len(b)
        /\ \A i \in 1..Len(a) + Len(b) : (a \o b)[i] = IF i <= Len(a) THEN a[i] ELSE b[i - Len(a)]
    BY <1>2, JoinSeqs
  <2>2. Len(a) + Len(b) = 4
    BY <1>2
  <2> QED
    BY <1>2, <2>1, <2>2
<1>5. ASSUME NEW i \in 1..4 PROVE (a \o b)[i] = h[i]
  <2>1. i = 1 \/ i = 2 \/ i = 3 \/ i = 4
    BY <1>5
  <2>2. (a \o b)[i] = IF i <= 2 THEN a[i] ELSE b[i - 2]
    BY <1>4, <1>5
  <2> QED
    BY <1>3, <2>1, <2>2
<1>6. a \o b = h
  BY <1>2, <1>4, <1>5
<1> QED
  BY <1>6 DEF a, b, h

LEMMA AskedWritten ==
  ASSUME EngineInv, NEW lines \in Seq(Line), Asked(lines), PollWrite
  PROVE  Asked(lines)'
<1>1. PICK k \in 1..Len(send) :
        down' = down \o SubSeq(send, 1, k) /\ send' = SubSeq(send, k + 1, Len(send))
  BY DEF PollWrite
<1>2. down \in Seq(Half) /\ send \in Seq(Half) /\ Len(down) \in Nat
  BY DEF EngineInv, EngineTyped
<1>3. PICK h : h = Halves(lines)
  OBVIOUS
<1>4. h \in Seq(Half) /\ Piece(down, 0, h) /\ Piece(send, Len(down), h)
  BY <1>3, HalvesOfLines DEF Asked
<1>5. k \in 0..Len(send)
  BY <1>1, <1>2
<1> DEFINE first == SubSeq(send, 1, k)
<1>6. first \in Seq(Half) /\ Len(first) = k /\ Piece(first, Len(down), h)
      /\ Piece(send', Len(down) + k, h)
  BY <1>1, <1>2, <1>4, <1>5, CutPiece
<1> HIDE DEF first
<1>7. Piece(first, 0 + Len(down), h)
  BY <1>2, <1>6
<1>8. Piece(down \o first, 0, h) /\ Len(down \o first) = Len(down) + k
  BY <1>2, <1>4, <1>6, <1>7, JoinPieces
<1>9. down' = down \o first
  BY <1>1 DEF first
<1> QED
  BY <1>3, <1>6, <1>8, <1>9 DEF Asked

\* Nothing runs in an engine without a request, and nothing without a worker.
LEMMA Served ==
  ASSUME EngineInv, child \in {"config", "search"} \/ reply # << >> \/ (child = "frame" /\ down # << >>),
         child \notin {"none", "forked", "armed", "gone"}
  PROVE  worker = "up" /\ active # None /\ active \in Requests
         /\ (Starting \/ Reading \/ Searching \/ Answering)
<1>1. worker = "up"
  BY DEF EngineInv, NoOrphanEngine, EngineTyped, QueryTypeOK
<1>2. active # None
  BY <1>1 DEF EngineInv, Resting, Empty
<1> QED
  BY <1>1, <1>2 DEF EngineInv, Running, Deceased, EngineTyped, QueryTypeOK

-----------------------------------------------------------------------------
(* The steps of the engine.                                                *)

LEMMA ArmKeeps ==
  ASSUME EngineInv, Arm \/ NoticeParent
  PROVE  EngineInv'
<1> USE DEF Arm, NoticeParent, Surviving
<1>1. UNCHANGED <<asking, serving, backend, frame, reply, pair>>
      /\ child \in {"forked", "armed"}
      /\ child' = IF child = "forked" THEN "armed" ELSE IF worker = "up" THEN "config" ELSE "gone"
  OBVIOUS
<1>2. EngineTyped'
  BY <1>1 DEF EngineInv, EngineTyped, QueryTypeOK, asking, serving, backend, pair
<1>3. OwnRequest' /\ Following'
  BY <1>1, ClientLeft DEF serving
<1>4. Resting' /\ Orphaned' /\ NoOrphanEngine'
  BY <1>1 DEF EngineInv, Resting, Orphaned, NoOrphanEngine, EngineTyped, QueryTypeOK, serving
<1>5. Running'
  <2>1. CASE worker = "up" /\ active # None
    <3>1. Starting
      BY <1>1, <2>1 DEF EngineInv, Running, Reading, Searching, Answering, Deceased
    <3>2. Starting'
      BY <1>1, <2>1, <3>1 DEF Starting, Silent, Asked, serving, backend, pair
    <3> QED
      BY <3>2 DEF Running
  <2>2. CASE ~(worker = "up" /\ active # None)
    BY <1>1, <2>2 DEF Running, serving
  <2> QED
    BY <2>1, <2>2
<1> QED
  BY <1>2, <1>3, <1>4, <1>5 DEF EngineInv

LEMMA ReadFrameKeeps ==
  ASSUME EngineInv, ReadFrame
  PROVE  EngineInv'
<1>1. /\ child \in {"config", "frame"} /\ Len(down) >= 2
      /\ down' = SubSeq(down, 3, Len(down))
      /\ UNCHANGED <<asking, serving, backend, reply, up>>
  BY DEF ReadFrame
<1>2. down \in Seq(Half) /\ send \in Seq(Half) /\ Len(down) \in Nat /\ down # << >>
  BY <1>1 DEF EngineInv, EngineTyped
<1>3. worker = "up" /\ active # None /\ active \in Requests
      /\ (Starting \/ Reading \/ Searching \/ Answering)
  BY <1>1, <1>2, Served
<1>4. PICK l : l = Search(active)
  OBVIOUS
<1>5. l \in Line /\ Config \in Line /\ l.id = active
  BY <1>3, <1>4, LinesAreLines DEF Search
<1>6. down' \in Seq(Half) /\ Len(down') = Len(down) - 2
  <2>1. 2 \in 0..Len(down)
    BY <1>1, <1>2
  <2>2. SubSeq(down, 2 + 1, Len(down)) \in Seq(Half)
        /\ Len(SubSeq(down, 2 + 1, Len(down))) = Len(down) - 2
    BY <1>2, <2>1, CutSeq
  <2> QED
    BY <1>1, <2>2
<1>7. OwnRequest' /\ Following'
  BY <1>1, ClientLeft DEF serving
<1>8. CASE child = "config"
  <2>1. child' = "frame" /\ frame' = frame
    BY <1>8 DEF ReadFrame
  <2>2. Starting
    BY <1>3, <1>8 DEF Reading, Searching, Answering
  <2> DEFINE h == Halves(<<Config, l>>)
  <2>3. Piece(down, 0, h) /\ Piece(send, Len(down), h)
    BY <1>4, <2>2 DEF Starting, Asked
  <2>4. h \in Seq(Half)
    <3>1. PICK lines : lines = <<Config, l>>
      OBVIOUS
    <3>2. lines \in Seq(Line)
      BY <1>5, <3>1
    <3> QED
      BY <3>1, <3>2, HalvesOfLines
  <2> HIDE DEF h
  <2>5. Piece(down', 0 + 2, h)
    <3>1. 2 \in 0..Len(down) /\ 2 + 1 = 3
      BY <1>1, <1>2
    <3>2. Piece(SubSeq(down, 2 + 1, Len(down)), 0 + 2, h)
      BY <1>2, <2>3, <2>4, <3>1, CutPiece
    <3> QED
      BY <1>1, <3>1, <3>2
  <2>6. Piece(send', Len(down') + 2, h)
    BY <1>1, <1>2, <1>6, <2>3 DEF backend
  <2>7. send' \in Seq(Half) /\ Len(down') \in Nat
    BY <1>1, <1>2, <1>6 DEF backend
  <2>8. Piece(down', 0, Halves(<<l>>)) /\ Piece(send', Len(down'), Halves(<<l>>))
    BY <1>5, <1>6, <2>5, <2>6, <2>7, ConfigRead DEF h
  <2>9. Reading'
    BY <1>1, <1>4, <2>1, <2>2, <2>8 DEF Starting, Reading, Silent, Asked, serving, backend
  <2>10. EngineTyped'
    BY <1>1, <1>2, <1>6, <2>1, EngineAssumption DEF EngineInv, EngineTyped, QueryTypeOK, asking, serving, backend
  <2>11. Resting' /\ Running' /\ Orphaned' /\ NoOrphanEngine'
    BY <1>1, <1>3, <2>9 DEF Resting, Running, Orphaned, NoOrphanEngine, serving
  <2> QED
    BY <1>7, <2>10, <2>11 DEF EngineInv
<1>9. CASE child = "frame"
  <2>1. child' = "search" /\ frame' = down[1].line.id
    BY <1>9 DEF ReadFrame
  <2>2. Reading
    BY <1>2, <1>3, <1>9 DEF Starting, Searching, Answering, Heard
  <2> DEFINE h == Halves(<<l>>)
  <2>3. Piece(down, 0, h) /\ Piece(send, Len(down), h)
    BY <1>4, <2>2 DEF Reading, Asked
  <2>4. Len(h) = 2 /\ h[1].line = l
    <3>1. PICK lines : lines = <<l>>
      OBVIOUS
    <3>2. lines \in Seq(Line) /\ Len(lines) = 1 /\ lines[1] = l
      BY <1>5, <3>1
    <3>3. Len(Halves(lines)) = 2 /\ Halves(lines)[2 * 1].line = l
      <4>1. Len(Halves(lines)) = 2 * Len(lines)
        BY <3>2, LenHalves
      <4>2. Halves(lines)[2 * 1].line = lines[1]
        BY <3>2, HalvesOfLines
      <4> QED
        BY <3>2, <4>1, <4>2
    <3>4. Halves(lines)[1].line = l
      BY <3>2 DEF Halves
    <3> QED
      BY <3>1, <3>3, <3>4
  <2> HIDE DEF h
  <2>5. down[1] = h[1] /\ Len(down) = 2 /\ Len(send) = 0
    <3>1. 0 + Len(down) <= Len(h) /\ Len(down) + Len(send) <= Len(h)
          /\ \A i \in 1..Len(down) : down[i] = h[0 + i]
      BY <2>3 DEF Piece
    <3>2. 1 \in 1..Len(down) /\ 0 + 1 = 1 /\ Len(send) \in Nat
      BY <1>1, <1>2
    <3>3. down[1] = h[1]
      BY <3>1, <3>2
    <3>4. Len(down) = 2 /\ Len(send) = 0
      <4>1. Len(down) >= 2 /\ Len(down) \in Nat /\ Len(send) \in Nat
        BY <1>1, <1>2, <3>2
      <4>2. 0 + Len(down) <= 2 /\ Len(down) + Len(send) <= 2
        BY <2>4, <3>1
      <4>3. PICK d \in Nat : d = Len(down)
        BY <4>1
      <4>4. PICK rest \in Nat : rest = Len(send)
        BY <4>1
      <4>5. d >= 2 /\ 0 + d <= 2 /\ d + rest <= 2
        BY <4>1, <4>2, <4>3, <4>4
      <4>6. d = 2
        BY <4>5
      <4>7. rest = 0
        BY <4>5, <4>6
      <4> QED
        BY <4>3, <4>4, <4>6, <4>7
    <3> QED
      BY <3>3, <3>4
  <2>6. down' = << >> /\ send' = << >> /\ frame' = active
    BY <1>1, <1>2, <1>5, <1>6, <2>1, <2>4, <2>5 DEF backend
  <2>7. Searching'
    BY <1>1, <2>1, <2>2, <2>6 DEF Reading, Searching, Silent, Heard, serving, backend
  <2>8. EngineTyped'
    BY <1>1, <1>2, <1>6, <2>1, <2>6, EngineAssumption DEF EngineInv, EngineTyped, QueryTypeOK, asking, serving, backend
  <2>9. Resting' /\ Running' /\ Orphaned' /\ NoOrphanEngine'
    BY <1>1, <1>3, <2>7 DEF Resting, Running, Orphaned, NoOrphanEngine, serving
  <2> QED
    BY <1>7, <2>8, <2>9 DEF EngineInv
<1> QED
  BY <1>1, <1>8, <1>9

LEMMA SearchKeeps ==
  ASSUME EngineInv, SearchFails \/ SearchEnds
  PROVE  EngineInv'
<1>1. child = "search" /\ child' = "write" /\ UNCHANGED <<asking, serving, backend, frame, pair>>
  BY DEF SearchFails, SearchEnds
<1>2. worker = "up" /\ active # None /\ active \in Requests /\ Searching
  BY <1>1, Served DEF Starting, Reading, Answering
<1>3. frame = active /\ Silent /\ Heard
  BY <1>2 DEF Searching
<1>4. PICK t \in Replies(active) : reply' = Halves(t)
  <2>1. SearchFails => reply' = Halves(<<Failed(active)>>)
    BY <1>3 DEF SearchFails
  <2>2. SearchEnds => reply' = Halves(Published(active))
    BY <1>3 DEF SearchEnds
  <2> QED
    BY <1>2, <2>1, <2>2, PublishedIsReply
<1>5. t \in Seq(Line) /\ Halves(t) \in Seq(Half) /\ Len(Halves(t)) \in Nat
  BY <1>2, <1>4, RepliesEnd, HalvesOfLines
<1>6. Replied(t)'
  <2>1. response' = << >> /\ up' = << >> /\ reply' = Halves(t)
    BY <1>1, <1>3, <1>4 DEF Silent, backend, pair
  <2> QED
    BY <1>5, <2>1 DEF Replied, Piece
<1>7. Answering'
  BY <1>1, <1>3, <1>4, <1>6 DEF Answering, Heard, serving, backend, pair
<1>8. OwnRequest' /\ Following'
  BY <1>1, ClientLeft DEF serving
<1>9. EngineTyped'
  BY <1>1, <1>4, <1>5 DEF EngineInv, EngineTyped, QueryTypeOK, asking, serving, backend, pair
<1>10. Resting' /\ Running' /\ Orphaned' /\ NoOrphanEngine'
  BY <1>1, <1>2, <1>7 DEF Resting, Running, Orphaned, NoOrphanEngine, serving
<1> QED
  BY <1>8, <1>9, <1>10 DEF EngineInv

LEMMA WriteReplyKeeps ==
  ASSUME EngineInv, WriteReply
  PROVE  EngineInv'
<1>1. /\ child = "write" /\ reply # << >> /\ Len(up) < PairSize
      /\ up' = Append(up, Head(reply)) /\ reply' = Tail(reply)
      /\ UNCHANGED <<asking, serving, backend, child, frame, down>>
  BY DEF WriteReply
<1>2. worker = "up" /\ active # None /\ active \in Requests /\ Answering
  BY <1>1, Served DEF Starting, Reading, Searching, Silent
<1>3. PICK t \in Replies(active) : Replied(t)
  BY <1>2 DEF Answering
<1>4. response \in Seq(Half) /\ up \in Seq(Half) /\ reply \in Seq(Half) /\ PairSize \in Nat
  BY EngineAssumption DEF EngineInv, EngineTyped
<1>5. PICK h : h = Halves(t)
  OBVIOUS
<1>6. h \in Seq(Half) /\ Piece(response, 0, h) /\ Piece(up, Len(response), h)
      /\ Piece(reply, Len(response) + Len(up), h)
  BY <1>2, <1>3, <1>5, RepliesEnd, HalvesOfLines DEF Replied
<1>7. /\ up' \in Seq(Half) /\ Len(up') = Len(up) + 1 /\ reply' \in Seq(Half)
      /\ Piece(up', Len(response), h) /\ Piece(reply', Len(response) + Len(up'), h)
  <2>1. Len(response) \in Nat
    BY <1>4
  <2> QED
    BY <1>1, <1>4, <1>6, <2>1, PassHead
<1>8. Replied(t)'
  BY <1>1, <1>5, <1>6, <1>7 DEF Replied, backend
<1>9. Answering'
  BY <1>1, <1>2, <1>3, <1>8 DEF Answering, Heard, serving, backend
<1>10. OwnRequest' /\ Following'
  BY <1>1, ClientLeft DEF serving
<1>11. EngineTyped'
  BY <1>1, <1>4, <1>7 DEF EngineInv, EngineTyped, QueryTypeOK, asking, serving, backend
<1>12. Resting' /\ Running' /\ Orphaned' /\ NoOrphanEngine'
  BY <1>1, <1>2, <1>9 DEF Resting, Running, Orphaned, NoOrphanEngine, serving
<1> QED
  BY <1>10, <1>11, <1>12 DEF EngineInv

LEMMA NextFrameKeeps ==
  ASSUME EngineInv, NextFrame
  PROVE  EngineInv'
<1>1. /\ child = "write" /\ reply = << >> /\ child' = "frame" /\ frame' = None
      /\ UNCHANGED <<asking, serving, backend, reply, pair>>
  BY DEF NextFrame
<1>2. OwnRequest' /\ Following'
  BY <1>1, ClientLeft DEF serving
<1>3. EngineTyped'
  BY <1>1 DEF EngineInv, EngineTyped, QueryTypeOK, asking, serving, backend, pair
<1>4. Resting' /\ Orphaned' /\ NoOrphanEngine'
  BY <1>1 DEF EngineInv, Resting, Empty, Orphaned, NoOrphanEngine, serving, backend, pair
<1>5. Running'
  <2>1. CASE worker = "up" /\ active # None
    <3>1. Reading \/ Answering
      BY <1>1, <2>1 DEF EngineInv, Running, Starting, Searching, Deceased
    <3>2. Reading => Reading'
      BY <1>1 DEF Reading, Silent, Asked, serving, backend, pair
    <3>3. ASSUME Answering PROVE Answering'
      <4>1. PICK t \in Replies(active) : Replied(t)
        BY <3>3 DEF Answering
      <4>2. Replied(t)' /\ t \in Replies(active')
        BY <1>1, <4>1 DEF Replied, serving, backend, pair
      <4> QED
        BY <1>1, <3>3, <4>2 DEF Answering, Heard, backend, pair
    <3> QED
      BY <3>1, <3>2, <3>3 DEF Running
  <2>2. CASE ~(worker = "up" /\ active # None)
    BY <1>1, <2>2 DEF Running, serving
  <2> QED
    BY <2>1, <2>2
<1> QED
  BY <1>2, <1>3, <1>4, <1>5 DEF EngineInv

LEMMA EngineDiesKeeps ==
  ASSUME EngineInv, EngineDies
  PROVE  EngineInv'
<1>1. /\ child \notin {"none", "gone"} /\ child' = "gone" /\ frame' = None /\ reply' = << >>
      /\ UNCHANGED <<asking, serving, backend, pair>>
  BY DEF EngineDies
<1>2. OwnRequest' /\ Following'
  BY <1>1, ClientLeft DEF serving
<1>3. EngineTyped'
  BY <1>1 DEF EngineInv, EngineTyped, QueryTypeOK, asking, serving, backend, pair
<1>4. Resting' /\ Orphaned' /\ NoOrphanEngine'
  BY <1>1 DEF EngineInv, Resting, Empty, Orphaned, NoOrphanEngine, serving, backend, pair
<1>5. Running'
  <2>1. CASE worker = "up" /\ active # None
    <3>1. Starting \/ Reading \/ Searching \/ Answering
      BY <1>1, <2>1 DEF EngineInv, Running, Deceased
    <3>2. Starting \/ Reading \/ Searching => Deceased'
      BY <1>1 DEF Starting, Reading, Searching, Deceased, Silent, backend, pair
    <3>3. ASSUME Answering PROVE Answering'
      <4>1. PICK t \in Replies(active) : Replied(t)
        BY <3>3 DEF Answering
      <4>2. response \in Seq(Half) /\ up \in Seq(Half)
        BY DEF EngineInv, EngineTyped
      <4>3. Piece(<< >>, Len(response) + Len(up), Halves(t))
        BY <4>1, <4>2 DEF Replied, Piece
      <4>4. Replied(t)' /\ t \in Replies(active')
        BY <1>1, <4>1, <4>3 DEF Replied, serving, backend, pair
      <4> QED
        BY <1>1, <3>3, <4>4 DEF Answering, Heard, backend, pair
    <3> QED
      BY <3>1, <3>2, <3>3 DEF Running
  <2>2. CASE ~(worker = "up" /\ active # None)
    BY <1>1, <2>2 DEF Running, serving
  <2> QED
    BY <2>1, <2>2
<1> QED
  BY <1>2, <1>3, <1>4, <1>5 DEF EngineInv

-----------------------------------------------------------------------------
(* The steps of the worker.                                                *)

LEMMA DispatchKeeps ==
  ASSUME EngineInv, Dispatch
  PROVE  EngineInv'
<1>1. /\ worker = "up" /\ active = None /\ answer = << >> /\ client = "asking"
      /\ client' = "waiting" /\ active' = request
      /\ UNCHANGED <<request, asked, wire, printed, outcome, worker, answer, frame, reply, pair>>
      /\ response' = << >> /\ line_start' = 0
      /\ child' = IF child = "none" THEN "forked" ELSE child
  BY DEF Dispatch, WorkerRuns, Submit
<1>2. request \in Requests /\ request \in asked /\ wire = << >> /\ printed = {}
  BY <1>1 DEF EngineInv, OwnRequest, EngineTyped, QueryTypeOK
<1>3. child \in {"none", "frame", "write", "gone"} /\ Empty
  BY <1>1 DEF EngineInv, Resting
<1>4. PICK l : l = Search(request)
  OBVIOUS
<1>5. l \in Line /\ Config \in Line
  BY <1>2, <1>4, LinesAreLines
<1>6. down' = << >> /\ Silent'
  BY <1>1, <1>3 DEF Empty, Silent, pair
<1>7. /\ <<l>> \in Seq(Line) /\ <<Config, l>> \in Seq(Line)
      /\ Halves(<<l>>) \in Seq(Half) /\ Halves(<<Config, l>>) \in Seq(Half)
  BY <1>5, ShortFrames
<1>8. send' = IF child = "none" THEN Halves(<<Config, l>>) ELSE Halves(<<l>>)
  <2>1. CASE child = "none"
    BY <1>4, <1>5, <2>1, ConfigFirst DEF Dispatch, Submit
  <2>2. CASE child # "none"
    <3>1. send' = << >> \o Halves(<<l>>)
      BY <1>3, <1>4, <2>2 DEF Dispatch, Submit, Empty
    <3> QED
      BY <1>7, <2>2, <3>1
  <2> QED
    BY <2>1, <2>2
<1>9. send' \in Seq(Half)
  BY <1>7, <1>8
<1>10. ASSUME NEW h \in Seq(Half), send' = h
       PROVE  Piece(down', 0, h) /\ Piece(send', Len(down'), h)
  BY <1>6, <1>10 DEF Piece
<1>11. Starting' \/ Reading' \/ Deceased'
  <2>1. CASE child = "none"
    <3>1. Asked(<<Config, l>>)'
      BY <1>7, <1>8, <1>10, <2>1 DEF Asked
    <3> QED
      BY <1>1, <1>4, <1>6, <2>1, <3>1 DEF Starting
  <2>2. CASE child \in {"frame", "write"}
    <3>1. Asked(<<l>>)'
      BY <1>7, <1>8, <1>10, <2>2 DEF Asked
    <3> QED
      BY <1>1, <1>4, <1>6, <2>2, <3>1 DEF Reading
  <2>3. CASE child = "gone"
    BY <1>1, <1>6, <2>3 DEF Deceased
  <2> QED
    BY <1>3, <2>1, <2>2, <2>3
<1>12. OwnRequest'
  BY <1>1, <1>2, EngineAssumption DEF OwnRequest
<1>13. Following'
  <2>1. PICK t : t = <<Failed(request)>>
    OBVIOUS
  <2>2. t \in Replies(request) /\ t \in Seq(Line)
    BY <1>2, <2>1, PublishedIsReply, RepliesEnd
  <2>3. printed' = {<<request', m>> : m \in 1..0} /\ wire' = << >> /\ answer' = << >>
    BY <1>1, <1>2
  <2>4. Piece(wire', 0, t) /\ Piece(answer', 0 + Len(wire'), t)
    BY <2>2, <2>3 DEF Piece
  <2>5. Followed(t, 0)'
    BY <2>3, <2>4 DEF Followed
  <2>6. 0 \in 0..Len(t) /\ t \in Replies(request')
    BY <1>1, <2>2
  <2> QED
    BY <2>5, <2>6 DEF Following
<1>14. EngineTyped'
  BY <1>1, <1>2, <1>6, <1>9, EngineAssumption DEF EngineInv, EngineTyped, QueryTypeOK, pair, Silent
<1>15. Resting' /\ Running' /\ Orphaned' /\ NoOrphanEngine'
  BY <1>1, <1>2, <1>11, EngineAssumption DEF Resting, Running, Orphaned, NoOrphanEngine
<1> QED
  BY <1>12, <1>13, <1>14, <1>15 DEF EngineInv

LEMMA RefuseKeeps ==
  ASSUME EngineInv, Refuse
  PROVE  EngineInv'
<1>1. /\ client = "asking" /\ client' = "waiting" /\ answer' = <<Failed(request)>>
      /\ UNCHANGED <<request, asked, wire, printed, outcome, worker, active, backend, engine, pair>>
  BY DEF Refuse
<1>2. request \in Requests /\ request \in asked /\ wire = << >> /\ printed = {} /\ active # request
  BY <1>1 DEF EngineInv, OwnRequest, EngineTyped, QueryTypeOK
<1>3. PICK t : t = <<Failed(request)>>
  OBVIOUS
<1>4. t \in Replies(request) /\ t \in Seq(Line)
  BY <1>2, <1>3, PublishedIsReply, RepliesEnd
<1>5. Following'
  <2>1. printed' = {<<request', m>> : m \in 1..0} /\ wire' = << >> /\ answer' = t
    BY <1>1, <1>2, <1>3
  <2>2. Piece(wire', 0, t) /\ Piece(answer', 0 + Len(wire'), t)
    BY <1>4, <2>1 DEF Piece
  <2>3. Followed(t, 0)'
    BY <2>1, <2>2 DEF Followed
  <2>4. 0 \in 0..Len(t) /\ t \in Replies(request')
    BY <1>1, <1>4
  <2> QED
    BY <2>3, <2>4 DEF Following
<1>6. OwnRequest'
  BY <1>1, <1>2, EngineAssumption DEF EngineInv, OwnRequest
<1>7. Resting' /\ Running' /\ Orphaned' /\ NoOrphanEngine'
  BY <1>1, EngineLeft
<1>8. EngineTyped'
  BY <1>1, <1>3, <1>4 DEF EngineInv, EngineTyped, QueryTypeOK, backend, engine, pair
<1> QED
  BY <1>5, <1>6, <1>7, <1>8 DEF EngineInv

LEMMA PollWriteKeeps ==
  ASSUME EngineInv, PollWrite
  PROVE  EngineInv'
<1>1. /\ worker = "up" /\ active # None /\ child # "gone"
      /\ UNCHANGED <<asking, serving, response, line_start, engine, up>>
  BY DEF PollWrite, WorkerRuns
<1>2. PICK k \in 1..Len(send) :
        /\ Len(down) + k <= PairSize
        /\ down' = down \o SubSeq(send, 1, k) /\ send' = SubSeq(send, k + 1, Len(send))
  BY DEF PollWrite
<1>3. down \in Seq(Half) /\ send \in Seq(Half) /\ k \in 0..Len(send) /\ k \in Nat /\ send # << >>
  BY <1>2 DEF EngineInv, EngineTyped
<1>4. active \in Requests /\ (Starting \/ Reading)
  BY <1>1, <1>3 DEF EngineInv, EngineTyped, QueryTypeOK, Running, Searching, Answering, Deceased, Heard
<1>5. /\ down' \in Seq(Half) /\ Len(down') = Len(down) + k /\ send' \in Seq(Half)
  <2>1. SubSeq(send, 1, k) \in Seq(Half) /\ Len(SubSeq(send, 1, k)) = k
    BY <1>3
  <2>2. down' \in Seq(Half) /\ Len(down') = Len(down) + k
    BY <1>2, <1>3, <2>1, JoinSeqs
  <2>3. send' \in Seq(Half)
    BY <1>2, <1>3, CutSeq
  <2> QED
    BY <2>2, <2>3
<1>6. Starting' \/ Reading'
  <2>1. PICK one : one = <<Search(active)>>
    OBVIOUS
  <2>2. PICK two : two = <<Config, Search(active)>>
    OBVIOUS
  <2>3. one \in Seq(Line) /\ two \in Seq(Line)
    BY <1>4, <2>1, <2>2, LinesAreLines
  <2>4. Starting => Starting'
    <3>1. HAVE Starting
    <3>2. Asked(two)'
      BY <2>2, <2>3, <3>1, AskedWritten DEF Starting
    <3> QED
      BY <1>1, <2>2, <3>1, <3>2 DEF Starting, Silent, serving, engine
  <2>5. Reading => Reading'
    <3>1. HAVE Reading
    <3>2. Asked(one)'
      BY <2>1, <2>3, <3>1, AskedWritten DEF Reading
    <3> QED
      BY <1>1, <2>1, <3>1, <3>2 DEF Reading, Silent, serving, engine
  <2> QED
    BY <1>4, <2>4, <2>5
<1>7. OwnRequest' /\ Following'
  BY <1>1, ClientLeft DEF serving
<1>8. EngineTyped'
  BY <1>1, <1>2, <1>5 DEF EngineInv, EngineTyped, QueryTypeOK, asking, serving, engine
<1>9. Resting' /\ Running' /\ Orphaned' /\ NoOrphanEngine'
  BY <1>1, <1>6 DEF Resting, Running, Orphaned, NoOrphanEngine, serving
<1> QED
  BY <1>7, <1>8, <1>9 DEF EngineInv

\* The request fails for its client, and the engine goes.
LEMMA FailKeeps ==
  ASSUME EngineInv, active # None, EngineFails
  PROVE  EngineInv'
<1>1. Tell(<<Failed(active)>>) /\ active' = None /\ NoEngine /\ UNCHANGED <<asking, worker>>
  BY DEF EngineFails
<1>2. OwnRequest' /\ Following' /\ answer' \in Seq(Line)
  BY <1>1, ToldFailure
<1>3. Resting' /\ Running' /\ Orphaned' /\ NoOrphanEngine'
  BY <1>1, EngineGone
<1>4. EngineTyped'
  BY <1>1, <1>2, EngineAssumption DEF EngineInv, EngineTyped, QueryTypeOK, NoEngine, asking
<1> QED
  BY <1>2, <1>3, <1>4 DEF EngineInv

LEMMA PollReadKeeps ==
  ASSUME EngineInv, PollRead
  PROVE  EngineInv'
<1>1. worker = "up" /\ active # None
  BY DEF PollRead, WorkerRuns
<1>2. PICK k \in 1..Len(up) :
        LET all == response \o SubSeq(up, 1, k)
            ls  == Lines(all)
        IN IF Len(all) > 2 * MaxLines \/ ~Ours(ls) \/ (Ended(ls) /\ ~EndsWell(all))
           THEN EngineFails
           ELSE /\ up' = SubSeq(up, k + 1, Len(up))
                /\ IF Ended(ls)
                   THEN /\ Tell(ls) /\ active' = None
                        /\ response' = << >> /\ line_start' = Len(ls)
                   ELSE /\ response' = all /\ line_start' = Len(ls)
                        /\ UNCHANGED <<answer, active>>
                /\ UNCHANGED <<asking, worker, send, engine, down>>
  BY DEF PollRead
<1> DEFINE all == response \o SubSeq(up, 1, k)
           fails == Len(all) > 2 * MaxLines \/ ~Ours(Lines(all)) \/ (Ended(Lines(all)) /\ ~EndsWell(all))
<1>3. response \in Seq(Half) /\ up \in Seq(Half) /\ k \in 0..Len(up) /\ up # << >>
  BY <1>2 DEF EngineInv, EngineTyped
<1>4. active \in Requests /\ Answering
  BY <1>1, <1>3 DEF EngineInv, EngineTyped, QueryTypeOK, Running, Starting, Reading, Searching, Deceased, Silent
<1>5. PICK t \in Replies(active) : Replied(t)
  BY <1>4 DEF Answering
<1>6. PICK h \in Seq(Half) : h = Halves(t) /\ Len(h) = 2 * Len(t)
  BY <1>4, <1>5, RepliesEnd, LenHalves
<1>7. Piece(response, 0, h) /\ Piece(up, Len(response), h)
      /\ Piece(reply, Len(response) + Len(up), h)
  BY <1>5, <1>6 DEF Replied
<1> DEFINE first == SubSeq(up, 1, k)
           last == SubSeq(up, k + 1, Len(up))
<1>8. /\ first \in Seq(Half) /\ Len(first) = k /\ Piece(first, Len(response), h)
      /\ last \in Seq(Half) /\ Len(last) = Len(up) - k /\ Piece(last, Len(response) + k, h)
  <2>1. Len(response) \in Nat
    BY <1>3
  <2> QED
    BY <1>3, <1>7, <2>1, CutPiece
<1> HIDE DEF first, last
<1>9. Piece(first, 0 + Len(response), h)
  BY <1>3, <1>8
<1>10. all \in Seq(Half) /\ Len(all) = Len(response) + k /\ Piece(all, 0, h)
  <2>1. all = response \o first
    BY DEF first
  <2>2. /\ response \o first \in Seq(Half) /\ Len(response \o first) = Len(response) + Len(first)
        /\ Piece(response \o first, 0, h)
    BY <1>3, <1>7, <1>8, <1>9, JoinPieces
  <2> QED
    BY <1>8, <2>1, <2>2
<1>11. CASE fails
  <2>1. EngineFails
    BY <1>2, <1>11
  <2> QED
    BY <1>1, <2>1, FailKeeps
<1>12. CASE ~fails
  <2>1. /\ up' = last /\ UNCHANGED <<asking, worker, send, engine, down>>
        /\ Len(all) <= 2 * MaxLines
        /\ Ended(Lines(all)) => Tell(Lines(all)) /\ active' = None /\ response' = << >>
        /\ ~Ended(Lines(all)) => response' = all /\ UNCHANGED <<answer, active>>
    <3>1. Len(all) <= 2 * MaxLines
      BY <1>3, <1>8, <1>10, <1>12, EngineAssumption
    <3> QED
      BY <1>2, <1>12, <3>1 DEF last
  <2> HIDE DEF all
  <2>2. CASE Ended(Lines(all))
    <3>1. Lines(all) = t /\ Len(all) = 2 * Len(t)
      BY <1>4, <1>5, <1>6, <1>10, <2>2, EndedIsWhole
    <3>2. Tell(t) /\ active' = None /\ response' = << >>
      BY <2>1, <2>2, <3>1
    <3>3. OwnRequest' /\ Following' /\ answer' \in Seq(Line)
      BY <1>1, <1>5, <2>1, <3>2, Told
    <3>4. Len(last) = 0 /\ Len(reply) = 0
      <4>1. PICK n \in Nat : n = Len(h) /\ n = Len(response) + k
        BY <1>3, <1>6, <1>10, <3>1
      <4>2. PICK b \in Nat : b = Len(last)
        BY <1>8
      <4>3. PICK c \in Nat : c = Len(reply)
        BY DEF EngineInv, EngineTyped
      <4>4. n + b <= n
        BY <1>8, <4>1, <4>2 DEF Piece
      <4>5. Len(response) + Len(up) = n + b
        BY <1>3, <1>8, <4>1, <4>2
      <4>6. (n + b) + c <= n
        BY <1>7, <4>1, <4>3, <4>5 DEF Piece
      <4>7. b = 0 /\ c = 0
        BY <4>4, <4>6
      <4> QED
        BY <4>2, <4>3, <4>7
    <3>5. up' = << >> /\ reply = << >>
      BY <1>8, <2>1, <3>4 DEF EngineInv, EngineTyped
    <3>6. Resting' /\ Running' /\ Orphaned' /\ NoOrphanEngine'
      BY <1>1, <1>4, <2>1, <3>2, <3>5
         DEF Answering, Heard, Resting, Empty, Running, Orphaned, NoOrphanEngine, engine
    <3>7. EngineTyped'
      BY <2>1, <3>2, <3>3, <3>5, EngineAssumption DEF EngineInv, EngineTyped, QueryTypeOK, asking, engine
    <3> QED
      BY <3>3, <3>6, <3>7 DEF EngineInv
  <2>3. CASE ~Ended(Lines(all))
    <3>1. response' = all /\ UNCHANGED <<answer, active>>
      BY <2>1, <2>3
    <3>2. OwnRequest' /\ Following'
      BY <2>1, <3>1, ClientLeft
    <3>3. Replied(t)'
      <4>1. Piece(response', 0, h)
        BY <1>10, <3>1
      <4>2. Piece(up', Len(response'), h)
        BY <1>8, <1>10, <2>1, <3>1
      <4>3. Len(response') + Len(up') = Len(response) + Len(up)
        <5>1. Len(response') = Len(response) + k /\ Len(up') = Len(up) - k
          BY <1>8, <1>10, <2>1, <3>1
        <5>2. Len(response) \in Nat /\ Len(up) \in Nat /\ k \in Nat
          BY <1>3
        <5> QED
          BY <5>1, <5>2
      <4>4. Piece(reply', Len(response') + Len(up'), h)
        BY <1>7, <2>1, <4>3 DEF engine
      <4> QED
        BY <1>6, <4>1, <4>2, <4>4 DEF Replied
    <3>4. Answering'
      BY <1>4, <1>5, <2>1, <3>1, <3>3 DEF Answering, Heard, engine
    <3>5. EngineTyped'
      <4>1. Len(up') <= PairSize
        BY <1>3, <1>8, <2>1, EngineAssumption DEF EngineInv, EngineTyped, QueryTypeOK
      <4> QED
        BY <1>8, <1>10, <2>1, <3>1, <4>1 DEF EngineInv, EngineTyped, QueryTypeOK, asking, engine
    <3>6. Resting' /\ Running' /\ Orphaned' /\ NoOrphanEngine'
      BY <1>1, <2>1, <3>1, <3>4 DEF Resting, Running, Orphaned, NoOrphanEngine
    <3> QED
      BY <3>2, <3>5, <3>6 DEF EngineInv
  <2> QED
    BY <2>2, <2>3
<1> QED
  BY <1>11, <1>12

LEMMA ReleaseKeeps ==
  ASSUME EngineInv, Release
  PROVE  EngineInv'
<1>1. active = None /\ NoEngine /\ UNCHANGED <<asking, serving>>
  BY DEF Release
<1>2. OwnRequest' /\ Following'
  BY <1>1, ClientLeft DEF serving
<1>3. Resting' /\ Running' /\ Orphaned' /\ NoOrphanEngine'
  BY <1>1, EngineGone DEF serving
<1>4. EngineTyped'
  BY <1>1, EngineAssumption DEF EngineInv, EngineTyped, QueryTypeOK, NoEngine, asking, serving
<1> QED
  BY <1>2, <1>3, <1>4 DEF EngineInv

LEMMA DeliverKeeps ==
  ASSUME EngineInv, Deliver
  PROVE  EngineInv'
<1>1. /\ answer # << >> /\ answer' = Tail(answer)
      /\ wire' = IF client = "waiting" /\ Head(answer).id = request
                 THEN Append(wire, Head(answer)) ELSE wire
      /\ UNCHANGED <<client, request, asked, printed, outcome, worker, active, backend, engine, pair>>
  BY DEF Deliver
<1>2. wire \in Seq(Line) /\ answer \in Seq(Line)
  BY DEF EngineInv, EngineTyped
<1>3. answer' \in Seq(Line)
  BY <1>1, <1>2
<1>4. Resting' /\ Running' /\ Orphaned' /\ NoOrphanEngine'
  BY <1>1, EngineLeft
<1>5. CASE client = "waiting"
  <2>1. request \in Requests /\ client # "idle"
    BY <1>5 DEF EngineInv, OwnRequest, EngineTyped, QueryTypeOK
  <2>2. PICK t \in Replies(request) : \E p \in 0..Len(t) : Followed(t, p)
    BY <2>1 DEF EngineInv, Following
  <2>3. PICK p \in 0..Len(t) : Followed(t, p)
    BY <2>2
  <2>4. t \in Seq(Line) /\ p \in Nat
    BY <2>1, <2>2, <2>3, RepliesEnd
  <2>5. printed = {<<request, m>> : m \in 1..p} /\ Piece(wire, p, t) /\ Piece(answer, p + Len(wire), t)
    BY <1>5, <2>3 DEF Followed
  <2>6. Head(answer).id = request
    <3>1. p + Len(wire) \in Nat
      BY <1>2, <2>4
    <3>2. (p + Len(wire)) + 1 \in 1..Len(t) /\ Head(answer) = t[(p + Len(wire)) + 1]
      BY <1>1, <1>2, <2>4, <2>5, <3>1, DropHead
    <3> QED
      BY <2>1, <2>2, <3>2, RepliesEnd
  <2>7. wire' = Append(wire, Head(answer))
    BY <1>1, <1>5, <2>6
  <2>8. wire' \in Seq(Line) /\ Piece(wire', p, t) /\ Piece(answer', p + Len(wire'), t)
    BY <1>1, <1>2, <2>4, <2>5, <2>7, PassHead
  <2>9. Followed(t, p)'
    BY <1>1, <2>5, <2>8 DEF Followed
  <2>10. Following'
    BY <1>1, <2>2, <2>3, <2>9 DEF Following
  <2>11. OwnRequest'
    BY <1>1, <1>5 DEF EngineInv, OwnRequest
  <2>12. EngineTyped'
    BY <1>1, <1>3, <2>8 DEF EngineInv, EngineTyped, QueryTypeOK, backend, engine, pair
  <2> QED
    BY <1>4, <2>10, <2>11, <2>12 DEF EngineInv
<1>6. CASE client # "waiting"
  <2>1. wire' = wire
    BY <1>1, <1>6
  <2>2. OwnRequest'
    BY <1>1, <1>6, <2>1 DEF EngineInv, OwnRequest
  <2>3. Following'
    <3>1. CASE client = "idle"
      BY <1>1, <3>1 DEF Following
    <3>2. CASE client # "idle"
      <4>1. PICK t \in Replies(request) : \E p \in 0..Len(t) : Followed(t, p)
        BY <3>2 DEF EngineInv, Following
      <4>2. PICK p \in 0..Len(t) : Followed(t, p)
        BY <4>1
      <4>3. Followed(t, p)' /\ t \in Replies(request')
        BY <1>1, <1>6, <2>1, <4>2 DEF Followed
      <4> QED
        BY <4>3 DEF Following
    <3> QED
      BY <3>1, <3>2
  <2>4. EngineTyped'
    BY <1>1, <1>3, <2>1 DEF EngineInv, EngineTyped, QueryTypeOK, backend, engine, pair
  <2> QED
    BY <1>4, <2>2, <2>3, <2>4 DEF EngineInv
<1> QED
  BY <1>5, <1>6

LEMMA WorkerDiesKeeps ==
  ASSUME EngineInv, WorkerDies
  PROVE  EngineInv'
<1>1. /\ worker' = "down" /\ active' = None /\ answer' = << >>
      /\ client' = IF client = "idle" THEN client ELSE "cut"
      /\ child' = IF child \in {"none", "forked"} THEN child ELSE "gone"
      /\ frame' = None /\ reply' = << >> /\ send' = << >> /\ response' = << >>
      /\ UNCHANGED <<request, asked, wire, printed, outcome, pair>>
  BY DEF WorkerDies
<1>2. OwnRequest'
  BY <1>1 DEF EngineInv, OwnRequest
<1>3. Following'
  <2>1. CASE client = "idle"
    BY <1>1, <2>1 DEF Following
  <2>2. CASE client # "idle"
    <3>1. PICK t \in Replies(request) : \E p \in 0..Len(t) : Followed(t, p)
      BY <2>2 DEF EngineInv, Following
    <3>2. PICK p \in 0..Len(t) : Followed(t, p)
      BY <3>1
    <3>3. Followed(t, p)' /\ t \in Replies(request')
      BY <1>1, <2>2, <3>2 DEF Followed
    <3> QED
      BY <3>3 DEF Following
  <2> QED
    BY <2>1, <2>2
<1>4. Resting' /\ Running' /\ Orphaned' /\ NoOrphanEngine'
  BY <1>1 DEF Resting, Running, Orphaned, NoOrphanEngine
<1>5. EngineTyped'
  BY <1>1, EngineAssumption DEF EngineInv, EngineTyped, QueryTypeOK, pair
<1> QED
  BY <1>2, <1>3, <1>4, <1>5 DEF EngineInv

LEMMA WorkerStartsKeeps ==
  ASSUME EngineInv, WorkerStarts
  PROVE  EngineInv'
<1>1. /\ worker = "down" /\ worker' = "up" /\ NoEngine /\ UNCHANGED <<asking, active, answer>>
  BY DEF WorkerStarts
<1>2. active = None
  BY <1>1 DEF EngineInv, Orphaned
<1>3. OwnRequest' /\ Following'
  BY <1>1, ClientLeft
<1>4. Resting' /\ Running' /\ Orphaned' /\ NoOrphanEngine'
  BY <1>1, <1>2, EngineGone
<1>5. EngineTyped'
  BY <1>1, EngineAssumption DEF EngineInv, EngineTyped, QueryTypeOK, NoEngine, asking
<1> QED
  BY <1>3, <1>4, <1>5 DEF EngineInv

-----------------------------------------------------------------------------
(* The steps of the client.                                                *)

LEMMA AskKeeps ==
  ASSUME EngineInv, NEW r \in Requests, Ask(r)
  PROVE  EngineInv'
<1>1. /\ r \notin asked /\ client' = "asking" /\ request' = r /\ asked' = asked \cup {r}
      /\ wire' = << >> /\ printed' = {} /\ UNCHANGED <<serving, backend, engine, pair>>
  BY DEF Ask
<1>2. OwnRequest'
  BY <1>1, EngineAssumption DEF EngineInv, OwnRequest, serving
<1>3. Following'
  <2>1. PICK t : t = <<Failed(r)>>
    OBVIOUS
  <2>2. t \in Replies(r) /\ t \in Seq(Line)
    BY <2>1, PublishedIsReply, RepliesEnd
  <2>3. Piece(wire', 0, t)
    BY <1>1, <2>2 DEF Piece
  <2>4. printed' = {<<request', m>> : m \in 1..0}
    BY <1>1
  <2>5. Followed(t, 0)'
    BY <1>1, <2>3, <2>4 DEF Followed
  <2>6. 0 \in 0..Len(t) /\ t \in Replies(request')
    BY <1>1, <2>2
  <2> QED
    BY <2>5, <2>6 DEF Following
<1>4. Resting' /\ Running' /\ Orphaned' /\ NoOrphanEngine'
  BY <1>1, EngineLeft DEF serving
<1>5. EngineTyped'
  BY <1>1 DEF EngineInv, EngineTyped, QueryTypeOK, serving, backend, engine, pair
<1> QED
  BY <1>2, <1>3, <1>4, <1>5 DEF EngineInv

LEMMA ReturnsKeeps ==
  ASSUME EngineInv, client' = "idle", request' = None, wire' = << >>,
         UNCHANGED <<asked, printed, serving, backend, engine, pair>>
  PROVE  EngineInv'
<1>1. OwnRequest' /\ Following'
  BY DEF EngineInv, OwnRequest, Following, serving
<1>2. Resting' /\ Running' /\ Orphaned' /\ NoOrphanEngine'
  BY EngineLeft DEF serving
<1>3. EngineTyped'
  BY DEF EngineInv, EngineTyped, QueryTypeOK, serving, backend, engine, pair
<1> QED
  BY <1>1, <1>2, <1>3 DEF EngineInv

\* The line that arrives is the next one of a response to the request.
LEMMA Arrives ==
  ASSUME EngineInv, wire # << >>
  PROVE  /\ client \notin {"idle", "asking"} /\ request \in Requests
         /\ ~(client = "waiting" /\ active = request)
         /\ \E t \in Replies(request) : \E p \in 0..Len(t) :
              /\ Followed(t, p) /\ p + 1 \in 1..Len(t) /\ Head(wire) = t[p + 1]
              /\ Tail(wire) \in Seq(Line) /\ Len(Tail(wire)) = Len(wire) - 1
              /\ Piece(Tail(wire), p + 1, t)
<1>1. client \notin {"idle", "asking"} /\ ~(client = "waiting" /\ active = request)
  BY DEF EngineInv, OwnRequest
<1>2. request \in Requests
  BY <1>1 DEF EngineInv, OwnRequest, EngineTyped, QueryTypeOK
<1>3. PICK t \in Replies(request) : \E p \in 0..Len(t) : Followed(t, p)
  BY <1>1 DEF EngineInv, Following
<1>4. PICK p \in 0..Len(t) : Followed(t, p)
  BY <1>3
<1>5. t \in Seq(Line) /\ wire \in Seq(Line) /\ p \in Nat /\ Piece(wire, p, t)
  BY <1>2, <1>3, <1>4, RepliesEnd DEF EngineInv, EngineTyped, Followed
<1>6. /\ p + 1 \in 1..Len(t) /\ Head(wire) = t[p + 1]
      /\ Tail(wire) \in Seq(Line) /\ Len(Tail(wire)) = Len(wire) - 1
      /\ Piece(Tail(wire), p + 1, t)
  BY <1>5, DropHead
<1> QED
  BY <1>1, <1>2, <1>3, <1>4, <1>6

Printed ==
  /\ wire # << >> /\ Head(wire).id = request /\ Head(wire).kind = "result"
  /\ printed' = printed \cup {<<Head(wire).id, Head(wire).n>>} /\ wire' = Tail(wire)
  /\ UNCHANGED <<client, request, outcome, asked, serving, backend, engine, pair>>

LEMMA PrintedKeeps ==
  ASSUME EngineInv, Printed
  PROVE  EngineInv'
<1>1. PICK t \in Replies(request) : \E p \in 0..Len(t) :
              /\ Followed(t, p) /\ p + 1 \in 1..Len(t) /\ Head(wire) = t[p + 1]
              /\ Tail(wire) \in Seq(Line) /\ Len(Tail(wire)) = Len(wire) - 1
              /\ Piece(Tail(wire), p + 1, t)
  BY Arrives DEF Printed
<1>2. PICK p \in 0..Len(t) :
              /\ Followed(t, p) /\ p + 1 \in 1..Len(t) /\ Head(wire) = t[p + 1]
              /\ Tail(wire) \in Seq(Line) /\ Len(Tail(wire)) = Len(wire) - 1
              /\ Piece(Tail(wire), p + 1, t)
  BY <1>1
<1>3. client \notin {"idle", "asking"} /\ request \in Requests
      /\ ~(client = "waiting" /\ active = request)
  BY Arrives DEF Printed
<1>4. Head(wire).n = p + 1 /\ Head(wire).id = request
  BY <1>1, <1>2, <1>3, RepliesEnd DEF Printed
<1>5. t \in Seq(Line) /\ p \in Nat /\ wire \in Seq(Line) /\ Len(wire) \in Nat
  BY <1>1, <1>2, <1>3, RepliesEnd DEF EngineInv, EngineTyped
<1>6. printed' = {<<request', m>> : m \in 1..p + 1}
  <2>1. printed = {<<request, m>> : m \in 1..p} /\ request' = request
        /\ printed' = printed \cup {<<request, p + 1>>}
    BY <1>2, <1>4 DEF Followed, Printed
  <2>2. \A m : m \in 1..p + 1 <=> m \in 1..p \/ m = p + 1
    BY <1>5
  <2> QED
    BY <2>1, <2>2, Zenon
<1>7. Followed(t, p + 1)'
  <2>1. Piece(wire', p + 1, t)
    BY <1>2 DEF Printed
  <2>2. client = "waiting" => Piece(answer', (p + 1) + Len(wire'), t)
    <3>1. client = "waiting" => Piece(answer, p + Len(wire), t)
      BY <1>2 DEF Followed
    <3>2. Len(wire') = Len(wire) - 1
      BY <1>2 DEF Printed
    <3>3. (p + 1) + Len(wire') = p + Len(wire)
      BY <1>5, <3>2
    <3> QED
      BY <3>1, <3>3 DEF Printed, serving
  <2> QED
    BY <1>6, <2>1, <2>2 DEF Followed, Printed
<1>8. Following'
  <2>1. p + 1 \in 0..Len(t) /\ t \in Replies(request')
    BY <1>1, <1>2, <1>5 DEF Printed
  <2> QED
    BY <1>7, <2>1 DEF Following
<1>9. OwnRequest'
  BY <1>3 DEF Printed, EngineInv, OwnRequest, serving
<1>10. Resting' /\ Running' /\ Orphaned' /\ NoOrphanEngine'
  BY EngineLeft DEF Printed, serving
<1>11. EngineTyped'
  BY <1>2 DEF Printed, EngineInv, EngineTyped, QueryTypeOK, serving, backend, engine, pair
<1> QED
  BY <1>8, <1>9, <1>10, <1>11 DEF EngineInv

\* A line that arrives is printed or ends the search.
LEMMA Receives ==
  ASSUME ReceiveLine
  PROVE  \/ Printed
         \/ /\ wire # << >> /\ \E how \in {"success", "failure"} : Returns(how)
            /\ UNCHANGED <<asked, printed, serving, backend, engine, pair>>
            /\ outcome' = "success" => Head(wire).id = request /\ Head(wire).kind = "completed"
BY DEF ReceiveLine, Printed, Returns

-----------------------------------------------------------------------------
(* The theorems.                                                           *)

LEMMA QueryInitHolds == QueryInit => EngineInv
<1> SUFFICES ASSUME QueryInit PROVE EngineInv
  OBVIOUS
<1> USE DEF QueryInit
<1>1. EngineTyped
  BY EngineAssumption DEF EngineTyped, QueryTypeOK
<1>2. OwnRequest /\ Following /\ Resting /\ Running /\ Orphaned /\ NoOrphanEngine
  BY DEF OwnRequest, Following, Resting, Empty, Running, Orphaned, NoOrphanEngine
<1> QED
  BY <1>1, <1>2 DEF EngineInv

LEMMA QueryStepKeeps == EngineInv /\ [QueryNext]_query_vars => EngineInv'
<1> SUFFICES ASSUME EngineInv, [QueryNext]_query_vars PROVE EngineInv'
  OBVIOUS
<1>1. CASE Arm \/ NoticeParent
  BY <1>1, ArmKeeps
<1>2. CASE ReadFrame
  BY <1>2, ReadFrameKeeps
<1>3. CASE SearchFails \/ SearchEnds
  BY <1>3, SearchKeeps
<1>4. CASE WriteReply
  BY <1>4, WriteReplyKeeps
<1>5. CASE NextFrame
  BY <1>5, NextFrameKeeps
<1>6. CASE EngineDies
  BY <1>6, EngineDiesKeeps
<1>7. CASE Dispatch
  BY <1>7, DispatchKeeps
<1>8. CASE Refuse
  BY <1>8, RefuseKeeps
<1>9. CASE PollWrite
  BY <1>9, PollWriteKeeps
<1>10. CASE PollRead
  BY <1>10, PollReadKeeps
<1>11. CASE PollFails \/ Abandon
  BY <1>11, FailKeeps DEF PollFails, Abandon
<1>12. CASE Release
  BY <1>12, ReleaseKeeps
<1>13. CASE Deliver
  BY <1>13, DeliverKeeps
<1>14. CASE WorkerDies
  BY <1>14, WorkerDiesKeeps
<1>15. CASE WorkerStarts
  BY <1>15, WorkerStartsKeeps
<1>16. CASE ReceiveLine
  BY <1>16, Receives, PrintedKeeps, ReturnsKeeps DEF Returns
<1>17. CASE ClientFails
  BY <1>17, ReturnsKeeps DEF ClientFails, Returns
<1>18. CASE \E r \in Requests : Ask(r)
  BY <1>18, AskKeeps
<1>19. CASE UNCHANGED query_vars
  <2>1. UNCHANGED <<asking, serving, backend, engine, pair>>
    BY <1>19 DEF query_vars
  <2>2. EngineTyped'
    BY <2>1 DEF EngineInv, EngineTyped, QueryTypeOK, asking, serving, backend, engine, pair
  <2> QED
    BY <2>1, <2>2, ClientLeft, EngineLeft DEF EngineInv, serving
<1> QED
  BY <1>1, <1>2, <1>3, <1>4, <1>5, <1>6, <1>7, <1>8, <1>9, <1>10, <1>11, <1>12,
     <1>13, <1>14, <1>15, <1>16, <1>17, <1>18, <1>19 DEF QueryNext

\* The inductive invariant, of which the two results below are consequences.
THEOREM EngineInvariant == QuerySpec => []EngineInv
<1> QED
  BY QueryInitHolds, QueryStepKeeps, PTL DEF QuerySpec

\* No engine outlives its worker: one that was not yet told to die with its
\* parent notices that the parent is gone (`pre_exec` in retrieval/transport.rs).
THEOREM NoOrphans == QuerySpec => []NoOrphanEngine
<1>1. EngineInv => NoOrphanEngine
  BY DEF EngineInv
<1> QED
  BY <1>1, EngineInvariant, PTL

LEMMA AnswersInit == QueryInit => Promise!Init
BY DEF QueryInit, Promise!Init

\* Only a client that prints or returns takes a step of Answers.
LEMMA AnswersStep == EngineInv /\ [QueryNext]_query_vars => [Promise!Next]_(Promise!vars)
<1> SUFFICES ASSUME EngineInv, [QueryNext]_query_vars
             PROVE  Promise!Next \/ UNCHANGED <<request, printed, outcome>>
  BY DEF Promise!vars
<1>1. CASE Printed
  <2>1. PICK t \in Replies(request) : \E p \in 0..Len(t) :
               Followed(t, p) /\ p + 1 \in 1..Len(t) /\ Head(wire) = t[p + 1]
    BY <1>1, Arrives DEF Printed
  <2>2. PICK p \in 0..Len(t) :
               Followed(t, p) /\ p + 1 \in 1..Len(t) /\ Head(wire) = t[p + 1]
    BY <2>1
  <2>3. request \in Requests
    BY <1>1, Arrives DEF Printed
  <2>4. p + 1 \in 1..Results[request] /\ Head(wire).n = p + 1 /\ Head(wire).id = request
    BY <1>1, <2>1, <2>2, <2>3, RepliesEnd DEF Printed
  <2>5. \A m \in 1..((p + 1) - 1) : <<request, m>> \in printed
    BY <2>2 DEF Followed
  <2>6. printed' = printed \cup {<<request, p + 1>>} /\ UNCHANGED <<request, outcome>>
    BY <1>1, <2>4 DEF Printed
  <2>7. Promise!PrintResult
    BY <2>3, <2>4, <2>5, <2>6, EngineAssumption DEF Promise!PrintResult
  <2> QED
    BY <2>7 DEF Promise!Next
<1>2. CASE wire # << >> /\ Returns("success") /\ UNCHANGED printed
           /\ Head(wire).id = request /\ Head(wire).kind = "completed"
  <2>1. PICK t \in Replies(request) : \E p \in 0..Len(t) :
               Followed(t, p) /\ p + 1 \in 1..Len(t) /\ Head(wire) = t[p + 1]
    BY <1>2, Arrives
  <2>2. PICK p \in 0..Len(t) :
               Followed(t, p) /\ p + 1 \in 1..Len(t) /\ Head(wire) = t[p + 1]
    BY <2>1
  <2>3. request \in Requests /\ Results[request] \in Nat
    BY <1>2, Arrives, EngineAssumption
  <2>4. p + 1 = Results[request] + 1
    BY <1>2, <2>1, <2>2, <2>3, RepliesEnd
  <2>5. p = Results[request]
    BY <2>3, <2>4
  <2>6. \A n \in 1..Results[request] : <<request, n>> \in printed
    BY <2>2, <2>5 DEF Followed
  <2>7. Promise!Succeed
    BY <1>2, <2>3, <2>6, EngineAssumption DEF Promise!Succeed, Returns
  <2> QED
    BY <2>7 DEF Promise!Next
<1>3. CASE client # "idle" /\ Returns("failure") /\ UNCHANGED printed
  <2>1. request # None
    BY <1>3 DEF EngineInv, OwnRequest
  <2> QED
    BY <1>3, <2>1 DEF Promise!Next, Promise!Fail, Returns
<1>4. CASE ReceiveLine
  <2>1. wire # << >> /\ client # "idle"
    BY <1>4, Arrives DEF ReceiveLine
  <2>2. \/ Printed
        \/ Returns("success") /\ UNCHANGED printed
           /\ Head(wire).id = request /\ Head(wire).kind = "completed"
        \/ Returns("failure") /\ UNCHANGED printed
    BY <1>4, Receives DEF Returns
  <2> QED
    BY <1>1, <1>2, <1>3, <2>1, <2>2
<1>5. CASE ClientFails
  BY <1>3, <1>5 DEF ClientFails
<1>6. ASSUME NEW r \in Requests, Ask(r) PROVE Promise!Next
  <2>1. Promise!Ask(r)
    BY <1>6 DEF Ask, Promise!Ask, EngineInv, OwnRequest
  <2> QED
    BY <2>1 DEF Promise!Next
<1>7. CASE \/ Arm \/ NoticeParent \/ ReadFrame \/ SearchFails \/ SearchEnds \/ WriteReply
           \/ NextFrame \/ EngineDies \/ PollWrite \/ Release \/ WorkerStarts
  BY <1>7 DEF Arm, NoticeParent, ReadFrame, SearchFails, SearchEnds, WriteReply, NextFrame,
              EngineDies, PollWrite, Release, WorkerStarts, asking
<1>8. CASE PollRead \/ PollFails \/ Abandon
  BY <1>8 DEF PollRead, PollFails, Abandon, EngineFails, asking
<1>9. CASE Dispatch \/ Refuse \/ Deliver \/ WorkerDies
  BY <1>9 DEF Dispatch, Refuse, Deliver, WorkerDies
<1>10. CASE UNCHANGED query_vars
  BY <1>10 DEF query_vars, asking
<1> QED
  BY <1>4, <1>5, <1>6, <1>7, <1>8, <1>9, <1>10 DEF QueryNext

\* A search over the socket prints the results of its own request, in their
\* order, and succeeds only when all of them are printed, although frames and
\* lines pass in pieces and client, worker and engine die at any step (`client`,
\* `Backend` in retrieval/transport.rs, `engine_main` in retrieval/protocol.rs).
THEOREM KeepsThePromise == QuerySpec => ImplementsAnswers
<1> QED
  BY AnswersInit, AnswersStep, EngineInvariant, PTL DEF QuerySpec, ImplementsAnswers, Promise!Spec

-----------------------------------------------------------------------------
(***************************************************************************)
(* What holds of `run_captured` for any helpers, any limit of the output   *)
(* and any size of the pipe: a success is the complete output, and no      *)
(* process of the group and no thread outlives the call.                   *)
(***************************************************************************)
\* The child leads its group and cannot leave it.
Leader == Child \in group

\* An output that was sent is all there is of it: nobody can write any more.
\* What the thread has sent is what it ended with.
SentIsAll ==
  /\ reader = "reads" <=> sent = "none"
  /\ sent = "output" => out = {} /\ pipe = 0 /\ got <= Cap

\* The caller has the output that was sent, and a success was checked.
Checked ==
  /\ output = "complete" => sent = "output"
  /\ result = "ok" => status = "success" /\ output = "complete"

CallInv == TypeOK /\ Leader /\ SentIsAll /\ Checked /\ NothingIsLeft

USE ExternalAssumption

-----------------------------------------------------------------------------
(* The type of each group of variables that an action can disturb.         *)

TypeWorld ==
  /\ alive \subseteq {Child} \cup started /\ group \subseteq {Child} \cup started
  /\ started \subseteq Helpers /\ out \subseteq alive /\ err \subseteq alive
  /\ status \in {"none", "success", "failure"} /\ (status = "none" <=> Child \in alive)
TypeStream ==
  /\ pipe \in 0..PipeSize /\ written \in 0..MaxWritten /\ got \in 0..Cap + 1
  /\ got + pipe = written
TypeRest ==
  /\ reader \in {"reads", "done"} /\ sent \in {"none", "output", "error"}
  /\ diagnostics \in {"reads", "done"} /\ bloated \in BOOLEAN /\ late \in BOOLEAN
  /\ pc \in {"disk", "receive", "poll", "clock", "kill", "wait", "join", "returned"}
  /\ output \in {"none", "complete"} /\ result \in {"none", "ok", "error"}

LEMMA CallInitially == Init => CallInv
<1>. SUFFICES ASSUME Init PROVE CallInv
  OBVIOUS
<1>. USE DEF Init
<1>1. TypeWorld
  BY DEF TypeWorld
<1>2. TypeStream
  BY DEF TypeStream
<1>3. TypeRest
  BY DEF TypeRest
<1>4. Leader /\ SentIsAll /\ Checked /\ NothingIsLeft
  BY DEF Leader, SentIsAll, Checked, NothingIsLeft
<1>. QED
  BY <1>1, <1>2, <1>3, <1>4 DEF CallInv, TypeOK, TypeWorld, TypeStream, TypeRest

-----------------------------------------------------------------------------
(* The processes: whatever they do, nobody gets a pipe or the group of the *)
(* child from one that does not have it.                                   *)

\* What the processes and the clock leave alone.
Untouched == UNCHANGED <<threads, caller>>

LEMMA StartStep ==
  ASSUME CallInv, NEW p, NEW h, Start(p, h)
  PROVE  CallInv'
<1>. USE DEF Start
<1>1. Untouched /\ UNCHANGED <<stream, bloated, late, status>>
  BY DEF Untouched
<1>2. h # Child /\ h \notin alive \cup group /\ h \in Helpers
  BY DEF CallInv, TypeOK
<1>3. TypeWorld'
  <2>1. (started \subseteq Helpers)' /\ (alive \subseteq {Child} \cup started)'
        /\ (group \subseteq {Child} \cup started)'
    BY <1>2 DEF CallInv, TypeOK
  <2>2. (out \subseteq alive)' /\ (err \subseteq alive)'
    BY <1>2 DEF CallInv, TypeOK
  <2>3. (status \in {"none", "success", "failure"} /\ (status = "none" <=> Child \in alive))'
    BY <1>2 DEF CallInv, TypeOK
  <2>. QED
    BY <2>1, <2>2, <2>3 DEF TypeWorld
<1>4. TypeStream' /\ TypeRest'
  BY <1>1 DEF CallInv, TypeOK, TypeStream, TypeRest, Untouched, stream, threads, caller
<1>5. Leader' /\ Checked'
  BY <1>1 DEF CallInv, Leader, Checked, Untouched, threads, caller
<1>6. SentIsAll'
  BY <1>1 DEF CallInv, SentIsAll, TypeOK, Untouched, threads, stream
<1>7. NothingIsLeft'
  <2>1. ASSUME alive \cap group = {} PROVE alive' \cap group' = {}
    BY <2>1, <1>2
  <2>. QED
    BY <1>1, <2>1 DEF CallInv, NothingIsLeft, Untouched, threads, caller
<1>. QED
  BY <1>3, <1>4, <1>5, <1>6, <1>7 DEF CallInv, TypeOK, TypeWorld, TypeStream, TypeRest

LEMMA LeaveStep ==
  ASSUME CallInv, NEW h, Leave(h)
  PROVE  CallInv'
<1>. USE DEF Leave
<1>1. h # Child
  OBVIOUS
<1>2. TypeOK' /\ Leader'
  BY <1>1 DEF CallInv, TypeOK, Leader, stream, threads, caller
<1>3. SentIsAll' /\ Checked'
  BY DEF CallInv, SentIsAll, Checked, stream, threads, caller
<1>4. NothingIsLeft'
  BY DEF CallInv, NothingIsLeft, threads, caller
<1>. QED
  BY <1>2, <1>3, <1>4 DEF CallInv

LEMMA DetachStep ==
  ASSUME CallInv, NEW p, Detach(p)
  PROVE  CallInv'
<1>. USE DEF Detach
<1>1. TypeOK' /\ Leader'
  BY DEF CallInv, TypeOK, Leader, stream, threads, caller
<1>2. SentIsAll' /\ Checked'
  BY DEF CallInv, SentIsAll, Checked, stream, threads, caller
<1>3. NothingIsLeft'
  BY DEF CallInv, NothingIsLeft, threads, caller
<1>. QED
  BY <1>1, <1>2, <1>3 DEF CallInv

LEMMA ExitStep ==
  ASSUME CallInv, NEW p, Exit(p)
  PROVE  CallInv'
<1>. USE DEF Exit
<1>1. TypeWorld'
  <2>1. CASE p = Child
    BY <2>1 DEF CallInv, TypeOK, TypeWorld
  <2>2. CASE p # Child
    BY <2>2 DEF CallInv, TypeOK, TypeWorld
  <2>. QED
    BY <2>1, <2>2
<1>2. TypeStream' /\ TypeRest'
  BY DEF CallInv, TypeOK, TypeStream, TypeRest, stream, threads, caller
<1>3. Leader'
  BY DEF CallInv, Leader
<1>4. SentIsAll'
  BY DEF CallInv, SentIsAll, stream, threads
<1>5. Checked'
  \* A success was read from a child that had exited: it does not exit again.
  <2>1. status = "success" => p # Child
    BY DEF CallInv, TypeOK
  <2>. QED
    BY <2>1 DEF CallInv, Checked, threads, caller
<1>6. NothingIsLeft'
  BY DEF CallInv, NothingIsLeft, threads, caller
<1>. QED
  BY <1>1, <1>2, <1>3, <1>4, <1>5, <1>6
  DEF CallInv, TypeOK, TypeWorld, TypeStream, TypeRest

LEMMA WriteStep ==
  ASSUME CallInv, NEW p, Write(p)
  PROVE  CallInv'
<1>. USE DEF Write
<1>1. TypeStream'
  BY DEF CallInv, TypeOK, TypeStream, threads
<1>2. TypeWorld' /\ TypeRest'
  BY DEF CallInv, TypeOK, TypeWorld, TypeRest, world, threads, caller
<1>3. SentIsAll'
  BY DEF CallInv, SentIsAll, world, threads
<1>4. Leader' /\ Checked' /\ NothingIsLeft'
  BY DEF CallInv, Leader, Checked, NothingIsLeft, world, threads, caller
<1>. QED
  BY <1>1, <1>2, <1>3, <1>4 DEF CallInv, TypeOK, TypeWorld, TypeStream, TypeRest

LEMMA EnvironmentStep ==
  ASSUME CallInv, Bloat \/ TimePasses
  PROVE  CallInv'
<1>. USE DEF Bloat, TimePasses, world, stream, threads, caller
<1>1. TypeOK'
  <2>1. bloated' \in BOOLEAN /\ late' \in BOOLEAN
    BY DEF CallInv, TypeOK
  <2>2. UNCHANGED <<world, stream, threads, caller>>
    OBVIOUS
  <2>. QED
    BY <2>1, <2>2 DEF CallInv, TypeOK
<1>2. Leader' /\ SentIsAll' /\ Checked' /\ NothingIsLeft'
  BY DEF CallInv, Leader, SentIsAll, Checked, NothingIsLeft
<1>. QED
  BY <1>1, <1>2 DEF CallInv

-----------------------------------------------------------------------------
(* The threads.                                                            *)

LEMMA ReadStep ==
  ASSUME CallInv, ReadOutput
  PROVE  CallInv'
<1>. USE DEF ReadOutput, ReadsUpTo
<1>1. TypeStream'
  BY DEF CallInv, TypeOK, TypeStream
<1>2. TypeWorld' /\ TypeRest'
  BY DEF CallInv, TypeOK, TypeWorld, TypeRest, world, caller
<1>3. SentIsAll'
  BY DEF CallInv, SentIsAll, world
<1>4. Leader' /\ Checked' /\ NothingIsLeft'
  BY DEF CallInv, Leader, Checked, NothingIsLeft, world, caller
<1>. QED
  BY <1>1, <1>2, <1>3, <1>4 DEF CallInv, TypeOK, TypeWorld, TypeStream, TypeRest

\* The thread has read no more than it accepts: then it has met the end.
LEMMA OutputEndsStep ==
  ASSUME CallInv, OutputEnds
  PROVE  CallInv'
<1>. USE DEF OutputEnds, ReadsUpTo
<1>1. TypeWorld' /\ TypeStream' /\ TypeRest'
  BY DEF CallInv, TypeOK, TypeWorld, TypeStream, TypeRest, world, stream, caller
<1>2. SentIsAll'
  <2>1. got > Cap \/ (got <= Cap /\ pipe = 0 /\ out = {})
    BY DEF CallInv, TypeOK
  <2>2. CASE got > Cap
    BY <2>2 DEF SentIsAll
  <2>3. CASE got <= Cap /\ pipe = 0 /\ out = {}
    BY <2>3 DEF SentIsAll, world, stream
  <2>. QED
    BY <2>1, <2>2, <2>3
<1>3. Checked'
  <2>1. sent = "none"
    BY DEF CallInv, SentIsAll
  <2>. QED
    BY <2>1 DEF CallInv, Checked, world, caller, TypeOK
<1>4. Leader' /\ NothingIsLeft'
  BY DEF CallInv, Leader, NothingIsLeft, world, caller
<1>. QED
  BY <1>1, <1>2, <1>3, <1>4 DEF CallInv, TypeOK, TypeWorld, TypeStream, TypeRest

LEMMA DiagnosticsStep ==
  ASSUME CallInv, DiagnosticsEnd
  PROVE  CallInv'
<1>. USE DEF DiagnosticsEnd, world, stream, caller
<1>1. TypeOK'
  BY DEF CallInv, TypeOK
<1>2. Leader' /\ SentIsAll' /\ Checked' /\ NothingIsLeft'
  BY DEF CallInv, Leader, SentIsAll, Checked, NothingIsLeft
<1>. QED
  BY <1>1, <1>2 DEF CallInv

-----------------------------------------------------------------------------
(* The caller.                                                             *)

\* A step of the loop: it goes on, it ends in an error, or the poll found the
\* success that the invariant is about.
LEMMA LoopStep ==
  ASSUME CallInv, CheckDisk \/ Receive \/ Poll \/ Clock
  PROVE  CallInv'
<1>1. /\ UNCHANGED <<world, stream, threads, bloated, late>>
      /\ pc' \in {"disk", "receive", "poll", "clock", "kill"}
      /\ output' = output \/ (output' = "complete" /\ sent = "output")
      /\ \/ result' = result \/ result' = "error"
         \/ result' = "ok" /\ status = "success" /\ output = "complete" /\ output' = output
  <2>1. CASE CheckDisk
    BY <2>1 DEF CheckDisk, Measured, Steps, Ends
  <2>2. CASE Receive
    BY <2>2 DEF Receive, Steps, Ends
  <2>3. CASE Poll
    BY <2>3 DEF CallInv, TypeOK, Poll, Finished, Measured, Steps, Ends
  <2>4. CASE Clock
    BY <2>4 DEF Clock, Steps, Ends
  <2>. QED
    BY <2>1, <2>2, <2>3, <2>4
<1>. USE DEF world, stream, threads
<1>2. TypeOK'
  <2>1. output' \in {"none", "complete"} /\ result' \in {"none", "ok", "error"}
    BY <1>1 DEF CallInv, TypeOK
  <2>2. TypeWorld' /\ TypeStream'
    BY <1>1 DEF CallInv, TypeOK, TypeWorld, TypeStream
  <2>3. TypeRest'
    BY <1>1, <2>1 DEF CallInv, TypeOK, TypeRest
  <2>. QED
    BY <2>2, <2>3 DEF TypeOK, TypeWorld, TypeStream, TypeRest
<1>3. Leader' /\ SentIsAll'
  BY <1>1 DEF CallInv, Leader, SentIsAll
<1>4. Checked'
  BY <1>1 DEF CallInv, Checked
<1>5. NothingIsLeft'
  BY <1>1 DEF NothingIsLeft
<1>. QED
  BY <1>2, <1>3, <1>4, <1>5 DEF CallInv

\* SIGKILL reaches the child, because it leads its group, and everybody else
\* who is in the group.
LEMMA KillStep ==
  ASSUME CallInv, Kill
  PROVE  CallInv'
<1>. USE DEF Kill, Killed, Steps
<1>1. TypeWorld'
  <2>1. Child \notin alive'
    BY DEF CallInv, Leader
  <2>2. status' \in {"success", "failure"}
    BY DEF CallInv, TypeOK
  <2>. QED
    BY <2>1, <2>2 DEF CallInv, TypeOK, TypeWorld
<1>2. TypeStream' /\ TypeRest'
  BY DEF CallInv, TypeOK, TypeStream, TypeRest, stream, threads
<1>3. Leader'
  BY DEF CallInv, Leader
<1>4. SentIsAll'
  BY DEF CallInv, SentIsAll, stream, threads
<1>5. Checked'
  <2>1. status = "success" => status' = status
    BY DEF CallInv, TypeOK
  <2>. QED
    BY <2>1 DEF CallInv, Checked, threads
<1>6. NothingIsLeft'
  BY DEF NothingIsLeft
<1>. QED
  BY <1>1, <1>2, <1>3, <1>4, <1>5, <1>6
  DEF CallInv, TypeOK, TypeWorld, TypeStream, TypeRest

LEMMA EndStep ==
  ASSUME CallInv, Wait \/ Join
  PROVE  CallInv'
<1>. USE DEF Wait, Join, Steps, world, stream, threads
<1>1. TypeOK'
  BY DEF CallInv, TypeOK
<1>2. Leader' /\ SentIsAll' /\ Checked'
  BY DEF CallInv, Leader, SentIsAll, Checked
<1>3. NothingIsLeft'
  BY DEF CallInv, NothingIsLeft
<1>. QED
  BY <1>1, <1>2, <1>3 DEF CallInv

-----------------------------------------------------------------------------
LEMMA CallStepKeeps == CallInv /\ [Next]_vars => CallInv'
<1>. SUFFICES ASSUME CallInv, [Next]_vars PROVE CallInv'
  OBVIOUS
<1>1. CASE Caller
  BY <1>1, LoopStep, KillStep, EndStep DEF Caller
<1>2. CASE Threads
  BY <1>2, ReadStep, OutputEndsStep, DiagnosticsStep DEF Threads
<1>3. CASE World
  BY <1>3, StartStep, LeaveStep, DetachStep, ExitStep, WriteStep, EnvironmentStep DEF World
<1>4. CASE UNCHANGED vars
  <2>. USE <1>4 DEF vars, world, stream, threads, caller
  <2>1. TypeOK'
    BY DEF CallInv, TypeOK
  <2>2. Leader' /\ SentIsAll' /\ Checked' /\ NothingIsLeft'
    BY DEF CallInv, Leader, SentIsAll, Checked, NothingIsLeft
  <2>. QED
    BY <2>1, <2>2 DEF CallInv
<1>. QED
  BY <1>1, <1>2, <1>3, <1>4 DEF Next

\* The invariant of the call, of which its parts are the theorems.  It needs no
\* fairness.
LEMMA CallSafety == Init /\ [][Next]_vars => []CallInv
  BY CallInitially, CallStepKeeps, PTL

THEOREM CallInvariant == Spec => []CallInv
  BY CallSafety, PTL DEF Spec

\* A success is the complete output of the child and of every helper that had
\* its pipe (run_captured accepts an output only after the end of the pipe, and
\* read_limited tells more output than is accepted from exactly as much).
THEOREM CompleteOutput == Spec => []SuccessIsComplete
<1>1. CallInv => SuccessIsComplete
  BY DEF CallInv, TypeOK, SentIsAll, Checked, SuccessIsComplete
<1>. QED
  BY <1>1, CallInvariant, PTL

\* After the group is killed no process of it runs, and when the call returns
\* both threads have ended (the end of run_captured).
THEOREM NothingOutlives == Spec => []NothingIsLeft
<1>1. CallInv => NothingIsLeft
  BY DEF CallInv
<1>. QED
  BY <1>1, CallInvariant, PTL
=============================================================================
