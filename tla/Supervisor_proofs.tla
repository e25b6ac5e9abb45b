------------------------- MODULE Supervisor_proofs -------------------------
(***************************************************************************)
(* Proofs about the query supervisor.  The inductive invariant IInv says   *)
(* where everything is that a client was promised: the ids of its queue,   *)
(* of the search that runs for it, and of the packets of its output are    *)
(* those outstanding, each once (Good, Promises); that the running search  *)
(* has an engine and a consumer (Consumer); and which clients `last_client`*)
(* has passed since one that waits was served (Turns).  A second one,      *)
(* BInv, says that what is counted of a client's output is what it holds   *)
(* (AllHeld), and what the live ones retain together (Limited).            *)
(*                                                                         *)
(* First come lemmas about sequences and sums, then what every operation   *)
(* on a client does to its promises, then one lemma per action, then the   *)
(* theorems; the second invariant is at the end.                           *)
(***************************************************************************)
EXTENDS Supervisor, SequenceTheorems, FiniteSetTheorems, WellFoundedInduction, TLAPS

-----------------------------------------------------------------------------
(* Types.                                                                  *)

Kinds == {"lexical", "dense"} \cap Ops
Job == [id : Ids, op : Kinds]
Running == [client : Conns, id : Ids, op : Kinds]
ClientType ==
  [input : Seq(Frame), pending : Seq(Job), outstanding : SUBSET Ids, output : Seq(Packet),
   output_bytes : Int, eof : BOOLEAN, dead : BOOLEAN, framing : BOOLEAN, blocked : BOOLEAN]

-----------------------------------------------------------------------------
(* The ids in a queue and in an output, and that each is there once.       *)

Queued(q) == {q[i].id : i \in DOMAIN q}
QueuedOnce(q) == \A i, j \in DOMAIN q : q[i].id = q[j].id => i = j
Answered(o) == {o[i].release : i \in {j \in DOMAIN o : o[j].release # None}}
AnsweredOnce(o) == \A i, j \in DOMAIN o : o[i].release # None /\ o[i].release = o[j].release => i = j

LEMMA AppendAt ==
  ASSUME NEW S, NEW s \in Seq(S), NEW e \in S
  PROVE  /\ Append(s, e) \in Seq(S) /\ DOMAIN Append(s, e) = 1..Len(s) + 1
         /\ \A i \in 1..Len(s) : Append(s, e)[i] = s[i]
         /\ Append(s, e)[Len(s) + 1] = e
         /\ DOMAIN s = 1..Len(s) /\ Len(s) \in Nat
  OBVIOUS

LEMMA TailAt ==
  ASSUME NEW S, NEW s \in Seq(S), s # << >>
  PROVE  /\ Tail(s) \in Seq(S) /\ DOMAIN Tail(s) = 1..Len(s) - 1
         /\ \A i \in 1..Len(s) - 1 : Tail(s)[i] = s[i + 1]
         /\ Head(s) = s[1] /\ Head(s) \in S
         /\ DOMAIN s = 1..Len(s) /\ Len(s) \in Nat \ {0}
  OBVIOUS

LEMMA ConcatAt ==
  ASSUME NEW S, NEW s \in Seq(S), NEW t \in Seq(S)
  PROVE  /\ s \o t \in Seq(S) /\ DOMAIN (s \o t) = 1..Len(s) + Len(t)
         /\ \A i \in 1..Len(s) : (s \o t)[i] = s[i]
         /\ \A i \in 1..Len(t) : (s \o t)[Len(s) + i] = t[i]
         /\ \A i \in Len(s) + 1..Len(s) + Len(t) : (s \o t)[i] = t[i - Len(s)]
         /\ DOMAIN s = 1..Len(s) /\ Len(s) \in Nat /\ DOMAIN t = 1..Len(t) /\ Len(t) \in Nat
  OBVIOUS

LEMMA RemoveAtAt ==
  ASSUME NEW S, NEW s \in Seq(S), NEW n \in 1..Len(s)
  PROVE  /\ RemoveAt(s, n) \in Seq(S) /\ DOMAIN RemoveAt(s, n) = 1..Len(s) - 1
         /\ \A i \in 1..n - 1 : RemoveAt(s, n)[i] = s[i]
         /\ \A i \in n..Len(s) - 1 : RemoveAt(s, n)[i] = s[i + 1]
         /\ DOMAIN s = 1..Len(s) /\ Len(s) \in Nat \ {0}
<1>. DEFINE a == SubSeq(s, 1, n - 1)
            b == SubSeq(s, n + 1, Len(s))
<1>1. a \in Seq(S) /\ Len(a) = n - 1 /\ \A i \in 1..n - 1 : a[i] = s[i]
  OBVIOUS
<1>2. b \in Seq(S) /\ Len(b) = Len(s) - n /\ \A i \in 1..Len(s) - n : b[i] = s[n + i]
  OBVIOUS
<1>. HIDE DEF a, b
<1>3. /\ a \o b \in Seq(S) /\ DOMAIN (a \o b) = 1..Len(a) + Len(b)
      /\ \A i \in 1..Len(a) : (a \o b)[i] = a[i]
      /\ \A i \in Len(a) + 1..Len(a) + Len(b) : (a \o b)[i] = b[i - Len(a)]
  <2>1. a \in Seq(S) /\ b \in Seq(S)
    BY <1>1, <1>2
  <2>. QED
    BY <2>1, ConcatAt
<1>4. RemoveAt(s, n) = a \o b
  BY DEF RemoveAt, a, b
<1>5. ASSUME NEW i \in n..Len(s) - 1 PROVE RemoveAt(s, n)[i] = s[i + 1]
  <2>1. i - (n - 1) \in 1..Len(s) - n /\ i \in Len(a) + 1..Len(a) + Len(b)
    BY <1>1, <1>2
  <2>2. b[i - (n - 1)] = s[n + (i - (n - 1))]
    BY <2>1, <1>2
  <2>. QED
    BY <1>1, <1>3, <1>4, <2>1, <2>2
<1>6. \A i \in 1..n - 1 : RemoveAt(s, n)[i] = s[i]
  BY <1>1, <1>3, <1>4
<1>7. RemoveAt(s, n) \in Seq(S) /\ DOMAIN RemoveAt(s, n) = 1..Len(s) - 1
  BY <1>1, <1>2, <1>3, <1>4
<1>. QED
  BY <1>5, <1>6, <1>7

LEMMA QueueAppend ==
  ASSUME NEW q \in Seq(Job), NEW j \in Job, QueuedOnce(q), j.id \notin Queued(q)
  PROVE  QueuedOnce(Append(q, j)) /\ Queued(Append(q, j)) = Queued(q) \cup {j.id}
<1>. DEFINE r == Append(q, j)
<1>1. /\ DOMAIN r = 1..Len(q) + 1 /\ DOMAIN q = 1..Len(q) /\ Len(q) \in Nat
      /\ \A i \in 1..Len(q) : r[i] = q[i]
      /\ r[Len(q) + 1] = j
  BY AppendAt
<1>. HIDE DEF r
<1>2. QueuedOnce(r)
  BY <1>1 DEF QueuedOnce, Queued
<1>3. Queued(r) = Queued(q) \cup {j.id}
  BY <1>1 DEF Queued
<1>. QED
  BY <1>2, <1>3 DEF r

LEMMA QueueTail ==
  ASSUME NEW q \in Seq(Job), q # << >>, QueuedOnce(q)
  PROVE  /\ QueuedOnce(Tail(q)) /\ Queued(Tail(q)) = Queued(q) \ {Head(q).id}
         /\ Head(q).id \in Queued(q)
<1>. DEFINE r == Tail(q)
<1>1. /\ DOMAIN r = 1..Len(q) - 1 /\ DOMAIN q = 1..Len(q) /\ Len(q) \in Nat \ {0}
      /\ \A i \in 1..Len(q) - 1 : r[i] = q[i + 1]
      /\ Head(q) = q[1]
  BY TailAt
<1>. HIDE DEF r
<1>2. QueuedOnce(r)
  BY <1>1 DEF QueuedOnce
<1>3. ASSUME NEW id \in Queued(q), id # Head(q).id PROVE id \in Queued(r)
  <2>1. PICK i \in 1..Len(q) : id = q[i].id
    BY <1>1 DEF Queued
  <2>2. i # 1 /\ i - 1 \in 1..Len(q) - 1 /\ r[i - 1] = q[i]
    BY <1>1, <1>3, <2>1
  <2>. QED
    BY <1>1, <2>1, <2>2 DEF Queued
<1>4. ASSUME NEW id \in Queued(r) PROVE id \in Queued(q) /\ id # Head(q).id
  <2>1. PICK i \in 1..Len(q) - 1 : id = q[i + 1].id
    BY <1>1 DEF Queued
  <2>. QED
    BY <1>1, <2>1 DEF Queued, QueuedOnce
<1>5. Head(q).id \in Queued(q)
  BY <1>1 DEF Queued
<1>6. Queued(r) = Queued(q) \ {Head(q).id}
  BY <1>3, <1>4
<1>. QED
  BY <1>2, <1>5, <1>6 DEF r

LEMMA QueueRemove ==
  ASSUME NEW q \in Seq(Job), NEW n \in DOMAIN q, QueuedOnce(q)
  PROVE  /\ RemoveAt(q, n) \in Seq(Job)
         /\ QueuedOnce(RemoveAt(q, n)) /\ Queued(RemoveAt(q, n)) = Queued(q) \ {q[n].id}
<1>. DEFINE r == RemoveAt(q, n)
<1>1. /\ r \in Seq(Job) /\ DOMAIN r = 1..Len(q) - 1 /\ DOMAIN q = 1..Len(q) /\ Len(q) \in Nat \ {0}
      /\ \A i \in 1..n - 1 : r[i] = q[i]
      /\ \A i \in n..Len(q) - 1 : r[i] = q[i + 1]
      /\ n \in 1..Len(q)
  BY RemoveAtAt
<1>. HIDE DEF r
<1>2. \A i \in 1..Len(q) - 1 : \/ i < n /\ r[i] = q[i] /\ i \in 1..Len(q)
                               \/ i >= n /\ r[i] = q[i + 1] /\ i + 1 \in 1..Len(q)
  <2>. SUFFICES ASSUME NEW i \in 1..Len(q) - 1
                PROVE  \/ i < n /\ r[i] = q[i] /\ i \in 1..Len(q)
                       \/ i >= n /\ r[i] = q[i + 1] /\ i + 1 \in 1..Len(q)
    OBVIOUS
  <2>1. i < n => i \in 1..n - 1
    BY <1>1
  <2>2. i >= n => i \in n..Len(q) - 1
    BY <1>1
  <2>. QED
    BY <1>1, <2>1, <2>2
<1>3. QueuedOnce(r)
  <2>. SUFFICES ASSUME NEW i \in 1..Len(q) - 1, NEW j \in 1..Len(q) - 1, r[i].id = r[j].id
                PROVE  i = j
    BY <1>1 DEF QueuedOnce
  <2>1. PICK k \in 1..Len(q) : r[i] = q[k] /\ ((i < n /\ k = i) \/ (i >= n /\ k = i + 1))
    BY <1>1, <1>2
  <2>2. PICK l \in 1..Len(q) : r[j] = q[l] /\ ((j < n /\ l = j) \/ (j >= n /\ l = j + 1))
    BY <1>1, <1>2
  <2>3. k = l
    BY <1>1, <2>1, <2>2 DEF QueuedOnce
  <2>. QED
    BY <1>1, <2>1, <2>2, <2>3
<1>4. ASSUME NEW id \in Queued(q), id # q[n].id PROVE id \in Queued(r)
  <2>1. PICK i \in 1..Len(q) : id = q[i].id
    BY <1>1 DEF Queued
  <2>2. CASE i < n
    <3>1. i \in DOMAIN r /\ r[i].id = id
      BY <1>1, <2>1, <2>2
    <3>. QED
      BY <3>1 DEF Queued
  <2>3. CASE i > n
    <3>1. i - 1 \in n..Len(q) - 1 /\ i - 1 \in DOMAIN r /\ r[i - 1] = q[(i - 1) + 1] /\ (i - 1) + 1 = i
      BY <1>1, <2>1, <2>3
    <3>. QED
      BY <2>1, <3>1 DEF Queued
  <2>. QED
    BY <1>1, <1>4, <2>1, <2>2, <2>3
<1>5. ASSUME NEW id \in Queued(r) PROVE id \in Queued(q) /\ id # q[n].id
  <2>1. PICK i \in 1..Len(q) - 1 : id = r[i].id
    BY <1>1 DEF Queued
  <2>2. PICK m \in 1..Len(q) : r[i] = q[m] /\ m # n
    BY <1>1, <1>2, <2>1
  <2>. QED
    BY <1>1, <2>1, <2>2 DEF Queued, QueuedOnce
<1>6. Queued(r) = Queued(q) \ {q[n].id}
  BY <1>4, <1>5
<1>. QED
  BY <1>1, <1>3, <1>6 DEF r

LEMMA OutputAppend ==
  ASSUME NEW o \in Seq(Packet), NEW p \in Packet, AnsweredOnce(o), p.release \notin Answered(o)
  PROVE  /\ AnsweredOnce(Append(o, p))
         /\ Answered(Append(o, p)) = Answered(o) \cup ({p.release} \ {None})
<1>. DEFINE r == Append(o, p)
<1>1. /\ DOMAIN r = 1..Len(o) + 1 /\ DOMAIN o = 1..Len(o) /\ Len(o) \in Nat
      /\ \A i \in 1..Len(o) : r[i] = o[i]
      /\ r[Len(o) + 1] = p
  BY AppendAt
<1>. HIDE DEF r
<1>2. AnsweredOnce(r)
  BY <1>1 DEF AnsweredOnce, Answered
<1>3. Answered(r) = Answered(o) \cup ({p.release} \ {None})
  BY <1>1 DEF Answered
<1>. QED
  BY <1>2, <1>3 DEF r

LEMMA OutputTail ==
  ASSUME NEW o \in Seq(Packet), o # << >>, AnsweredOnce(o)
  PROVE  AnsweredOnce(Tail(o)) /\ Answered(Tail(o)) = Answered(o) \ {Head(o).release}
<1>. DEFINE r == Tail(o)
<1>1. /\ DOMAIN r = 1..Len(o) - 1 /\ DOMAIN o = 1..Len(o) /\ Len(o) \in Nat \ {0}
      /\ \A i \in 1..Len(o) - 1 : r[i] = o[i + 1]
      /\ Head(o) = o[1]
  BY TailAt
<1>. HIDE DEF r
<1>2. AnsweredOnce(r)
  BY <1>1 DEF AnsweredOnce
<1>3. ASSUME NEW id \in Answered(o), id # Head(o).release PROVE id \in Answered(r)
  <2>1. PICK i \in 1..Len(o) : id = o[i].release /\ o[i].release # None
    BY <1>1 DEF Answered
  <2>2. i # 1 /\ i - 1 \in 1..Len(o) - 1 /\ r[i - 1] = o[i]
    BY <1>1, <1>3, <2>1
  <2>. QED
    BY <1>1, <2>1, <2>2 DEF Answered
<1>4. ASSUME NEW id \in Answered(r) PROVE id \in Answered(o) /\ id # Head(o).release
  <2>1. PICK i \in 1..Len(o) - 1 : id = o[i + 1].release /\ id # None
    BY <1>1 DEF Answered
  <2>. QED
    BY <1>1, <2>1 DEF Answered, AnsweredOnce
<1>. QED
  BY <1>2, <1>3, <1>4 DEF r

LEMMA OutputConcat ==
  ASSUME NEW o \in Seq(Packet), NEW t \in Seq(Packet), AnsweredOnce(o), AnsweredOnce(t),
         Answered(o) \cap Answered(t) = {}
  PROVE  AnsweredOnce(o \o t) /\ Answered(o \o t) = Answered(o) \cup Answered(t)
<1>. DEFINE r == o \o t
<1>1. /\ DOMAIN r = 1..Len(o) + Len(t)
      /\ \A i \in 1..Len(o) : r[i] = o[i]
      /\ \A i \in 1..Len(t) : r[Len(o) + i] = t[i]
      /\ \A i \in Len(o) + 1..Len(o) + Len(t) : r[i] = t[i - Len(o)]
      /\ DOMAIN o = 1..Len(o) /\ Len(o) \in Nat /\ DOMAIN t = 1..Len(t) /\ Len(t) \in Nat
  BY ConcatAt
<1>. HIDE DEF r
<1>2. \A i \in DOMAIN r : \/ i \in DOMAIN o /\ r[i] = o[i]
                          \/ i - Len(o) \in DOMAIN t /\ r[i] = t[i - Len(o)]
  <2>. SUFFICES ASSUME NEW i \in DOMAIN r
                PROVE  \/ i \in DOMAIN o /\ r[i] = o[i]
                       \/ i - Len(o) \in DOMAIN t /\ r[i] = t[i - Len(o)]
    OBVIOUS
  <2>1. CASE i <= Len(o)
    BY <1>1, <2>1
  <2>2. CASE i > Len(o)
    BY <1>1, <2>2
  <2>. QED
    BY <1>1, <2>1, <2>2
<1>3. AnsweredOnce(r)
  <2>. SUFFICES ASSUME NEW i \in DOMAIN r, NEW j \in DOMAIN r,
                       r[i].release # None, r[i].release = r[j].release
                PROVE  i = j
    BY DEF AnsweredOnce
  <2>1. CASE i \in DOMAIN o /\ r[i] = o[i] /\ j \in DOMAIN o /\ r[j] = o[j]
    BY <2>1 DEF AnsweredOnce
  <2>2. CASE i - Len(o) \in DOMAIN t /\ r[i] = t[i - Len(o)] /\ j - Len(o) \in DOMAIN t /\ r[j] = t[j - Len(o)]
    <3>1. i - Len(o) = j - Len(o)
      BY <2>2 DEF AnsweredOnce
    <3>. QED
      BY <1>1, <3>1
  <2>3. ASSUME NEW a \in DOMAIN o, NEW b \in DOMAIN t, o[a].release = t[b].release, o[a].release # None
        PROVE  FALSE
    BY <2>3 DEF Answered
  <2>. QED
    BY <1>2, <2>1, <2>2, <2>3
<1>4. Answered(r) \subseteq Answered(o) \cup Answered(t)
  BY <1>2 DEF Answered
<1>5. Answered(o) \subseteq Answered(r)
  BY <1>1 DEF Answered
<1>6. ASSUME NEW id \in Answered(t) PROVE id \in Answered(r)
  <2>1. PICK i \in 1..Len(t) : id = t[i].release /\ id # None
    BY <1>1 DEF Answered
  <2>2. Len(o) + i \in DOMAIN r /\ r[Len(o) + i] = t[i]
    BY <1>1
  <2>. QED
    BY <2>1, <2>2 DEF Answered
<1>. QED
  BY <1>3, <1>4, <1>5, <1>6 DEF r

-----------------------------------------------------------------------------
(* Sums.  A sequence of numbers has running totals and only one sequence   *)
(* of them, the last of which Total returns; by a least counterexample,    *)
(* totals grow, are ordered as their terms are, and lose by leaving out.   *)

\* A finite set of numbers has a smallest one.
LEMMA SmallestNumber ==
  ASSUME NEW F, IsFiniteSet(F), F \subseteq Nat, F # {}
  PROVE  \E m \in F : \A x \in F : m <= x
<1>. DEFINE below(m) == {e \in F : e < m}
            family == {below(m) : m \in F}
<1>1. family \in SUBSET FiniteSubsetsOf(F) /\ family # {}
  <2>1. \A T \in family : T \subseteq F /\ IsFiniteSet(T)
    BY FS_Subset
  <2>. QED
    BY <2>1 DEF FiniteSubsetsOf
<1>2. IsWellFoundedOn(StrictSubsetOrdering(F), FiniteSubsetsOf(F))
  BY FS_StrictSubsetOrderingWellFounded
<1>. HIDE DEF family
<1>3. PICK T \in family : \A U \in family : ~(<<U, T>> \in StrictSubsetOrdering(F))
  BY <1>1, <1>2, WFMin
<1>. USE DEF family
<1>4. PICK m \in F : T = below(m)
  BY <1>3
<1>5. ASSUME NEW x \in F, x < m PROVE FALSE
  <2>1. below(x) \subseteq below(m) /\ x \in below(m) /\ x \notin below(x)
    <3>1. m \in Nat /\ x \in Nat /\ \A e \in F : e \in Nat
      OBVIOUS
    <3>2. \A e \in F : e < x => e < m
      BY <1>5, <3>1
    <3>3. ~(x < x)
      BY <3>1
    <3>. QED
      BY <1>5, <3>2, <3>3
  <2>2. below(x) \in family /\ below(x) \in SUBSET F /\ T \in SUBSET F
    BY <1>4
  <2>. HIDE DEF below, family
  <2>3. <<below(x), T>> \in StrictSubsetOrdering(F)
    BY <1>4, <2>1, <2>2 DEF StrictSubsetOrdering
  <2>. QED
    BY <1>3, <2>2, <2>3
<1>. QED
  BY <1>5

\* A set of numbers with zero and every successor has them all.
LEMMA Successors ==
  ASSUME NEW S, 0 \in S, \A n \in Nat : n \in S => n + 1 \in S
  PROVE  \A n \in Nat : n \in S
<1>. SUFFICES ASSUME NEW n \in Nat, n \notin S PROVE FALSE
  OBVIOUS
<1>. DEFINE missing == {m \in 0..n : m \notin S}
<1>1. IsFiniteSet(missing) /\ missing # {} /\ missing \subseteq Nat
  <2>1. IsFiniteSet(0..n) /\ missing \in SUBSET (0..n)
    BY FS_Interval
  <2>2. IsFiniteSet(missing)
    BY <2>1, FS_Subset
  <2>. QED
    BY <2>2
<1>2. PICK x \in missing : \A y \in missing : x <= y
  BY <1>1, SmallestNumber
<1>3. x # 0 /\ x - 1 \in 0..n /\ ~(x <= x - 1) /\ x - 1 \in Nat
  OBVIOUS
<1>4. x - 1 \in S
  BY <1>2, <1>3
<1>. QED
  BY <1>3, <1>4

IsTotals(w, n, t) == /\ t \in [0..n -> Nat] /\ t[0] = 0
                     /\ \A i \in 1..n : t[i] = t[i - 1] + w[i]

LEMMA TotalsExist ==
  ASSUME NEW w, NEW n \in Nat, \A i \in 1..n : w[i] \in Nat
  PROVE  \E t : IsTotals(w, n, t)
<1>. DEFINE S == {m \in 0..n : \E t : IsTotals(w, m, t)}
            R == {m \in Nat : m <= n => m \in S}
<1>1. 0 \in S
  <2>. DEFINE t == [i \in 0..0 |-> 0]
  <2>1. IsTotals(w, 0, t)
    BY DEF IsTotals
  <2>. QED
    BY <2>1
<1>2. ASSUME NEW m \in S, m + 1 <= n PROVE m + 1 \in S
  <2>1. PICK t : IsTotals(w, m, t)
    OBVIOUS
  <2>. DEFINE u == [i \in 0..m + 1 |-> IF i <= m THEN t[i] ELSE t[m] + w[m + 1]]
  <2>2. m \in Nat /\ w[m + 1] \in Nat /\ t[m] \in Nat
    BY <1>2, <2>1 DEF IsTotals
  <2>3. u \in [0..m + 1 -> Nat]
    BY <2>1, <2>2 DEF IsTotals
  <2>4. u[0] = 0
    BY <2>1, <2>2 DEF IsTotals
  <2>5. ASSUME NEW i \in 1..m + 1 PROVE u[i] = u[i - 1] + w[i]
    BY <2>1, <2>2 DEF IsTotals
  <2>6. IsTotals(w, m + 1, u)
    BY <2>3, <2>4, <2>5 DEF IsTotals
  <2>. QED
    BY <1>2, <2>2, <2>6
<1>3. 0 \in R /\ \A m \in Nat : m \in R => m + 1 \in R
  BY <1>1, <1>2
<1>. HIDE DEF R
<1>4. \A m \in Nat : m \in R
  BY <1>3, Successors
<1>. QED
  BY <1>4 DEF R

LEMMA TotalsAgree ==
  ASSUME NEW w, NEW n \in Nat, NEW t, IsTotals(w, n, t), NEW u, u[0] = 0,
         \A i \in 1..n : u[i] = u[i - 1] + w[i]
  PROVE  \A i \in 0..n : t[i] = u[i]
<1>. DEFINE R == {m \in Nat : m <= n => t[m] = u[m]}
<1>1. 0 \in R
  BY DEF IsTotals
<1>2. ASSUME NEW m \in Nat, m \in R PROVE m + 1 \in R
  BY <1>2 DEF IsTotals
<1>. HIDE DEF R
<1>3. \A m \in Nat : m \in R
  BY <1>1, <1>2, Successors
<1>. QED
  BY <1>3 DEF R

\* The sum of a sequence is the last of its running totals.
LEMMA TotalIs ==
  ASSUME NEW n \in Nat, NEW w, Len(w) = n, \A i \in 1..n : w[i] \in Nat,
         NEW t, IsTotals(w, n, t)
  PROVE Total(w) = t[n]
<1>. DEFINE f(u) == [i \in 0..n |-> IF i = 0 THEN 0 ELSE u[i - 1] + w[i]]
            e == CHOOSE u : u = [i \in 0..Len(w) |-> IF i = 0 THEN 0 ELSE u[i - 1] + w[i]]
<1>1. t = f(t)
  BY DEF IsTotals
<1>2. e = f(e)
  BY <1>1, Zenon DEF f, e
<1>3. Total(w) = e[Len(w)]
  BY Zenon DEF Total, e
<1>4. e[0] = 0 /\ \A i \in 1..n : e[i] = e[i - 1] + w[i]
  <2>. HIDE DEF e
  <2>1. \A i \in 0..n : f(e)[i] = IF i = 0 THEN 0 ELSE e[i - 1] + w[i]
    OBVIOUS
  <2>. HIDE DEF f
  <2>2. \A i \in 0..n : e[i] = IF i = 0 THEN 0 ELSE e[i - 1] + w[i]
    BY <1>2, <2>1
  <2>. QED
    BY <2>2
<1>. HIDE DEF e
<1>5. t[n] = e[n]
  BY <1>4, TotalsAgree
<1>. QED
  BY <1>3, <1>5

LEMMA TotalOf ==
  ASSUME NEW n \in Nat, NEW w \in [1..n -> Nat]
  PROVE  /\ \E t : IsTotals(w, n, t) /\ Total(w) = t[n]
         /\ Total(w) \in Nat
<1>1. PICK t : IsTotals(w, n, t)
  BY TotalsExist
<1>2. Len(w) = n
  BY SMT
<1>3. Total(w) = t[n]
  BY <1>1, <1>2, TotalIs
<1>. QED
  BY <1>1, <1>3 DEF IsTotals

\* The running totals of numbers do not decrease.
LEMMA TotalsGrow ==
  ASSUME NEW n \in Nat, NEW w \in [1..n -> Nat], NEW t, IsTotals(w, n, t)
  PROVE  \A i, j \in 0..n : i <= j => t[i] <= t[j]
<1>. SUFFICES ASSUME NEW i \in 0..n PROVE \A j \in 0..n : i <= j => t[i] <= t[j]
  OBVIOUS
<1>. DEFINE R == {m \in Nat : m <= n /\ i <= m => t[i] <= t[m]}
<1>1. 0 \in R
  BY DEF IsTotals
<1>2. ASSUME NEW m \in Nat, m \in R PROVE m + 1 \in R
  <2>. SUFFICES ASSUME m + 1 <= n, i <= m + 1 PROVE t[i] <= t[m + 1]
    OBVIOUS
  <2>1. /\ t[m + 1] = t[(m + 1) - 1] + w[m + 1] /\ w[m + 1] \in Nat
        /\ t[m] \in Nat /\ t[i] \in Nat /\ t[m + 1] \in Nat /\ (m + 1) - 1 = m
    BY DEF IsTotals
  <2>2. CASE i = m + 1
    BY <2>1, <2>2
  <2>3. CASE i <= m
    BY <1>2, <2>1, <2>3
  <2>. QED
    BY <2>2, <2>3
<1>. HIDE DEF R
<1>3. \A m \in Nat : m \in R
  BY <1>1, <1>2, Successors
<1>. QED
  BY <1>3 DEF R

LEMMA SumsOrdered ==
  \A a, b, c, x, y \in Nat : a <= b /\ b <= c /\ x <= y => a + x <= c + y
  OBVIOUS

LEMMA SumsMore ==
  \A a, b, x, y, d \in Nat : a <= b /\ x <= y + d => a + x <= (b + y) + d
  OBVIOUS

LEMMA SumsAfter ==
  \A a, b, x, y, d \in Nat : a <= b + d /\ x <= y => a + x <= (b + y) + d
  OBVIOUS

\* Some of the numbers, in their order and none of them greater, sum up to no more.
LEMMA TotalOfSome ==
  ASSUME NEW n \in Nat, NEW w \in [1..n -> Nat], NEW m \in Nat, NEW v \in [1..m -> Nat],
         NEW e \in [1..m -> 1..n], \A i, j \in 1..m : i < j => e[i] < e[j],
         \A i \in 1..m : v[i] <= w[e[i]]
  PROVE  Total(v) <= Total(w)
<1>1. PICK t : IsTotals(w, n, t) /\ Total(w) = t[n]
  BY TotalOf
<1>2. PICK u : IsTotals(v, m, u) /\ Total(v) = u[m]
  BY TotalOf
<1>3. \A i, j \in 0..n : i <= j => t[i] <= t[j]
  BY <1>1, TotalsGrow
<1>4. t \in [0..n -> Nat] /\ u \in [0..m -> Nat] /\ u[0] = 0
  BY <1>1, <1>2 DEF IsTotals
<1>. DEFINE place(i) == IF i = 0 THEN 0 ELSE e[i]
            R == {i \in Nat : i <= m => u[i] <= t[place(i)]}
<1>5. 0 \in R
  BY <1>4
<1>6. ASSUME NEW i \in Nat, i \in R PROVE i + 1 \in R
  <2>. SUFFICES ASSUME i + 1 <= m PROVE u[i + 1] <= t[place(i + 1)]
    OBVIOUS
  <2>0. PICK s \in 1..m : s = i + 1
    OBVIOUS
  <2>1. i \in 0..m /\ i = s - 1 /\ place(s) = e[s] /\ s \in Nat
    BY <2>0
  <2>2. u[s] = u[i] + v[s]
    BY <1>2, <2>1 DEF IsTotals
  <2>3. PICK p \in 1..n : p = e[s]
    OBVIOUS
  <2>4. t[p] = t[p - 1] + w[p]
    BY <1>1 DEF IsTotals
  <2>5. PICK q \in 0..n : q = place(i)
    BY <2>1
  <2>6. q <= p - 1
    <3>1. CASE i = 0
      BY <2>5, <3>1
    <3>2. CASE i # 0
      <4>1. i \in 1..m /\ i < s
        BY <2>1, <3>2
      <4>2. q = e[i]
        BY <2>5, <3>2
      <4>3. e[i] < e[s]
        BY <4>1
      <4>. QED
        BY <2>3, <4>2, <4>3
    <3>. QED
      BY <3>1, <3>2
  <2>7. u[i] <= t[q]
    BY <1>6, <2>1, <2>5
  <2>. HIDE DEF place
  <2>8. p - 1 \in 0..n
    OBVIOUS
  <2>9. t[q] <= t[p - 1]
    BY <1>3, <2>6, <2>8
  <2>10. v[s] <= w[p] /\ v[s] \in Nat /\ w[p] \in Nat
    BY <2>3
  <2>11. u[i] \in Nat /\ t[q] \in Nat /\ t[p - 1] \in Nat
    BY <1>4, <2>1, <2>8
  <2>12. u[i] + v[s] <= t[p - 1] + w[p]
    BY <2>7, <2>9, <2>10, <2>11, SumsOrdered
  <2>13. u[s] <= t[p]
    BY <2>2, <2>4, <2>12, Zenon
  <2>. QED
    BY <2>0, <2>1, <2>3, <2>13
<1>. HIDE DEF R
<1>7. m \in R
  BY <1>5, <1>6, Successors
<1>8. u[m] <= t[place(m)] /\ place(m) \in 0..n
  BY <1>7 DEF R
<1>. HIDE DEF place
<1>9. t[place(m)] <= t[n] /\ t[place(m)] \in Nat /\ t[n] \in Nat /\ u[m] \in Nat
  BY <1>3, <1>4, <1>8
<1>. QED
  BY <1>1, <1>2, <1>8, <1>9

\* One number grows by at most d, and no other one grows.
LEMMA TotalOfOneMore ==
  ASSUME NEW n \in Nat, NEW w \in [1..n -> Nat], NEW v \in [1..n -> Nat],
         NEW j \in 1..n, NEW d \in Nat,
         v[j] <= w[j] + d, \A i \in 1..n : i # j => v[i] <= w[i]
  PROVE  Total(v) <= Total(w) + d
<1>1. PICK t : IsTotals(w, n, t) /\ Total(w) = t[n]
  BY TotalOf
<1>2. PICK u : IsTotals(v, n, u) /\ Total(v) = u[n]
  BY TotalOf
<1>3. t \in [0..n -> Nat] /\ u \in [0..n -> Nat] /\ u[0] = 0 /\ t[0] = 0
  BY <1>1, <1>2 DEF IsTotals
<1>. DEFINE more(i) == IF i < j THEN 0 ELSE d
            R == {i \in Nat : i <= n => u[i] <= t[i] + more(i)}
<1>4. 0 \in R
  BY <1>3
<1>5. ASSUME NEW i \in Nat, i \in R PROVE i + 1 \in R
  <2>. SUFFICES ASSUME i + 1 <= n PROVE u[i + 1] <= t[i + 1] + more(i + 1)
    OBVIOUS
  <2>0. PICK s \in 1..n : s = i + 1
    OBVIOUS
  <2>1. i \in 0..n /\ i = s - 1 /\ s \in Nat
    BY <2>0
  <2>2. u[s] = u[i] + v[s] /\ t[s] = t[i] + w[s]
    BY <1>1, <1>2, <2>1 DEF IsTotals
  <2>3. u[i] <= t[i] + more(i)
    BY <1>5, <2>1
  <2>4. u[i] \in Nat /\ t[i] \in Nat /\ v[s] \in Nat /\ w[s] \in Nat
    BY <1>3, <2>1
  <2>5. CASE s = j
    <3>1. v[s] <= w[s] + d /\ more(i) = 0 /\ more(s) = d
      BY <2>1, <2>5
    <3>2. u[i] <= t[i]
      BY <2>3, <2>4, <3>1
    <3>3. u[i] + v[s] <= (t[i] + w[s]) + d
      BY <2>4, <3>1, <3>2, SumsMore, Zenon
    <3>. HIDE DEF more
    <3>4. u[s] <= t[s] + more(s)
      BY <2>2, <3>1, <3>3, Zenon
    <3>. QED
      BY <2>0, <3>4
  <2>6. CASE s # j
    <3>1. v[s] <= w[s] /\ more(i) = more(s) /\ more(s) \in Nat
      BY <2>1, <2>6
    <3>. HIDE DEF more
    <3>2. u[i] + v[s] <= (t[i] + w[s]) + more(s)
      <4>1. u[i] <= t[i] + more(s)
        BY <2>3, <3>1
      <4>. QED
        BY <2>4, <3>1, <4>1, SumsAfter, Zenon
    <3>3. u[s] <= t[s] + more(s)
      BY <2>2, <3>2, Zenon
    <3>. QED
      BY <2>0, <3>3
  <2>. QED
    BY <2>5, <2>6
<1>. HIDE DEF R
<1>6. n \in R
  BY <1>4, <1>5, Successors
<1>. QED
  BY <1>1, <1>2, <1>6 DEF R

-----------------------------------------------------------------------------
(* The size of an output.                                                  *)

LEMMA PacketSizes ==
  ASSUME NEW o \in Seq(Packet)
  PROVE  /\ [i \in DOMAIN o |-> o[i].size] \in [1..Len(o) -> Nat]
         /\ Len(o) \in Nat /\ DOMAIN o = 1..Len(o)
         /\ \A i \in 1..Len(o) : o[i].size \in 1..MaxResponse
<1>1. \A i \in DOMAIN o : o[i] \in Packet
  OBVIOUS
<1>2. \A p \in Packet : p.size \in 1..MaxResponse
  BY DEF Packet
<1>3. Len(o) \in Nat /\ DOMAIN o = 1..Len(o)
  OBVIOUS
<1>4. \A i \in 1..Len(o) : o[i].size \in 1..MaxResponse
  BY <1>1, <1>2, <1>3
<1>5. \A i \in 1..Len(o) : o[i].size \in Nat
  BY <1>4
<1>. QED
  BY <1>3, <1>4, <1>5

\* The running totals of the sizes of an output.
SizesUpTo(o, t) == /\ t \in [0..Len(o) -> Nat] /\ t[0] = 0
                   /\ \A i \in 1..Len(o) : t[i] = t[i - 1] + o[i].size

LEMMA SizeIs ==
  ASSUME NEW o \in Seq(Packet), NEW t, SizesUpTo(o, t)
  PROVE  SizeOf(o) = t[Len(o)]
<1>. DEFINE w == [i \in DOMAIN o |-> o[i].size]
<1>1. PICK n \in Nat : n = Len(o)
  BY PacketSizes
<1>2. w \in [1..n -> Nat] /\ \A i \in 1..n : w[i] = o[i].size
  BY <1>1, PacketSizes
<1>3. SizeOf(o) = Total(w)
  BY DEF SizeOf
<1>. HIDE DEF w
<1>4. IsTotals(w, n, t)
  BY <1>1, <1>2 DEF SizesUpTo, IsTotals
<1>5. Len(w) = n /\ \A i \in 1..n : w[i] \in Nat
  BY <1>2, SMT
<1>6. Total(w) = t[n]
  BY <1>4, <1>5, TotalIs
<1>. QED
  BY <1>1, <1>3, <1>6

LEMMA SizesExist ==
  ASSUME NEW o \in Seq(Packet)
  PROVE  \E t : SizesUpTo(o, t) /\ SizeOf(o) = t[Len(o)]
<1>. DEFINE w == [i \in DOMAIN o |-> o[i].size]
<1>1. PICK n \in Nat : n = Len(o)
  BY PacketSizes
<1>2. w \in [1..n -> Nat] /\ \A i \in 1..n : w[i] = o[i].size
  BY <1>1, PacketSizes
<1>. HIDE DEF w
<1>3. PICK t : IsTotals(w, n, t)
  BY <1>2, TotalOf
<1>4. SizesUpTo(o, t)
  BY <1>1, <1>2, <1>3 DEF SizesUpTo, IsTotals
<1>. QED
  BY <1>4, SizeIs

LEMMA SizeOfNothing == SizeOf(<< >>) = 0
<1>. DEFINE t == [i \in 0..0 |-> 0]
<1>1. << >> \in Seq(Packet) /\ Len(<< >>) = 0
  OBVIOUS
<1>2. SizesUpTo(<< >>, t)
  BY <1>1 DEF SizesUpTo
<1>3. t[0] = 0
  OBVIOUS
<1>. HIDE DEF t
<1>. QED
  BY <1>1, <1>2, <1>3, SizeIs

LEMMA SizeOfAppend ==
  ASSUME NEW o \in Seq(Packet), NEW p \in Packet
  PROVE  SizeOf(Append(o, p)) = SizeOf(o) + p.size
<1>1. PICK n \in Nat : n = Len(o)
  BY PacketSizes
<1>2. PICK r \in Seq(Packet) : r = Append(o, p)
  BY AppendAt
<1>3. Len(r) = n + 1 /\ (\A i \in 1..n : r[i] = o[i]) /\ r[n + 1] = p
  BY <1>1, <1>2
<1>4. PICK t : SizesUpTo(o, t) /\ SizeOf(o) = t[n]
  BY <1>1, SizesExist
<1>5. t \in [0..n -> Nat] /\ t[0] = 0 /\ \A i \in 1..n : t[i] = t[i - 1] + o[i].size
  BY <1>1, <1>4 DEF SizesUpTo
<1>6. PICK b \in Nat : b = t[n] + p.size
  <2>1. p.size \in Nat /\ t[n] \in Nat
    BY <1>5 DEF Packet
  <2>. QED
    BY <2>1
<1>. DEFINE u == [i \in 0..n + 1 |-> IF i <= n THEN t[i] ELSE b]
<1>7. u \in [0..n + 1 -> Nat] /\ u[0] = 0 /\ u[n + 1] = b /\ \A i \in 0..n : u[i] = t[i]
  BY <1>5
<1>. HIDE DEF u
<1>8. ASSUME NEW i \in 1..n + 1 PROVE u[i] = u[i - 1] + r[i].size
  <2>1. CASE i \in 1..n
    <3>1. i \in 0..n /\ i - 1 \in 0..n
      BY <2>1
    <3>2. t[i] = t[i - 1] + o[i].size /\ r[i] = o[i] /\ u[i] = t[i] /\ u[i - 1] = t[i - 1]
      BY <1>3, <1>5, <1>7, <2>1, <3>1
    <3>. QED
      BY <3>2
  <2>2. CASE i = n + 1
    <3>1. n \in 0..n /\ i - 1 = n
      BY <2>2
    <3>2. u[i] = b /\ u[i - 1] = t[n] /\ r[i] = p
      BY <1>3, <1>7, <2>2, <3>1
    <3>. QED
      BY <1>6, <3>2
  <2>. QED
    BY <2>1, <2>2
<1>9. SizesUpTo(r, u)
  BY <1>3, <1>7, <1>8 DEF SizesUpTo
<1>10. SizeOf(r) = u[n + 1]
  BY <1>3, <1>9, SizeIs
<1>. QED
  BY <1>2, <1>4, <1>6, <1>7, <1>10

LEMMA SizeOfTail ==
  ASSUME NEW o \in Seq(Packet), o # << >>
  PROVE  /\ SizeOf(Tail(o)) = SizeOf(o) - Head(o).size
         /\ SizeOf(o) \in Nat /\ SizeOf(Tail(o)) \in Nat
<1>1. PICK n \in Nat : n + 1 = Len(o)
  <2>1. Len(o) \in Nat /\ Len(o) # 0
    BY PacketSizes
  <2>. QED
    BY <2>1
<1>2. PICK r \in Seq(Packet) : r = Tail(o)
  BY TailAt
<1>3. Len(r) = n /\ (\A i \in 1..n : r[i] = o[i + 1]) /\ Head(o) = o[1]
  BY <1>1, <1>2
<1>4. PICK t : SizesUpTo(o, t) /\ SizeOf(o) = t[n + 1]
  BY <1>1, SizesExist
<1>5. t \in [0..n + 1 -> Nat] /\ t[0] = 0 /\ \A i \in 1..n + 1 : t[i] = t[i - 1] + o[i].size
  BY <1>1, <1>4 DEF SizesUpTo
<1>6. PICK a \in Nat : a = o[1].size /\ t[1] = a
  <2>1. o[1].size \in Nat
    BY <1>1, PacketSizes
  <2>2. 1 \in 1..n + 1 /\ 1 - 1 = 0
    OBVIOUS
  <2>3. t[1] = t[1 - 1] + o[1].size
    BY <1>5, <2>2
  <2>. QED
    BY <1>5, <2>1, <2>2, <2>3
<1>. DEFINE u == [i \in 0..n |-> t[i + 1] - a]
            R == {m \in Nat : m <= n => t[m + 1] - a \in Nat}
<1>7. 0 \in R
  BY <1>6
<1>8. ASSUME NEW m \in Nat, m \in R PROVE m + 1 \in R
  <2>. SUFFICES ASSUME m + 1 <= n PROVE t[(m + 1) + 1] - a \in Nat
    OBVIOUS
  <2>1. PICK s \in 1..n : s = m + 1
    OBVIOUS
  <2>2. PICK q \in 1..n + 1 : q = s + 1
    OBVIOUS
  <2>3. t[s] - a \in Nat
    BY <1>8, <2>1
  <2>4. q - 1 = s
    BY <2>2
  <2>5. t[q] = t[s] + o[q].size
    BY <1>5, <2>4
  <2>6. o[q].size \in Nat /\ t[s] \in Nat
    <3>1. q \in 1..Len(o) /\ s \in 0..n + 1
      BY <1>1
    <3>2. o[q].size \in 1..MaxResponse
      BY <3>1, PacketSizes
    <3>. QED
      BY <1>5, <3>1, <3>2, SupervisorAssumption
  <2>7. t[q] - a \in Nat
    BY <2>3, <2>5, <2>6
  <2>. QED
    BY <2>1, <2>2, <2>7
<1>. HIDE DEF R
<1>9. \A m \in Nat : m \in R
  BY <1>7, <1>8, Successors
<1>10. \A i \in 0..n : t[i + 1] - a \in Nat
  BY <1>9 DEF R
<1>11. u \in [0..n -> Nat] /\ u[0] = 0 /\ \A i \in 0..n : u[i] = t[i + 1] - a
  <2>1. u \in [0..n -> Nat]
    BY <1>10
  <2>2. u[0] = t[0 + 1] - a /\ 0 + 1 = 1 /\ t[1] = a
    BY <1>6
  <2>. QED
    BY <2>1, <2>2
<1>. HIDE DEF u
<1>12. ASSUME NEW i \in 1..n PROVE u[i] = u[i - 1] + r[i].size
  <2>1. PICK q \in 1..n + 1 : q = i + 1
    OBVIOUS
  <2>2. q - 1 = i /\ i - 1 \in 0..n /\ (i - 1) + 1 = i /\ i \in 0..n /\ i \in 0..n + 1
    BY <2>1
  <2>3. t[q] = t[i] + o[q].size /\ r[i] = o[q]
    BY <1>3, <1>5, <2>1, <2>2
  <2>4. u[i] = t[q] - a /\ u[i - 1] = t[i] - a
    BY <1>11, <2>1, <2>2
  <2>5. o[q].size \in Nat /\ t[i] \in Nat
    BY <1>1, <1>5, <2>2, PacketSizes
  <2>6. (t[i] + o[q].size) - a = (t[i] - a) + o[q].size
    BY <2>5
  <2>. QED
    BY <2>3, <2>4, <2>6
<1>13. SizesUpTo(r, u)
  BY <1>3, <1>11, <1>12 DEF SizesUpTo
<1>14. SizeOf(r) = u[n]
  BY <1>3, <1>13, SizeIs
<1>15. u[n] = t[n + 1] - a /\ u[n] \in Nat /\ t[n + 1] \in Nat
  BY <1>5, <1>11
<1>. QED
  BY <1>2, <1>3, <1>4, <1>6, <1>14, <1>15

\* Packets of size one at the end of an output.
LEMMA SizeOfAnswers ==
  ASSUME NEW o \in Seq(Packet), NEW s \in Seq(Packet), \A i \in 1..Len(s) : s[i].size = 1
  PROVE  SizeOf(o \o s) = SizeOf(o) + Len(s)
<1>1. PICK n \in Nat : n = Len(o)
  BY PacketSizes
<1>2. PICK m \in Nat : m = Len(s)
  BY PacketSizes
<1>3. PICK r \in Seq(Packet) : r = o \o s
  BY ConcatAt
<1>4. Len(r) = n + m /\ (\A i \in 1..n : r[i] = o[i]) /\ \A i \in n + 1..n + m : r[i] = s[i - n]
  BY <1>1, <1>2, <1>3, ConcatAt
<1>5. PICK t : SizesUpTo(o, t) /\ SizeOf(o) = t[n]
  BY <1>1, SizesExist
<1>6. t \in [0..n -> Nat] /\ t[0] = 0 /\ \A i \in 1..n : t[i] = t[i - 1] + o[i].size
  BY <1>1, <1>5 DEF SizesUpTo
<1>7. PICK b \in Nat : b = t[n]
  BY <1>6
<1>. DEFINE u == [i \in 0..n + m |-> IF i <= n THEN t[i] ELSE b + (i - n)]
<1>8. /\ u \in [0..n + m -> Nat] /\ u[0] = 0 /\ \A i \in 0..n : u[i] = t[i]
      /\ \A i \in n..n + m : u[i] = b + (i - n)
  BY <1>6, <1>7
<1>. HIDE DEF u
<1>9. ASSUME NEW i \in 1..n + m PROVE u[i] = u[i - 1] + r[i].size
  <2>1. CASE i \in 1..n
    <3>1. i \in 0..n /\ i - 1 \in 0..n
      BY <2>1
    <3>2. t[i] = t[i - 1] + o[i].size /\ r[i] = o[i] /\ u[i] = t[i] /\ u[i - 1] = t[i - 1]
      BY <1>4, <1>6, <1>8, <2>1, <3>1
    <3>. QED
      BY <3>2
  <2>2. CASE i \in n + 1..n + m
    <3>1. i - 1 \in n..n + m /\ i \in n..n + m /\ i - n \in 1..m
      BY <2>2
    <3>2. u[i] = b + (i - n) /\ u[i - 1] = b + ((i - 1) - n) /\ r[i].size = 1
      BY <1>2, <1>4, <1>8, <2>2, <3>1
    <3>3. b + (i - n) = (b + ((i - 1) - n)) + 1
      OBVIOUS
    <3>. QED
      BY <3>2, <3>3
  <2>. QED
    BY <2>1, <2>2
<1>10. SizesUpTo(r, u)
  BY <1>4, <1>8, <1>9 DEF SizesUpTo
<1>11. SizeOf(r) = u[n + m]
  BY <1>4, <1>10, SizeIs
<1>12. n + m \in n..n + m /\ (n + m) - n = m
  OBVIOUS
<1>. QED
  BY <1>2, <1>3, <1>5, <1>7, <1>8, <1>11, <1>12

-----------------------------------------------------------------------------
(* A client, and the ids R that are outstanding but have no place with it: *)
(* that of its search that runs, or one whose answer is being made.        *)

Good(k, R) ==
  /\ k \in ClientType
  /\ QueuedOnce(k.pending) /\ AnsweredOnce(k.output)
  /\ R \subseteq k.outstanding /\ Queued(k.pending) \subseteq k.outstanding \ R
  /\ Answered(k.output) \subseteq k.outstanding \ (R \cup Queued(k.pending))
  /\ ~k.dead => k.outstanding \subseteq R \cup Queued(k.pending) \cup Answered(k.output)

USE SupervisorAssumption

LEMMA QueuedIds == \A q \in Seq(Job) : Queued(q) \subseteq Ids
<1>. SUFFICES ASSUME NEW q \in Seq(Job), NEW i \in DOMAIN q PROVE q[i].id \in Ids
  BY DEF Queued
<1>1. q[i] \in Job
  OBVIOUS
<1>. QED
  BY <1>1 DEF Job

LEMMA NoneIsNoId == None \notin Ids
  OBVIOUS

LEMMA ControlPacket == \A id \in Ids \cup {None} : Control(id) \in Packet /\ Control(id).release = id
  BY DEF Control, Packet

LEMMA FreshGood == Fresh \in ClientType /\ Good(Fresh, {})
<1>1. Fresh \in ClientType
  BY DEF Fresh, ClientType
<1>. QED
  BY <1>1 DEF Good, Fresh, Queued, Answered, QueuedOnce, AnsweredOnce

\* What the properties do not speak of may change.
LEMMA SameGood ==
  ASSUME NEW k, NEW l \in ClientType, NEW R, Good(k, R),
         l.pending = k.pending, l.output = k.output, l.outstanding = k.outstanding,
         k.dead => l.dead
  PROVE  Good(l, R)
<1>. HIDE DEF ClientType
<1>. QED
  BY DEF Good

LEMMA EnqueueGood ==
  ASSUME NEW k, NEW R \in SUBSET Ids, Good(k, R), NEW p \in Packet, p.release \in R \cup {None}
  PROVE  /\ Good(Enqueue(k, p), R \ {p.release})
         /\ Enqueue(k, p).input = k.input /\ Enqueue(k, p).pending = k.pending
         /\ Enqueue(k, p).eof = k.eof /\ (k.dead => Enqueue(k, p).dead)
<1>0. k \in ClientType
  BY DEF Good
<1>1. CASE k.output_bytes + p.size > MaxResponse
  <2>. DEFINE l == [k EXCEPT !.dead = TRUE]
  <2>1. Enqueue(k, p) = l
    BY <1>1 DEF Enqueue
  <2>2. l \in ClientType /\ l.dead /\ l.input = k.input /\ l.pending = k.pending /\ l.eof = k.eof
        /\ l.output = k.output /\ l.outstanding = k.outstanding
    BY <1>0 DEF ClientType
  <2>. HIDE DEF l, ClientType
  <2>3. Good(l, R \ {p.release})
    BY <2>2 DEF Good
  <2>. QED
    BY <2>1, <2>2, <2>3
<1>2. CASE ~(k.output_bytes + p.size > MaxResponse)
  <2>. DEFINE l == [k EXCEPT !.output = Append(@, p), !.output_bytes = @ + p.size]
  <2>1. Enqueue(k, p) = l
    BY <1>2 DEF Enqueue
  <2>2. l.input = k.input /\ l.pending = k.pending /\ l.eof = k.eof /\ l.dead = k.dead
        /\ l.output = Append(k.output, p) /\ l.outstanding = k.outstanding
    BY <1>0 DEF ClientType
  <2>3. l \in ClientType
    <3>1. Append(k.output, p) \in Seq(Packet) /\ k.output_bytes + p.size \in Int
      BY <1>0 DEF ClientType, Packet
    <3>. HIDE DEF Packet
    <3>. QED
      BY <1>0, <3>1 DEF ClientType
  <2>4. k.output \in Seq(Packet)
    BY <1>0 DEF ClientType
  <2>5. p.release \notin Answered(k.output)
    BY NoneIsNoId DEF Good, Answered
  <2>6. /\ AnsweredOnce(l.output)
        /\ Answered(l.output) = Answered(k.output) \cup ({p.release} \ {None})
    BY <2>2, <2>4, <2>5, OutputAppend DEF Good
  <2>. HIDE DEF l, ClientType
  <2>7. Queued(k.pending) \subseteq Ids
    BY <1>0, QueuedIds DEF ClientType
  <2>8. Good(l, R \ {p.release})
    BY <2>2, <2>3, <2>6, <2>7, NoneIsNoId DEF Good
  <2>. QED
    BY <2>1, <2>2, <2>8
<1>. QED
  BY <1>1, <1>2

LEMMA FrameErrorGood ==
  ASSUME NEW k, NEW R \in SUBSET Ids, Good(k, R)
  PROVE  Good(FrameError(k), R) /\ FrameError(k).input = << >>
<1>0. k \in ClientType
  BY DEF Good
<1>. DEFINE a == [k EXCEPT !.framing = TRUE]
            b == FailId(a, None)
            c == [b EXCEPT !.eof = TRUE, !.input = << >>]
<1>1. a \in ClientType /\ a.pending = k.pending /\ a.output = k.output
      /\ a.outstanding = k.outstanding /\ a.dead = k.dead
  BY <1>0 DEF ClientType
<1>. HIDE DEF a
<1>2. Good(a, R)
  BY <1>1, SameGood
<1>3. Good(b, R)
  <2>1. Control(None) \in Packet /\ Control(None).release = None
    BY ControlPacket
  <2>2. Good(Enqueue(a, Control(None)), R \ {None})
    BY <1>2, <2>1, EnqueueGood
  <2>3. R \ {None} = R
    BY NoneIsNoId
  <2>. QED
    BY <2>2, <2>3 DEF FailId
<1>4. b \in ClientType
  BY <1>3 DEF Good
<1>. HIDE DEF b
<1>5. c \in ClientType /\ c.pending = b.pending /\ c.output = b.output
      /\ c.outstanding = b.outstanding /\ c.dead = b.dead /\ c.input = << >>
  <2>1. << >> \in Seq(Frame)
    OBVIOUS
  <2>. QED
    BY <1>4, <2>1 DEF ClientType
<1>. HIDE DEF c
<1>6. Good(c, R)
  BY <1>3, <1>5, SameGood
<1>7. FrameError(k) = c
  BY DEF FrameError, a, b, c
<1>. QED
  BY <1>5, <1>6, <1>7

LEMMA FlushedGood ==
  ASSUME NEW k, NEW R \in SUBSET Ids, Good(k, R), k.output # << >>
  PROVE  Good(Flushed(k), R) /\ Flushed(k).input = k.input
<1>0. k \in ClientType /\ k.output \in Seq(Packet)
  BY DEF Good, ClientType
<1>. DEFINE h == Head(k.output)
            l == [k EXCEPT !.output = Tail(@), !.output_bytes = @ - h.size,
                           !.outstanding = @ \ {h.release}]
<1>1. h \in Packet /\ h.size \in Int /\ Tail(k.output) \in Seq(Packet)
  <2>1. h \in Packet /\ Tail(k.output) \in Seq(Packet)
    BY <1>0, TailAt
  <2>. QED
    BY <2>1 DEF Packet
<1>2. Flushed(k) = l
  BY DEF Flushed
<1>3. AnsweredOnce(Tail(k.output)) /\ Answered(Tail(k.output)) = Answered(k.output) \ {h.release}
  BY <1>0, OutputTail DEF Good
<1>4. h.release # None => h.release \in Answered(k.output)
  BY <1>0, TailAt DEF Answered
<1>. HIDE DEF h
<1>5. /\ l.input = k.input /\ l.pending = k.pending /\ l.dead = k.dead
      /\ l.output = Tail(k.output) /\ l.outstanding = k.outstanding \ {h.release}
  BY <1>0 DEF ClientType
<1>6. l \in ClientType
  <2>1. k.output_bytes - h.size \in Int /\ k.outstanding \ {h.release} \in SUBSET Ids
    BY <1>0, <1>1 DEF ClientType
  <2>. QED
    BY <1>0, <1>1, <2>1 DEF ClientType
<1>7. Queued(k.pending) \subseteq Ids
  BY <1>0, QueuedIds DEF ClientType
<1>. HIDE DEF l, ClientType
<1>8. Good(l, R)
  BY <1>3, <1>4, <1>5, <1>6, <1>7, NoneIsNoId DEF Good
<1>. QED
  BY <1>2, <1>5, <1>8

\* A frame is taken out of the buffer, and its id is outstanding from now on.
LEMMA TakenGood ==
  ASSUME NEW k, NEW R \in SUBSET Ids, Good(k, R), k.input # << >>,
         NEW id \in Ids, id \notin k.outstanding
  PROVE  LET l == [k EXCEPT !.input = Tail(@), !.outstanding = @ \cup {id}] IN
         Good(l, R \cup {id}) /\ l.pending = k.pending /\ l.input = Tail(k.input) /\ l.dead = k.dead
<1>0. k \in ClientType
  BY DEF Good
<1>. DEFINE l == [k EXCEPT !.input = Tail(@), !.outstanding = @ \cup {id}]
<1>1. /\ l.input = Tail(k.input) /\ l.pending = k.pending /\ l.dead = k.dead
      /\ l.output = k.output /\ l.outstanding = k.outstanding \cup {id}
  BY <1>0 DEF ClientType
<1>2. l \in ClientType
  <2>1. Tail(k.input) \in Seq(Frame)
    <3>1. k.input \in Seq(Frame)
      BY <1>0 DEF ClientType
    <3>. QED
      BY <3>1, TailAt
  <2>2. k.outstanding \cup {id} \in SUBSET Ids
    BY <1>0 DEF ClientType
  <2>. QED
    BY <1>0, <2>1, <2>2 DEF ClientType
<1>. HIDE DEF l, ClientType
<1>3. Good(l, R \cup {id})
  BY <1>1, <1>2 DEF Good
<1>. QED
  BY <1>1, <1>3 DEF l

LEMMA QueuedGood ==
  ASSUME NEW k, NEW R \in SUBSET Ids, Good(k, R), NEW id \in R, NEW op \in Kinds
  PROVE  LET l == [k EXCEPT !.pending = Append(@, [id |-> id, op |-> op])] IN Good(l, R \ {id})
<1>0. k \in ClientType /\ k.pending \in Seq(Job)
  BY DEF Good, ClientType
<1>. DEFINE j == [id |-> id, op |-> op]
            l == [k EXCEPT !.pending = Append(@, j)]
<1>1. j \in Job /\ j.id = id
  BY DEF Job
<1>. HIDE DEF j
<1>2. Append(k.pending, j) \in Seq(Job)
  BY <1>0, <1>1, AppendAt
<1>3. /\ l.pending = Append(k.pending, j) /\ l.dead = k.dead
      /\ l.output = k.output /\ l.outstanding = k.outstanding
  BY <1>0 DEF ClientType
<1>4. l \in ClientType
  BY <1>0, <1>2 DEF ClientType
<1>5. QueuedOnce(l.pending) /\ Queued(l.pending) = Queued(k.pending) \cup {id}
  <2>1. id \notin Queued(k.pending)
    BY DEF Good
  <2>. QED
    BY <1>0, <1>1, <1>3, <2>1, QueueAppend DEF Good
<1>. HIDE DEF l, ClientType
<1>6. Good(l, R \ {id})
  BY <1>3, <1>4, <1>5 DEF Good
<1>. QED
  BY <1>6 DEF l, j

\* A search at place n leaves the queue.
LEMMA LeavesGood ==
  ASSUME NEW k, NEW R \in SUBSET Ids, Good(k, R), NEW q \in Seq(Job),
         NEW id \in Queued(k.pending),
         QueuedOnce(q), Queued(q) = Queued(k.pending) \ {id}
  PROVE  LET l == [k EXCEPT !.pending = q] IN
         Good(l, R \cup {id}) /\ l.input = k.input /\ l.outstanding = k.outstanding
<1>0. k \in ClientType
  BY DEF Good
<1>. DEFINE l == [k EXCEPT !.pending = q]
<1>1. /\ l.pending = q /\ l.dead = k.dead /\ l.input = k.input
      /\ l.output = k.output /\ l.outstanding = k.outstanding
  BY <1>0 DEF ClientType
<1>2. l \in ClientType
  BY <1>0 DEF ClientType
<1>. HIDE DEF l, ClientType
<1>3. Good(l, R \cup {id})
  BY <1>1, <1>2 DEF Good
<1>. QED
  BY <1>1, <1>3 DEF l

LEMMA UnqueueGood ==
  ASSUME NEW k, NEW R \in SUBSET Ids, Good(k, R), NEW target \in Queued(k.pending)
  PROVE  Good(Unqueue(k, target), R \cup {target})
<1>. DEFINE q == k.pending
            I == {i \in 1..Len(q) : q[i].id = target}
<1>0. q \in Seq(Job) /\ DOMAIN q = 1..Len(q) /\ Len(q) \in Nat
  BY DEF Good, ClientType
<1>1. PICK n \in 1..Len(q) : q[n].id = target
  BY <1>0 DEF Queued
<1>2. I = {n}
  BY <1>0, <1>1 DEF Good, QueuedOnce
<1>3. Min(I) = n
  BY <1>2 DEF Min
<1>4. RemoveFirstMatch(q, LAMBDA f : f.id = target) = RemoveAt(q, n)
  BY <1>1, <1>2, <1>3 DEF RemoveFirstMatch, SelectInSeq
<1>5. /\ RemoveAt(q, n) \in Seq(Job) /\ QueuedOnce(RemoveAt(q, n))
      /\ Queued(RemoveAt(q, n)) = Queued(q) \ {target}
  BY <1>0, <1>1, QueueRemove DEF Good
<1>6. Unqueue(k, target) = [k EXCEPT !.pending = RemoveAt(q, n)]
  BY <1>4 DEF Unqueue
<1>7. Good([k EXCEPT !.pending = RemoveAt(q, n)], R \cup {target})
  BY <1>5, LeavesGood
<1>. QED
  BY <1>6, <1>7

\* The next search of the client is taken from its queue.
LEMMA NextSearchGood ==
  ASSUME NEW k, NEW R \in SUBSET Ids, Good(k, R), k.pending # << >>
  PROVE  LET l == [k EXCEPT !.pending = Tail(@)] IN
         /\ Head(k.pending) \in Job /\ Head(k.pending).id \in Ids \ R
         /\ Good(l, R \cup {Head(k.pending).id})
<1>. DEFINE q == k.pending
<1>0. q \in Seq(Job) /\ Head(q) \in Job /\ Tail(q) \in Seq(Job)
  <2>1. q \in Seq(Job)
    BY DEF Good, ClientType
  <2>. QED
    BY <2>1, TailAt
<1>1. QueuedOnce(Tail(q)) /\ Queued(Tail(q)) = Queued(q) \ {Head(q).id} /\ Head(q).id \in Queued(q)
  BY <1>0, QueueTail DEF Good
<1>2. Good([k EXCEPT !.pending = Tail(q)], R \cup {Head(q).id})
  BY <1>0, <1>1, LeavesGood
<1>3. Head(q).id \in Ids \ R
  BY <1>0, <1>1, QueuedIds DEF Good
<1>. QED
  BY <1>0, <1>2, <1>3

-----------------------------------------------------------------------------
(* What a client may send, and what is read of it.                         *)

LEMMA BurstsAreFrames == \A b \in Bursts : b \in Seq(Frame)
BY BurstsAssumption

LEMMA ReceivedGood ==
  ASSUME NEW k, NEW R \in SUBSET Ids, Good(k, R), NEW l \in Received(k)
  PROVE  Good(l, R)
<1>0. k \in ClientType
  BY DEF Good
<1>. DEFINE open == [k EXCEPT !.blocked = @ /\ Len(k.pending) >= QueuePerClient]
<1>1. /\ open \in ClientType /\ open.pending = k.pending /\ open.output = k.output
      /\ open.outstanding = k.outstanding /\ open.dead = k.dead /\ open.eof = k.eof
  BY <1>0 DEF ClientType
<1>2. Good(open, R)
  BY <1>1, SameGood
<1>. HIDE DEF open
<1>3. Good([open EXCEPT !.dead = TRUE], R)
  <2>. DEFINE m == [open EXCEPT !.dead = TRUE]
  <2>1. m \in ClientType /\ m.pending = open.pending /\ m.output = open.output
        /\ m.outstanding = open.outstanding /\ m.dead
    BY <1>1 DEF ClientType
  <2>. HIDE DEF m
  <2>2. Good(m, R)
    BY <1>2, <2>1, SameGood
  <2>. QED
    BY <2>1, <2>2 DEF m
<1>4. Good([open EXCEPT !.eof = TRUE], R)
  <2>. DEFINE m == [open EXCEPT !.eof = TRUE]
  <2>1. m \in ClientType /\ m.pending = open.pending /\ m.output = open.output
        /\ m.outstanding = open.outstanding /\ m.dead = open.dead /\ m.eof
    BY <1>1 DEF ClientType
  <2>. HIDE DEF m
  <2>2. Good(m, R)
    BY <1>2, <2>1, SameGood
  <2>. QED
    BY <2>1, <2>2 DEF m
<1>5. ASSUME NEW b \in Bursts
      PROVE  Good([open EXCEPT !.input = b], R)
  <2>. DEFINE m == [open EXCEPT !.input = b]
  <2>0. b \in Seq(Frame)
    BY BurstsAreFrames
  <2>1. m \in ClientType /\ m.pending = open.pending /\ m.output = open.output
        /\ m.outstanding = open.outstanding /\ m.dead = open.dead
    BY <1>1, <2>0 DEF ClientType
  <2>. HIDE DEF m
  <2>2. Good(m, R)
    BY <1>2, <2>1, SameGood
  <2>. QED
    BY <2>1, <2>2 DEF m
<1>6. Good(FrameError(open), R)
  BY <1>2, FrameErrorGood
<1>7. \/ l \in {open, [open EXCEPT !.dead = TRUE], [open EXCEPT !.eof = TRUE], FrameError(open)}
      \/ \E b \in Bursts : l = [open EXCEPT !.input = b]
  BY DEF Received, open
<1>. QED
  BY <1>2, <1>3, <1>4, <1>5, <1>6, <1>7

-----------------------------------------------------------------------------
(* A stop: every search of the client is answered, or the client is dead.  *)

LEMMA CutAt ==
  ASSUME NEW S, NEW s \in Seq(S), NEW n \in Int, n < Len(s)
  PROVE  /\ SubSeq(s, 1, n) \in Seq(S) /\ Len(SubSeq(s, 1, n)) <= Len(s)
         /\ \A i \in DOMAIN SubSeq(s, 1, n) : i \in 1..Len(s) /\ SubSeq(s, 1, n)[i] = s[i]
  OBVIOUS

LEMMA FailAllGood ==
  ASSUME NEW k, NEW R \in SUBSET Ids, Good(k, R), NEW ids \in Seq(Ids),
         \A i, j \in 1..Len(ids) : ids[i] = ids[j] => i = j,
         {ids[i] : i \in 1..Len(ids)} = R \cup Queued(k.pending)
  PROVE  Good([FailAll(k, ids) EXCEPT !.pending = << >>, !.eof = TRUE, !.input = << >>], {})
<1>0. k \in ClientType /\ k.output \in Seq(Packet) /\ k.output_bytes \in Int
  BY DEF Good, ClientType
<1>. DEFINE answers == [i \in DOMAIN ids |-> Control(ids[i])]
            room == MaxResponse - k.output_bytes
            l == [FailAll(k, ids) EXCEPT !.pending = << >>, !.eof = TRUE, !.input = << >>]
<1>1. DOMAIN ids = 1..Len(ids) /\ Len(ids) \in Nat /\ room \in Int
  BY <1>0
<1>2. \A i \in 1..Len(ids) : /\ ids[i] \in Ids /\ ids[i] # None /\ answers[i] \in Packet
                             /\ answers[i].release = ids[i]
  BY <1>1, ControlPacket, NoneIsNoId
<1>3. answers \in Seq(Packet) /\ Len(answers) = Len(ids)
  <2>1. answers \in [1..Len(ids) -> Packet]
    BY <1>1, <1>2
  <2>. QED
    BY <1>1, <2>1
<1>. HIDE DEF answers
\* What is appended to the output: all of the answers, or the first of them.
<1>4. ASSUME NEW t \in Seq(Packet), Len(t) <= Len(ids),
             \A i \in DOMAIN t : i \in 1..Len(ids) /\ t[i] = answers[i]
      PROVE  /\ AnsweredOnce(k.output \o t)
             /\ Answered(k.output) \subseteq Answered(k.output \o t)
             /\ Answered(k.output \o t) \subseteq k.outstanding
             /\ Len(t) = Len(ids) => R \cup Queued(k.pending) \subseteq Answered(k.output \o t)
  <2>1. AnsweredOnce(t)
    BY <1>2, <1>4 DEF AnsweredOnce
  <2>2. Answered(t) \subseteq R \cup Queued(k.pending)
    BY <1>2, <1>4 DEF Answered
  <2>3. Len(t) = Len(ids) => R \cup Queued(k.pending) \subseteq Answered(t)
    <3>. SUFFICES ASSUME Len(t) = Len(ids), NEW id \in R \cup Queued(k.pending)
                  PROVE  id \in Answered(t)
      OBVIOUS
    <3>1. PICK i \in 1..Len(ids) : id = ids[i]
      OBVIOUS
    <3>2. i \in DOMAIN t /\ t[i].release = id /\ t[i].release # None
      BY <1>2, <1>4, <3>1
    <3>. QED
      BY <3>2 DEF Answered
  <2>4. Answered(k.output) \cap Answered(t) = {}
    BY <2>2 DEF Good
  <2>5. AnsweredOnce(k.output \o t) /\ Answered(k.output \o t) = Answered(k.output) \cup Answered(t)
    BY <1>0, <2>1, <2>4, OutputConcat DEF Good
  <2>. QED
    BY <2>2, <2>3, <2>5 DEF Good
<1>5. Queued(<< >>) = {} /\ QueuedOnce(<< >>)
  BY DEF Queued, QueuedOnce
<1>6. << >> \in Seq(Frame) /\ << >> \in Seq(Job)
  OBVIOUS
<1>7. CASE Len(ids) > room
  <2>. DEFINE t == SubSeq(answers, 1, room)
  <2>1. t \in Seq(Packet) /\ Len(t) <= Len(ids) /\ \A i \in DOMAIN t : i \in 1..Len(ids) /\ t[i] = answers[i]
    BY <1>1, <1>3, <1>7, CutAt
  <2>. HIDE DEF t
  <2>2. k.output \o t \in Seq(Packet)
    BY <1>0, <2>1, ConcatAt
  <2>3. FailAll(k, ids) = [k EXCEPT !.dead = TRUE, !.output = @ \o t, !.output_bytes = MaxResponse]
    BY <1>7 DEF FailAll, t, answers
  <2>4. /\ l \in ClientType /\ l.pending = << >> /\ l.output = k.output \o t
        /\ l.outstanding = k.outstanding /\ l.dead
    <3>. DEFINE m == [k EXCEPT !.dead = TRUE, !.output = @ \o t, !.output_bytes = MaxResponse]
    <3>1. MaxResponse \in Int
      OBVIOUS
    <3>2. m \in ClientType /\ m.output = k.output \o t /\ m.outstanding = k.outstanding /\ m.dead
      BY <1>0, <2>2, <3>1 DEF ClientType
    <3>3. l = [m EXCEPT !.pending = << >>, !.eof = TRUE, !.input = << >>]
      BY <2>3
    <3>. HIDE DEF m, l
    <3>. QED
      BY <1>6, <3>2, <3>3 DEF ClientType
  <2>. HIDE DEF l, ClientType
  <2>5. Good(l, {})
    BY <1>4, <1>5, <2>1, <2>4 DEF Good
  <2>. QED
    BY <2>5 DEF l
<1>8. CASE ~(Len(ids) > room)
  <2>1. \A i \in DOMAIN answers : i \in 1..Len(ids) /\ answers[i] = answers[i]
    BY <1>3
  <2>2. k.output \o answers \in Seq(Packet) /\ k.output_bytes + Len(ids) \in Int
    BY <1>0, <1>1, <1>3, ConcatAt
  <2>3. FailAll(k, ids) = [k EXCEPT !.output = @ \o answers, !.output_bytes = @ + Len(ids)]
    BY <1>8 DEF FailAll, answers
  <2>4. /\ l \in ClientType /\ l.pending = << >> /\ l.output = k.output \o answers
        /\ l.outstanding = k.outstanding /\ l.dead = k.dead
    <3>. HIDE DEF room
    <3>. QED
      BY <1>0, <1>6, <2>2, <2>3 DEF ClientType
  <2>. HIDE DEF l, ClientType
  <2>5. /\ AnsweredOnce(k.output \o answers)
        /\ Answered(k.output) \subseteq Answered(k.output \o answers)
        /\ Answered(k.output \o answers) \subseteq k.outstanding
        /\ R \cup Queued(k.pending) \subseteq Answered(k.output \o answers)
    BY <1>1, <1>3, <1>4, <2>1
  <2>6. Good(l, {})
    BY <1>5, <2>4, <2>5 DEF Good
  <2>. QED
    BY <2>6 DEF l
<1>. QED
  BY <1>1, <1>7, <1>8

\* The running search, and those in the queue.
LEMMA CancelledGood ==
  ASSUME NEW c \in Conns, Good(conn[c], IF ActiveIs(c) THEN {active.id} ELSE {}),
         ActiveIs(c) => active.id \in Ids
  PROVE  Good(Cancelled(c), {})
<1>. DEFINE k == conn[c]
            R == IF ActiveIs(c) THEN {active.id} ELSE {}
            first == IF ActiveIs(c) THEN <<active.id>> ELSE << >>
            rest == [i \in DOMAIN k.pending |-> k.pending[i].id]
            ids == first \o rest
<1>0. k.pending \in Seq(Job) /\ DOMAIN k.pending = 1..Len(k.pending) /\ Len(k.pending) \in Nat
  <2>1. k.pending \in Seq(Job)
    BY DEF Good, ClientType
  <2>. QED
    BY <2>1
<1>1. \A i \in 1..Len(k.pending) : k.pending[i].id \in Ids /\ k.pending[i].id \in Queued(k.pending)
  BY <1>0, QueuedIds DEF Queued
<1>2. rest \in Seq(Ids) /\ Len(rest) = Len(k.pending) /\ \A i \in 1..Len(rest) : rest[i] = k.pending[i].id
  <2>1. rest \in [1..Len(k.pending) -> Ids]
    BY <1>0, <1>1
  <2>. QED
    BY <1>0, <2>1
<1>3. R \in SUBSET Ids /\ R \cap Queued(k.pending) = {}
  BY DEF Good
<1>4. /\ first \in Seq(Ids) /\ {first[i] : i \in 1..Len(first)} = R
      /\ \A i, j \in 1..Len(first) : first[i] = first[j] => i = j
  OBVIOUS
<1>5. /\ {rest[i] : i \in 1..Len(rest)} = Queued(k.pending)
      /\ \A i, j \in 1..Len(rest) : rest[i] = rest[j] => i = j
  <2>. HIDE DEF rest
  <2>1. \A i, j \in 1..Len(k.pending) : k.pending[i].id = k.pending[j].id => i = j
    BY <1>0 DEF Good, QueuedOnce
  <2>2. Queued(k.pending) = {k.pending[i].id : i \in 1..Len(k.pending)}
    BY <1>0 DEF Queued
  <2>3. \A i, j \in 1..Len(rest) : rest[i] = rest[j] => i = j
    BY <1>2, <2>1
  <2>. QED
    BY <1>2, <2>2, <2>3
<1>. HIDE DEF R, first, rest
<1>6. /\ ids \in Seq(Ids) /\ Len(ids) = Len(first) + Len(rest)
      /\ Len(first) \in Nat /\ Len(rest) \in Nat
      /\ \A i \in 1..Len(first) : ids[i] = first[i]
      /\ \A i \in 1..Len(rest) : ids[Len(first) + i] = rest[i]
      /\ \A i \in Len(first) + 1..Len(first) + Len(rest) : ids[i] = rest[i - Len(first)]
  <2>1. first \in Seq(Ids) /\ rest \in Seq(Ids)
    BY <1>2, <1>4
  <2>2. Len(ids) = Len(first) + Len(rest) /\ Len(first) \in Nat /\ Len(rest) \in Nat /\ ids \in Seq(Ids)
    BY <2>1
  <2>. QED
    BY <2>1, <2>2, ConcatAt
<1>. HIDE DEF ids
<1>7. \A i \in 1..Len(ids) : \/ i \in 1..Len(first) /\ ids[i] = first[i] /\ ids[i] \in R
                             \/ /\ i - Len(first) \in 1..Len(rest) /\ ids[i] = rest[i - Len(first)]
                                /\ ids[i] \in Queued(k.pending)
  <2>. SUFFICES ASSUME NEW i \in 1..Len(ids)
                PROVE  \/ i \in 1..Len(first) /\ ids[i] = first[i] /\ ids[i] \in R
                       \/ /\ i - Len(first) \in 1..Len(rest) /\ ids[i] = rest[i - Len(first)]
                          /\ ids[i] \in Queued(k.pending)
    OBVIOUS
  <2>1. i <= Len(first) => i \in 1..Len(first)
    BY <1>6
  <2>2. i > Len(first) => i - Len(first) \in 1..Len(rest) /\ i \in Len(first) + 1..Len(first) + Len(rest)
    BY <1>6
  <2>. QED
    BY <1>4, <1>5, <1>6, <2>1, <2>2
<1>8. \A i, j \in 1..Len(ids) : ids[i] = ids[j] => i = j
  <2>. SUFFICES ASSUME NEW i \in 1..Len(ids), NEW j \in 1..Len(ids), ids[i] = ids[j] PROVE i = j
    OBVIOUS
  <2>1. CASE ids[i] \in R
    BY <1>3, <1>4, <1>7, <2>1
  <2>2. CASE ids[i] \notin R
    <3>1. i - Len(first) = j - Len(first)
      BY <1>5, <1>7, <2>2
    <3>. QED
      BY <1>6, <3>1
  <2>. QED
    BY <2>1, <2>2
<1>9. {ids[i] : i \in 1..Len(ids)} = R \cup Queued(k.pending)
  <2>1. ASSUME NEW id \in R PROVE \E i \in 1..Len(ids) : ids[i] = id
    BY <1>4, <1>6
  <2>2. ASSUME NEW id \in Queued(k.pending) PROVE \E i \in 1..Len(ids) : ids[i] = id
    <3>1. PICK i \in 1..Len(rest) : rest[i] = id
      BY <1>5
    <3>2. Len(first) + i \in 1..Len(ids) /\ ids[Len(first) + i] = id
      BY <1>6, <3>1
    <3>. QED
      BY <3>2
  <2>. QED
    BY <1>7, <2>1, <2>2
<1>10. Good([FailAll(k, ids) EXCEPT !.pending = << >>, !.eof = TRUE, !.input = << >>], {})
  <2>1. Good(k, R)
    BY DEF R
  <2>. HIDE DEF k
  <2>. QED
    BY <1>3, <1>6, <1>8, <1>9, <2>1, FailAllGood
<1>. QED
  BY <1>10 DEF Cancelled, ids, first, rest

-----------------------------------------------------------------------------
(* The inductive invariant.                                                *)

TypeLoop ==
  /\ phase \in {"signals", "accept", "exchange", "parse", "bound", "engine", "retire", "dispatch", "over"}
  /\ at \in Nat \ {0} /\ budget \in Nat /\ connects \in Nat
  /\ ring \in Seq(Conns) /\ last \in 0..Len(ring)
  /\ active \in {None} \cup Running
  /\ engine \in {"none", "used", "idle"} /\ stopping \in {"no", "draining", "late"}
  /\ exit \in 0..3 /\ failures \in BOOLEAN
  /\ served \in [Conns -> SUBSET Conns]
TypeOK == TypeLoop /\ conn \in [Conns -> ClientType]

\* Keys are different, and the client whose turn it is has one.
Ring ==
  /\ \A i, j \in DOMAIN ring : ring[i] = ring[j] => i = j
  /\ phase \in {"exchange", "parse"} => at \in DOMAIN ring

\* A search runs in an engine, for a client that is there and that was not dead
\* when the engine was polled; there is none after a stop.
Consumer ==
  active # None =>
    /\ engine # "none" /\ stopping = "no" /\ phase # "over"
    /\ active.client \in Connected
    /\ phase = "retire" => ~conn[active.client].dead

Told == failures => Stream /\ exit # 0

RunningFor(c) == IF ActiveIs(c) THEN {active.id} ELSE {}
Promises == phase # "over" => \A c \in Connected : Good(conn[c], RunningFor(c))

\* The key of the client at i has been passed, going around from the client at
\* j, since that one was served.
Passed(i, j) == IF last >= i THEN i < j /\ j <= last ELSE i < j \/ j <= last
Turns ==
  \A d \in Conns : \A c \in served[d] :
    \E i, j \in DOMAIN ring : ring[i] = d /\ ring[j] = c /\ Passed(i, j)

IInv == TypeOK /\ Ring /\ Consumer /\ Told /\ Promises /\ Turns

LEMMA RingFacts ==
  ASSUME TypeOK
  PROVE  /\ ring \in Seq(Conns) /\ DOMAIN ring = 1..Len(ring) /\ Len(ring) \in Nat
         /\ Connected \subseteq Conns
         /\ \A i \in DOMAIN ring : ring[i] \in Connected
         /\ \A c \in Connected : \E i \in DOMAIN ring : ring[i] = c
<1>1. ring \in Seq(Conns)
  BY DEF TypeOK, TypeLoop
<1>. QED
  BY <1>1 DEF Connected, ToSet

LEMMA ActiveFacts ==
  ASSUME TypeOK
  PROVE  /\ active # None => active \in Running /\ active.client \in Conns /\ active.id \in Ids
         /\ \A c : RunningFor(c) \in SUBSET Ids
<1>1. active # None => active \in Running /\ active.client \in Conns /\ active.id \in Ids
  BY DEF TypeOK, TypeLoop, Running
<1>. QED
  BY <1>1 DEF RunningFor, ActiveIs

LEMMA RunningIsNotNone == None \notin Running
  BY DEF Running, Kinds

LEMMA Initially == Init => IInv
<1>. SUFFICES ASSUME Init PROVE IInv
  OBVIOUS
<1>1. ring \in Seq(Conns) /\ (ring = << >> \/ Len(ring) = 1) /\ last \in 0..Len(ring)
  <2>1. (CHOOSE c \in Conns : TRUE) \in Conns
    OBVIOUS
  <2>. QED
    BY <2>1 DEF Init
<1>2. Fresh \in ClientType /\ Good(Fresh, {})
  BY FreshGood
<1>3. TypeLoop
  <2>1. served \in [Conns -> SUBSET Conns]
    BY DEF Init
  <2>2. /\ phase = "signals" /\ at = 1 /\ budget = 0 /\ connects = 0 /\ active = None
        /\ engine = "none" /\ stopping = "no" /\ exit = 0 /\ failures = FALSE
    BY DEF Init
  <2>3. active \in {None} \cup Running /\ failures \in BOOLEAN
    BY <2>2
  <2>4. exit \in 0..3 /\ connects \in Nat /\ budget \in Nat /\ at \in Nat \ {0}
    BY <2>2
  <2>5. /\ engine \in {"none", "used", "idle"} /\ stopping \in {"no", "draining", "late"}
        /\ phase \in {"signals", "accept", "exchange", "parse", "bound", "engine", "retire",
                      "dispatch", "over"}
    BY <2>2
  <2>. QED
    BY <1>1, <2>1, <2>3, <2>4, <2>5, Zenon DEF TypeLoop
<1>4. conn \in [Conns -> ClientType]
  BY <1>2 DEF Init
<1>5. Ring
  <2>1. \A i, j \in DOMAIN ring : i = j
    BY <1>1
  <2>. QED
    BY <2>1 DEF Ring, Init
<1>6. Consumer /\ Told /\ Turns
  BY DEF Init, Consumer, Told, Turns
<1>7. Promises
  <2>1. \A c : RunningFor(c) = {}
    BY DEF Init, RunningFor, ActiveIs
  <2>2. \A c \in Connected : conn[c] = Fresh
    BY <1>3, <1>4, RingFacts DEF Init, TypeOK
  <2>. QED
    BY <1>2, <2>1, <2>2 DEF Promises
<1>. QED
  BY <1>3, <1>4, <1>5, <1>6, <1>7 DEF IInv, TypeOK

-----------------------------------------------------------------------------
(* Steps that change one client.                                           *)

LEMMA OneClient ==
  ASSUME TypeOK, Promises, phase # "over", ring' = ring,
         NEW c \in Conns, NEW k \in ClientType, conn' = [conn EXCEPT ![c] = k],
         c \in Connected => Good(k, RunningFor(c)'),
         \A d \in Conns \ {c} : RunningFor(d)' = RunningFor(d)
  PROVE  Promises' /\ conn' \in [Conns -> ClientType]
<1>. USE DEF TypeOK
<1>. HIDE DEF ClientType
<1>1. conn' \in [Conns -> ClientType] /\ conn'[c] = k /\ \A d \in Conns \ {c} : conn'[d] = conn[d]
  OBVIOUS
<1>2. Connected' = Connected /\ Connected \subseteq Conns
  BY RingFacts DEF Connected
<1>3. ASSUME NEW d \in Connected PROVE Good(conn[d], RunningFor(d))'
  <2>1. CASE d = c
    BY <1>1, <2>1
  <2>2. CASE d # c
    <3>1. Good(conn[d], RunningFor(d))
      BY DEF Promises
    <3>2. conn'[d] = conn[d] /\ RunningFor(d)' = RunningFor(d)
      BY <1>1, <1>2, <2>2
    <3>. QED
      BY <3>1, <3>2
  <2>. QED
    BY <2>1, <2>2
<1>. QED
  BY <1>1, <1>2, <1>3 DEF Promises

Phases == {"signals", "accept", "exchange", "parse", "bound", "engine", "retire", "dispatch", "over"}
Engines == {"none", "used", "idle"}

\* The exit code only grows, and only that of a stream.
LEMMA AtLeastFacts ==
  ASSUME TypeOK, NEW code \in 0..3
  PROVE  /\ AtLeast(code) \in 0..3
         /\ exit # 0 => AtLeast(code) # 0
         /\ Stream /\ code # 0 => AtLeast(code) # 0
<1>1. exit \in 0..3
  BY DEF TypeOK, TypeLoop
<1>. QED
  BY <1>1 DEF AtLeast

LEMMA LoopTyped ==
  ASSUME TypeLoop, UNCHANGED <<ring, last, served>>,
         phase' \in Phases, at' \in Nat \ {0}, budget' \in Nat, connects' \in Nat,
         active' \in {None} \cup Running, engine' \in Engines,
         stopping' \in {"no", "draining", "late"}, exit' \in 0..3, failures' \in BOOLEAN
  PROVE  TypeLoop'
<1>1. ring' \in Seq(Conns) /\ last' \in 0..Len(ring') /\ served' \in [Conns -> SUBSET Conns]
  BY DEF TypeLoop
<1>. QED
  BY <1>1, Zenon DEF TypeLoop, Phases, Engines

LEMMA TurnsKept ==
  ASSUME Turns, UNCHANGED <<ring, last, served>>
  PROVE  Turns'
  BY DEF Turns, Passed

LEMMA HereStep ==
  ASSUME IInv, phase \in {"exchange", "parse"}, NEW c, c = Here,
         NEW k, conn' = [conn EXCEPT ![c] = k], Good(k, RunningFor(c)'),
         UNCHANGED <<ring, last, stopping, connects, served>>,
         phase' \in {"exchange", "parse", "bound"}, budget' \in Nat,
         at' \in Nat \ {0}, phase' # "bound" => at' \in DOMAIN ring,
         UNCHANGED <<active, engine>> \/ (ActiveIs(c) /\ KillEngine),
         exit' \in 0..3, failures' \in BOOLEAN, failures' => Stream /\ exit' # 0
  PROVE  IInv'
<1>0. TypeOK /\ Ring /\ Consumer /\ Promises /\ Turns
  BY DEF IInv
<1>1. c \in Connected /\ c \in Conns
  BY <1>0, RingFacts DEF Ring, Here
<1>2. k \in ClientType
  BY DEF Good
<1>3. \A d \in Conns \ {c} : RunningFor(d)' = RunningFor(d)
  BY RunningIsNotNone DEF RunningFor, ActiveIs, KillEngine
<1>4. Promises' /\ conn' \in [Conns -> ClientType]
  <2>1. phase # "over" /\ ring' = ring
    OBVIOUS
  <2>. QED
    BY <1>0, <1>1, <1>2, <1>3, <2>1, OneClient
<1>5. TypeLoop'
  <2>1. active' \in {None} \cup Running /\ engine' \in Engines
    BY <1>0 DEF TypeOK, TypeLoop, KillEngine, Engines
  <2>2. phase' \in Phases /\ connects' \in Nat /\ stopping' \in {"no", "draining", "late"}
    BY <1>0 DEF TypeOK, TypeLoop, Phases
  <2>. QED
    BY <1>0, <2>1, <2>2, LoopTyped DEF TypeOK
<1>6. Ring'
  BY <1>0 DEF Ring
<1>7. Consumer'
  BY <1>0 DEF Consumer, KillEngine, Connected
<1>8. Told' /\ Turns'
  BY <1>0, TurnsKept DEF Told
<1>. QED
  BY <1>4, <1>5, <1>6, <1>7, <1>8 DEF IInv, TypeOK

LEMMA HereFacts ==
  ASSUME IInv, phase \in {"exchange", "parse"}
  PROVE  /\ Here \in Connected /\ Here \in Conns /\ at \in DOMAIN ring /\ at \in 1..Len(ring) /\ Len(ring) \in Nat
         /\ Good(conn[Here], RunningFor(Here)) /\ conn[Here] \in ClientType
         /\ RunningFor(Here) \in SUBSET Ids
         /\ conn \in [Conns -> ClientType]
<1>0. TypeOK /\ Ring /\ Promises /\ at \in Nat
  BY DEF IInv, TypeOK, TypeLoop
<1>1. Here \in Connected /\ Here \in Conns /\ at \in DOMAIN ring /\ at \in 1..Len(ring) /\ Len(ring) \in Nat
  BY <1>0, RingFacts DEF Ring, Here
<1>2. Good(conn[Here], RunningFor(Here)) /\ conn \in [Conns -> ClientType]
  BY <1>0, <1>1 DEF Promises, TypeOK
<1>3. RunningFor(Here) \in SUBSET Ids
  BY <1>0, ActiveFacts
<1>. QED
  BY <1>1, <1>2, <1>3 DEF Good

LEMMA NextClientFacts ==
  ASSUME IInv, phase \in {"exchange", "parse"}, NextClient
  PROVE  /\ phase' \in {"exchange", "parse", "bound"} /\ at' \in Nat \ {0} /\ UNCHANGED budget
         /\ phase' # "bound" => at' \in DOMAIN ring
<1>1. at \in 1..Len(ring) /\ Len(ring) \in Nat /\ DOMAIN ring = 1..Len(ring)
  BY HereFacts, RingFacts DEF IInv
<1>. QED
  BY <1>1 DEF NextClient, Pass

LEMMA LoopFacts ==
  ASSUME IInv
  PROVE  /\ exit \in 0..3 /\ failures \in BOOLEAN /\ (failures => Stream /\ exit # 0)
         /\ budget \in Nat /\ connects \in Nat /\ at \in Nat \ {0}
         /\ active \in {None} \cup Running /\ engine \in Engines
         /\ phase \in Phases /\ stopping \in {"no", "draining", "late"}
         /\ served \in [Conns -> SUBSET Conns] /\ last \in 0..Len(ring)
  BY DEF IInv, TypeOK, TypeLoop, Told, Engines, Phases

-----------------------------------------------------------------------------
(* The turn of a client.                                                   *)

LEMMA ExchangeStep ==
  ASSUME IInv, Exchange
  PROVE  IInv'
<1>. DEFINE R == RunningFor(Here)
<1>0. phase = "exchange"
  BY DEF Exchange
<1>1. PICK w \in Written(conn[Here]) : \E k \in Received(w) : conn' = [conn EXCEPT ![Here] = k]
  BY DEF Exchange
<1>2. PICK k \in Received(w) : conn' = [conn EXCEPT ![Here] = k]
  BY <1>1
<1>. PICK c : c = Here
  OBVIOUS
<1>3. Good(conn[Here], R) /\ R \in SUBSET Ids /\ conn[Here] \in ClientType /\ at \in DOMAIN ring
      /\ at \in Nat \ {0}
  BY <1>0, HereFacts, LoopFacts
<1>4. Good(w, R)
  <2>. DEFINE l == [conn[Here] EXCEPT !.dead = TRUE]
  <2>1. w = conn[Here] \/ (conn[Here].output # << >> /\ (w = Flushed(conn[Here]) \/ w = l))
    BY <1>1 DEF Written
  <2>2. Good(l, R)
    <3>1. l \in ClientType /\ l.pending = conn[Here].pending /\ l.output = conn[Here].output
          /\ l.outstanding = conn[Here].outstanding /\ l.dead
      BY <1>3 DEF ClientType
    <3>. HIDE DEF l
    <3>. QED
      BY <1>3, <3>1, SameGood
  <2>3. conn[Here].output # << >> => Good(Flushed(conn[Here]), R)
    BY <1>3, FlushedGood
  <2>. HIDE DEF R
  <2>. QED
    BY <1>3, <2>1, <2>2, <2>3
<1>5. Good(k, R)
  BY <1>3, <1>4, ReceivedGood
<1>6. RunningFor(c)' = RunningFor(c)
  BY DEF Exchange, RunningFor, ActiveIs
<1>7. /\ UNCHANGED <<ring, last, stopping, connects, served, active, engine, exit, failures, at>>
      /\ phase' = "parse" /\ budget' \in Nat
  BY DEF Exchange
<1>8. conn' = [conn EXCEPT ![c] = k] /\ Good(k, RunningFor(c)') /\ c = Here
  BY <1>2, <1>5, <1>6
<1>9. /\ exit' \in 0..3 /\ failures' \in BOOLEAN /\ (failures' => Stream /\ exit' # 0)
      /\ phase' \in {"exchange", "parse", "bound"} /\ budget' \in Nat /\ at' \in Nat \ {0}
      /\ phase' # "bound" => at' \in DOMAIN ring
      /\ UNCHANGED <<ring, last, stopping, connects, served, active, engine>>
      /\ phase \in {"exchange", "parse"}
  BY <1>0, <1>3, <1>7, LoopFacts
<1>. QED
  BY <1>8, <1>9, HereStep

LEMMA HoldBackStep ==
  ASSUME IInv, HoldBack
  PROVE  IInv'
<1>. DEFINE k == [conn[Here] EXCEPT !.blocked = TRUE]
<1>. PICK c : c = Here
  OBVIOUS
<1>0. phase = "parse" /\ budget > 0
  BY DEF HoldBack, Parsing
<1>1. Good(conn[Here], RunningFor(Here)) /\ conn[Here] \in ClientType /\ at \in DOMAIN ring
  BY <1>0, HereFacts
<1>2. k \in ClientType /\ k.pending = conn[Here].pending /\ k.output = conn[Here].output
      /\ k.outstanding = conn[Here].outstanding /\ k.dead = conn[Here].dead
  BY <1>1 DEF ClientType
<1>3. conn' = [conn EXCEPT ![Here] = k]
  BY DEF HoldBack, Client
<1>. HIDE DEF k
<1>4. Good(k, RunningFor(Here))
  BY <1>1, <1>2, SameGood
<1>5. /\ UNCHANGED <<ring, last, stopping, connects, served, active, engine, exit, failures, at, phase>>
      /\ budget' = budget - 1
  BY DEF HoldBack, Continue
<1>6. RunningFor(c)' = RunningFor(c)
  BY <1>5 DEF RunningFor, ActiveIs
<1>7. budget' \in Nat
  BY <1>0, <1>5, LoopFacts
<1>8. conn' = [conn EXCEPT ![c] = k] /\ Good(k, RunningFor(c)') /\ c = Here
  BY <1>3, <1>4, <1>6
<1>9. /\ exit' \in 0..3 /\ failures' \in BOOLEAN /\ (failures' => Stream /\ exit' # 0)
      /\ phase' \in {"exchange", "parse", "bound"} /\ budget' \in Nat /\ at' \in Nat \ {0}
      /\ phase' # "bound" => at' \in DOMAIN ring
      /\ UNCHANGED <<ring, last, stopping, connects, served, active, engine>>
      /\ phase \in {"exchange", "parse"}
  BY <1>0, <1>1, <1>5, <1>7, LoopFacts
<1>. QED
  BY <1>8, <1>9, HereStep

LEMMA RefuseFrameStep ==
  ASSUME IInv, RefuseFrame
  PROVE  IInv'
<1>. DEFINE k == FrameError(conn[Here])
<1>. PICK c : c = Here
  OBVIOUS
<1>0. phase = "parse"
  BY DEF RefuseFrame, Parsing
<1>1. Good(conn[Here], RunningFor(Here)) /\ RunningFor(Here) \in SUBSET Ids /\ at \in DOMAIN ring
  BY <1>0, HereFacts
<1>2. Good(k, RunningFor(Here))
  BY <1>1, FrameErrorGood
<1>3. conn' = [conn EXCEPT ![Here] = k]
  BY DEF RefuseFrame, Client
<1>. HIDE DEF k
<1>4. /\ UNCHANGED <<ring, last, stopping, connects, served, active, engine, failures, at, phase>>
      /\ budget' = 0 /\ exit' = AtLeast(2)
  BY DEF RefuseFrame
<1>5. RunningFor(c)' = RunningFor(c)
  BY <1>4 DEF RunningFor, ActiveIs
<1>6. exit' \in 0..3 /\ (failures' => Stream /\ exit' # 0) /\ budget' \in Nat
  BY <1>4, AtLeastFacts, LoopFacts DEF IInv
<1>8. conn' = [conn EXCEPT ![c] = k] /\ Good(k, RunningFor(c)') /\ c = Here
  BY <1>2, <1>3, <1>5
<1>9. /\ exit' \in 0..3 /\ failures' \in BOOLEAN /\ (failures' => Stream /\ exit' # 0)
      /\ phase' \in {"exchange", "parse", "bound"} /\ budget' \in Nat /\ at' \in Nat \ {0}
      /\ phase' # "bound" => at' \in DOMAIN ring
      /\ UNCHANGED <<ring, last, stopping, connects, served, active, engine>>
      /\ phase \in {"exchange", "parse"}
  BY <1>0, <1>1, <1>4, <1>6, LoopFacts
<1>. QED
  BY <1>8, <1>9, HereStep

LEMMA TurnEndsStep ==
  ASSUME IInv, TurnEnds
  PROVE  IInv'
<1>. PICK c : c = Here
  OBVIOUS
<1>0. phase = "parse"
  BY DEF TurnEnds
<1>1. Good(conn[Here], RunningFor(Here)) /\ RunningFor(Here) \in SUBSET Ids
  BY <1>0, HereFacts
<1>2. Good(FrameError(conn[Here]), RunningFor(Here))
  BY <1>1, FrameErrorGood
<1>3. \E k : conn' = [conn EXCEPT ![Here] = k] /\ k \in {conn[Here], FrameError(conn[Here])}
  BY DEF TurnEnds, Client
<1>4. PICK k : conn' = [conn EXCEPT ![Here] = k] /\ k \in {conn[Here], FrameError(conn[Here])}
  BY <1>3
<1>5. /\ UNCHANGED <<ring, last, stopping, connects, served, active, engine, failures>>
      /\ exit' \in {exit, AtLeast(2)} /\ NextClient
  BY DEF TurnEnds
<1>6. RunningFor(c)' = RunningFor(c)
  BY <1>5 DEF RunningFor, ActiveIs
<1>7. exit' \in 0..3 /\ (failures' => Stream /\ exit' # 0)
  BY <1>5, AtLeastFacts, LoopFacts DEF IInv
<1>8. /\ phase' \in {"exchange", "parse", "bound"} /\ at' \in Nat \ {0} /\ budget' \in Nat
      /\ phase' # "bound" => at' \in DOMAIN ring
  BY <1>0, <1>5, NextClientFacts, LoopFacts
<1>9. conn' = [conn EXCEPT ![c] = k] /\ Good(k, RunningFor(c)')
  BY <1>1, <1>2, <1>4, <1>6
<1>10. failures' \in BOOLEAN /\ UNCHANGED <<ring, last, stopping, connects, served, active, engine>>
  BY <1>5, LoopFacts
<1>. QED
  BY <1>0, <1>7, <1>8, <1>9, <1>10, HereStep

\* The frame that is parsed is a request with an id that is not outstanding,
\* which it is from now on; its place is still to be found.
LEMMA AdmittedFacts ==
  ASSUME IInv, Admitted
  PROVE  /\ phase = "parse" /\ budget \in Nat \ {0}
         /\ Got \in Searches \cup Cancels /\ Got.id \in Ids
         /\ RunningFor(Here) \in SUBSET Ids /\ Got.id \notin RunningFor(Here)
         /\ Good(Taken, RunningFor(Here) \cup {Got.id})
<1>0. phase = "parse" /\ budget > 0 /\ conn[Here].input # << >> /\ Got # Partial
      /\ Got.op # "garbage" /\ Got.id \notin conn[Here].outstanding
  BY DEF Admitted, Parsing, HasFrame, Got, Duplicate
<1>1. /\ Good(conn[Here], RunningFor(Here)) /\ RunningFor(Here) \in SUBSET Ids
      /\ conn[Here] \in ClientType
  BY <1>0, HereFacts
<1>2. Got \in Frame
  <2>1. conn[Here].input \in Seq(Frame)
    BY <1>1 DEF ClientType
  <2>. QED
    BY <1>0, <2>1, TailAt DEF Got
<1>3. Got \in Searches \cup Cancels
  <2>1. Got \notin Garbage
    BY <1>0 DEF Garbage
  <2>. QED
    BY <1>0, <1>2, <2>1 DEF Frame, Wire
<1>4. Got.id \in Ids
  BY <1>3 DEF Searches, Cancels
<1>5. Got.id \notin RunningFor(Here)
  BY <1>0, <1>1 DEF Good
<1>6. Good(Taken, RunningFor(Here) \cup {Got.id})
  <2>. DEFINE k == conn[Here]
              R == RunningFor(Here)
              id == Got.id
  <2>1. Good(k, R) /\ R \in SUBSET Ids /\ k.input # << >> /\ id \in Ids /\ id \notin k.outstanding
    BY <1>0, <1>1, <1>4
  <2>2. Taken = [k EXCEPT !.input = Tail(@), !.outstanding = @ \cup {id}]
    BY DEF Taken
  <2>. HIDE DEF k, R, id
  <2>3. Good(Taken, R \cup {id})
    BY <2>1, <2>2, TakenGood
  <2>. QED
    BY <2>3 DEF R, id
<1>7. budget \in Nat \ {0}
  BY <1>0, LoopFacts
<1>. QED
  BY <1>0, <1>1, <1>3, <1>4, <1>5, <1>6, <1>7

\* The frame is done with, and the next one comes.
LEMMA ContinueStep ==
  ASSUME IInv, phase = "parse", budget \in Nat \ {0}, Continue, NEW c, c = Here,
         NEW k, conn' = [conn EXCEPT ![c] = k], Good(k, RunningFor(c)'),
         UNCHANGED <<ring, last, stopping, connects, served>>,
         UNCHANGED <<active, engine>> \/ (ActiveIs(c) /\ KillEngine),
         exit' \in 0..3, failures' \in BOOLEAN, failures' => Stream /\ exit' # 0
  PROVE  IInv'
<1>1. /\ phase' \in {"exchange", "parse", "bound"} /\ budget' \in Nat
      /\ at' \in Nat \ {0} /\ (phase' # "bound" => at' \in DOMAIN ring)
      /\ phase \in {"exchange", "parse"}
  BY HereFacts, LoopFacts DEF Continue
<1>. QED
  BY <1>1, HereStep

LEMMA AnsweredGood ==
  ASSUME NEW k, NEW R \in SUBSET Ids, NEW id \in Ids, id \notin R, Good(k, R \cup {id})
  PROVE  /\ Good(Enqueue(k, Control(id)), R) /\ Good(FailId(k, id), R)
         /\ FailId(k, id).pending = k.pending
<1>1. Control(id) \in Packet /\ Control(id).release = id
  BY ControlPacket
<1>2. /\ Good(Enqueue(k, Control(id)), (R \cup {id}) \ {id})
      /\ Enqueue(k, Control(id)).pending = k.pending
  BY <1>1, EnqueueGood
<1>3. (R \cup {id}) \ {id} = R
  OBVIOUS
<1>. QED
  BY <1>2, <1>3 DEF FailId

LEMMA RefuseRequestStep ==
  ASSUME IInv, RefuseRequest
  PROVE  IInv'
<1>. PICK c : c = Here
  OBVIOUS
<1>0. Admitted
  BY DEF RefuseRequest
<1>. DEFINE k == FailId(Taken, Got.id)
<1>1. Good(k, RunningFor(Here))
  BY <1>0, AdmittedFacts, AnsweredGood
<1>2. conn' = [conn EXCEPT ![Here] = k]
  BY DEF RefuseRequest, Client
<1>. HIDE DEF k
<1>3. /\ UNCHANGED <<ring, last, stopping, connects, served, active, engine>>
      /\ exit' = AtLeast(1) /\ Continue /\ failures' = (failures \/ Stream)
  BY DEF RefuseRequest, Failure
<1>4. RunningFor(c)' = RunningFor(c)
  BY <1>3 DEF RunningFor, ActiveIs
<1>5. exit' \in 0..3 /\ failures' \in BOOLEAN /\ (failures' => Stream /\ exit' # 0)
  BY <1>3, AtLeastFacts, LoopFacts DEF IInv
<1>6. conn' = [conn EXCEPT ![c] = k] /\ Good(k, RunningFor(c)') /\ c = Here
  BY <1>1, <1>2, <1>4
<1>7. phase = "parse" /\ budget \in Nat \ {0}
  BY <1>0, AdmittedFacts
<1>. QED
  BY <1>3, <1>5, <1>6, <1>7, ContinueStep

LEMMA QueueSearchStep ==
  ASSUME IInv, QueueSearch
  PROVE  IInv'
<1>. PICK c : c = Here
  OBVIOUS
<1>0. Admitted /\ Got.op \in {"lexical", "dense"}
  BY DEF QueueSearch
<1>. DEFINE id == Got.id
            op == Got.op
            R == RunningFor(Here)
            k == [Taken EXCEPT !.pending = Append(@, [id |-> id, op |-> op])]
<1>1. /\ id \in Ids /\ R \in SUBSET Ids /\ id \notin R /\ Good(Taken, R \cup {id})
      /\ Got \in Searches \cup Cancels
  BY <1>0, AdmittedFacts
<1>2. op \in Kinds
  BY <1>0, <1>1 DEF Searches, Cancels, Kinds
<1>3. conn' = [conn EXCEPT ![Here] = k]
  BY DEF QueueSearch, Client
<1>4. Good(k, R)
  <2>. HIDE DEF id, op, R, k
  <2>1. R \cup {id} \in SUBSET Ids /\ id \in R \cup {id} /\ (R \cup {id}) \ {id} = R
    BY <1>1
  <2>2. Good([Taken EXCEPT !.pending = Append(@, [id |-> id, op |-> op])], (R \cup {id}) \ {id})
    BY <1>1, <1>2, <2>1, QueuedGood
  <2>. QED
    BY <2>1, <2>2 DEF k
<1>. HIDE DEF k
<1>5. /\ UNCHANGED <<ring, last, stopping, connects, served, active, engine, exit, failures>>
      /\ Continue
  BY DEF QueueSearch
<1>6. RunningFor(c)' = RunningFor(c)
  BY <1>5 DEF RunningFor, ActiveIs
<1>7. exit' \in 0..3 /\ failures' \in BOOLEAN /\ (failures' => Stream /\ exit' # 0)
  BY <1>5, LoopFacts
<1>8. conn' = [conn EXCEPT ![c] = k] /\ Good(k, RunningFor(c)') /\ c = Here
  BY <1>3, <1>4, <1>6
<1>9. phase = "parse" /\ budget \in Nat \ {0}
  BY <1>0, AdmittedFacts
<1>. QED
  BY <1>5, <1>7, <1>8, <1>9, ContinueStep

LEMMA UnqueueNothing ==
  ASSUME NEW k, NEW R, Good(k, R), NEW target, target \notin Queued(k.pending)
  PROVE  Good(Unqueue(k, target), R)
<1>. DEFINE q == k.pending
            l == [k EXCEPT !.pending = q]
<1>0. k \in ClientType /\ q \in Seq(Job) /\ DOMAIN q = 1..Len(q)
  <2>1. k \in ClientType
    BY DEF Good
  <2>2. q \in Seq(Job)
    BY <2>1 DEF ClientType
  <2>. QED
    BY <2>1, <2>2
<1>1. {i \in 1..Len(q) : q[i].id = target} = {}
  BY <1>0 DEF Queued
<1>2. RemoveFirstMatch(q, LAMBDA f : f.id = target) = q
  BY <1>1 DEF RemoveFirstMatch, SelectInSeq
<1>3. Unqueue(k, target) = l
  BY <1>2 DEF Unqueue
<1>4. l \in ClientType /\ l.pending = q /\ l.output = k.output /\ l.outstanding = k.outstanding
      /\ l.dead = k.dead
  BY <1>0 DEF ClientType
<1>. HIDE DEF l
<1>. QED
  BY <1>3, <1>4, SameGood

LEMMA CancelStep ==
  ASSUME IInv, Cancel
  PROVE  IInv'
<1>. PICK c : c = Here
  OBVIOUS
<1>0. Admitted /\ Got.op = "cancel" /\ Got.target # None
  BY DEF Cancel, Invalid
<1>. DEFINE id == Got.id
            target == Got.target
            t == Taken
            R == RunningFor(Here)
            queued == \E i \in DOMAIN t.pending : t.pending[i].id = target
            running == ActiveIs(Here) /\ active.id = target
            k == IF queued \/ running THEN FailId(Unqueue(t, target), target) ELSE t
            l == Enqueue(k, Control(id))
<1>1. /\ id \in Ids /\ R \in SUBSET Ids /\ id \notin R /\ Good(t, R \cup {id})
      /\ Got \in Searches \cup Cancels
  BY <1>0, AdmittedFacts
<1>2. target \in Ids
  <2>1. Got \in Cancels
    BY <1>0, <1>1 DEF Searches
  <2>. QED
    BY <1>0, <2>1 DEF Cancels
<1>3. /\ conn' = [conn EXCEPT ![Here] = l]
      /\ IF running /\ ~queued THEN KillEngine ELSE UNCHANGED <<active, engine>>
      /\ exit' = IF queued \/ running THEN AtLeast(1) ELSE exit
      /\ Failure(queued \/ running) /\ Continue
      /\ UNCHANGED <<ring, last, stopping, connects, served>>
  BY DEF Cancel, Client
<1>4. (running => R = {target}) /\ (queued <=> target \in Queued(t.pending))
  BY DEF RunningFor, Queued
<1>5. /\ exit' \in 0..3 /\ failures' \in BOOLEAN /\ (failures' => Stream /\ exit' # 0)
  <2>. HIDE DEF queued, running
  <2>1. exit' \in {exit, AtLeast(1)} /\ (queued \/ running => exit' = AtLeast(1))
    BY <1>3
  <2>2. failures' \in BOOLEAN /\ (failures' => failures \/ (Stream /\ (queued \/ running)))
    BY <1>3 DEF Failure
  <2>. QED
    BY <2>1, <2>2, AtLeastFacts, LoopFacts DEF IInv
<1>6. running => ActiveIs(c)
  OBVIOUS
<1>. HIDE DEF queued, running, id, target, t, R, l
<1>7. ASSUME queued
      PROVE  Good(l, RunningFor(c)') /\ (UNCHANGED <<active, engine>> \/ (ActiveIs(c) /\ KillEngine))
  <2>1. target \notin R \cup {id} /\ R \cup {id} \in SUBSET Ids
    BY <1>1, <1>4, <1>7 DEF Good
  <2>2. Good(Unqueue(t, target), (R \cup {id}) \cup {target})
    BY <1>1, <1>4, <1>7, <2>1, UnqueueGood
  <2>3. Good(FailId(Unqueue(t, target), target), R \cup {id})
    BY <1>2, <2>1, <2>2, AnsweredGood
  <2>4. Good(l, R)
    BY <1>1, <1>7, <2>3, AnsweredGood DEF l
  <2>5. UNCHANGED <<active, engine>>
    BY <1>3, <1>7
  <2>6. RunningFor(c)' = RunningFor(c)
    BY <2>5 DEF RunningFor, ActiveIs
  <2>7. RunningFor(c)' = R
    BY <2>6 DEF R
  <2>. QED
    BY <2>4, <2>5, <2>7
<1>8. ASSUME running /\ ~queued
      PROVE  Good(l, RunningFor(c)') /\ (UNCHANGED <<active, engine>> \/ (ActiveIs(c) /\ KillEngine))
  <2>1. R = {target} /\ target # id
    BY <1>1, <1>4, <1>8
  <2>2. Good(Unqueue(t, target), R \cup {id})
    BY <1>1, <1>4, <1>8, UnqueueNothing
  <2>3. R \cup {id} = {id} \cup {target} /\ {id} \in SUBSET Ids /\ target \notin {id}
    BY <1>1, <2>1
  <2>4. Good(FailId(Unqueue(t, target), target), {id})
    BY <1>2, <2>2, <2>3, AnsweredGood
  <2>5. {id} = {} \cup {id} /\ {} \in SUBSET Ids /\ id \notin {}
    OBVIOUS
  <2>6. Good(l, {})
    BY <1>1, <1>8, <2>4, <2>5, AnsweredGood DEF l
  <2>7. KillEngine
    BY <1>3, <1>8
  <2>8. RunningFor(c)' = {}
    BY <2>7 DEF RunningFor, ActiveIs, KillEngine
  <2>. QED
    BY <1>6, <1>8, <2>6, <2>7, <2>8
<1>9. ASSUME ~queued /\ ~running
      PROVE  Good(l, RunningFor(c)') /\ (UNCHANGED <<active, engine>> \/ (ActiveIs(c) /\ KillEngine))
  <2>1. Good(l, R)
    BY <1>1, <1>9, AnsweredGood DEF l
  <2>2. UNCHANGED <<active, engine>>
    BY <1>3, <1>9
  <2>3. RunningFor(c)' = RunningFor(c)
    BY <2>2 DEF RunningFor, ActiveIs
  <2>4. RunningFor(c)' = R
    BY <2>3 DEF R
  <2>. QED
    BY <2>1, <2>2, <2>4
<1>10. Good(l, RunningFor(c)') /\ (UNCHANGED <<active, engine>> \/ (ActiveIs(c) /\ KillEngine))
  BY <1>7, <1>8, <1>9
<1>11. conn' = [conn EXCEPT ![c] = l] /\ c = Here
  BY <1>3
<1>12. phase = "parse" /\ budget \in Nat \ {0}
  BY <1>0, AdmittedFacts
<1>. QED
  BY <1>3, <1>5, <1>10, <1>11, <1>12, ContinueStep

-----------------------------------------------------------------------------
(* Steps that change no client.                                            *)

LEMMA QuietStep ==
  ASSUME IInv, UNCHANGED <<ring, last, conn, active, connects, failures, served>>,
         phase # "over", phase' \in Phases, at' \in Nat \ {0}, budget' \in Nat,
         phase' \in {"exchange", "parse"} => at' \in DOMAIN ring,
         engine' \in Engines, stopping' \in {"no", "draining", "late"},
         exit' = exit,
         active # None => /\ engine' # "none" /\ stopping' = "no" /\ phase' # "over"
                          /\ phase' = "retire" => ~conn[active.client].dead
  PROVE  IInv'
<1>0. TypeOK /\ Ring /\ Consumer /\ Promises /\ Turns
  BY DEF IInv
<1>1. TypeLoop'
  <2>1. exit' \in 0..3 /\ failures' \in BOOLEAN /\ connects' \in Nat /\ active' \in {None} \cup Running
    BY LoopFacts
  <2>. QED
    BY <1>0, <2>1, LoopTyped DEF TypeOK
<1>2. Ring' /\ (conn \in [Conns -> ClientType])'
  BY <1>0 DEF Ring, TypeOK
<1>3. Consumer'
  BY <1>0 DEF Consumer, Connected
<1>4. Told' /\ Turns'
  BY <1>0, TurnsKept DEF Told, IInv
<1>5. Promises'
  BY <1>0 DEF Promises, Connected, RunningFor, ActiveIs
<1>. QED
  BY <1>1, <1>2, <1>3, <1>4, <1>5 DEF IInv, TypeOK

LEMMA Untouched ==
  ASSUME IInv, UNCHANGED vars
  PROVE  IInv'
<1>0. UNCHANGED <<phase, at, budget, ring, last, conn, active, engine, stopping, exit, connects,
                  failures, served>>
  BY DEF vars
<1>1. IInv
  OBVIOUS
<1>2. (TypeLoop /\ Ring /\ Consumer /\ Told /\ Turns)'
  BY <1>0 DEF IInv, TypeOK, TypeLoop, Ring, Consumer, Told, Turns, Passed, Connected
<1>3. (Promises /\ conn \in [Conns -> ClientType])'
  BY <1>0 DEF IInv, TypeOK, Promises, Connected, RunningFor, ActiveIs
<1>. QED
  BY <1>2, <1>3 DEF IInv, TypeOK

LEMMA NoSignalStep == ASSUME IInv, NoSignal PROVE IInv'
<1>1. /\ phase = "signals" /\ phase' = "accept"
      /\ UNCHANGED <<at, budget, ring, last, conn, active, engine, stopping, exit, connects,
                     failures, served>>
  BY DEF NoSignal, Pass
<1>2. phase # "over" /\ phase' \in Phases /\ phase' \notin {"exchange", "parse", "over", "retire"}
  BY <1>1 DEF Phases
<1>. QED
  BY <1>1, <1>2, LoopFacts, QuietStep DEF IInv, Consumer

LEMMA AcceptedStep == ASSUME IInv, Accepted PROVE IInv'
<1>1. /\ phase = "accept" /\ UNCHANGED budget
      /\ (phase' = "bound" /\ UNCHANGED at) \/ (ring # << >> /\ phase' = "exchange" /\ at' = 1)
      /\ UNCHANGED <<ring, last, conn, active, engine, stopping, exit, connects, failures, served>>
  BY DEF Accepted, Pass
<1>2. /\ phase # "over" /\ phase' \in Phases /\ phase' \notin {"over", "retire"}
      /\ at' \in Nat \ {0}
  BY <1>1, LoopFacts DEF Phases
<1>3. phase' \in {"exchange", "parse"} => at' \in DOMAIN ring
  <2>1. ring # << >> => 1 \in DOMAIN ring
    BY RingFacts DEF IInv
  <2>. QED
    BY <1>1, <2>1
<1>. QED
  BY <1>1, <1>2, <1>3, LoopFacts, QuietStep DEF IInv, Consumer

LEMMA NoAnswerStep == ASSUME IInv, NoAnswer PROVE IInv'
<1>1. /\ phase = "engine" /\ phase' = "retire"
      /\ UNCHANGED <<at, budget, ring, last, conn, active, engine, stopping, exit, connects,
                     failures, served>>
      /\ active # None => ~conn[active.client].dead
  BY DEF NoAnswer, Pass, Orphaned
<1>2. phase # "over" /\ phase' \in Phases /\ phase' \notin {"exchange", "parse", "over"}
  BY <1>1 DEF Phases
<1>. QED
  BY <1>1, <1>2, LoopFacts, QuietStep DEF IInv, Consumer

LEMMA NoDispatchStep == ASSUME IInv, NoDispatch PROVE IInv'
<1>1. /\ phase = "dispatch" /\ phase' = "signals"
      /\ UNCHANGED <<at, budget, ring, last, conn, active, engine, stopping, exit, connects,
                     failures, served>>
  BY DEF NoDispatch, Pass
<1>2. phase # "over" /\ phase' \in Phases /\ phase' \notin {"exchange", "parse", "over", "retire"}
  BY <1>1 DEF Phases
<1>. QED
  BY <1>1, <1>2, LoopFacts, QuietStep DEF IInv, Consumer

LEMMA GoesIdleStep == ASSUME IInv, GoesIdle PROVE IInv'
<1>1. /\ phase # "over" /\ engine' = "idle" /\ engine' \in Engines
      /\ UNCHANGED <<phase, at, budget, ring, last, conn, active, stopping, exit, connects,
                     failures, served>>
  BY DEF GoesIdle, Engines
<1>. QED
  BY <1>1, LoopFacts, QuietStep DEF IInv, Consumer, Ring

LEMMA StopsLateStep == ASSUME IInv, StopsLate PROVE IInv'
<1>1. /\ phase # "over" /\ stopping = "draining" /\ stopping' = "late"
      /\ UNCHANGED <<phase, at, budget, ring, last, conn, active, engine, exit, connects,
                     failures, served>>
  BY DEF StopsLate
<1>2. active = None
  BY <1>1 DEF IInv, Consumer
<1>. QED
  BY <1>1, <1>2, LoopFacts, QuietStep DEF IInv, Ring

-----------------------------------------------------------------------------
(* The stop signal and new connections.                                    *)

LEMMA StopSignalStep == ASSUME IInv, StopSignal PROVE IInv'
<1>. DEFINE busy == active # None \/ \E c \in Connected : conn[c].pending # << >>
<1>0. TypeOK /\ Ring /\ Promises /\ Turns /\ phase = "signals"
  BY DEF IInv, StopSignal
<1>1. /\ stopping' = "draining" /\ active' = None /\ engine' = "none" /\ phase' = "accept"
      /\ conn' = [c \in Conns |-> IF c \in Connected THEN Cancelled(c) ELSE conn[c]]
      /\ UNCHANGED <<ring, last, connects, served, at, budget>>
      /\ exit' = (IF busy THEN AtLeast(1) ELSE exit) /\ failures' = (failures \/ (Stream /\ busy))
  BY DEF StopSignal, KillEngine, Pass, Failure, Busy
<1>2. exit' \in 0..3 /\ failures' \in BOOLEAN /\ (failures' => Stream /\ exit' # 0)
  <2>. HIDE DEF busy
  <2>. QED
    BY <1>0, <1>1, AtLeastFacts, LoopFacts
<1>3. ASSUME NEW c \in Connected PROVE Good(Cancelled(c), {})
  <2>1. c \in Conns /\ (ActiveIs(c) => active.id \in Ids)
    BY <1>0, RingFacts, ActiveFacts DEF ActiveIs
  <2>2. Good(conn[c], IF ActiveIs(c) THEN {active.id} ELSE {})
    BY <1>0 DEF Promises, RunningFor
  <2>. QED
    BY <2>1, <2>2, CancelledGood
<1>4. (conn \in [Conns -> ClientType])'
  <2>1. \A c \in Connected : Cancelled(c) \in ClientType
    BY <1>3 DEF Good
  <2>2. \A c \in Conns : conn[c] \in ClientType
    BY <1>0 DEF TypeOK
  <2>. HIDE DEF ClientType
  <2>. QED
    BY <1>1, <2>1, <2>2
<1>5. TypeLoop'
  <2>1. phase' \in Phases /\ engine' \in Engines /\ active' \in {None} \cup Running
    BY <1>1 DEF Phases, Engines
  <2>2. at' \in Nat \ {0} /\ budget' \in Nat /\ connects' \in Nat
    BY <1>1, LoopFacts
  <2>. QED
    BY <1>0, <1>1, <1>2, <2>1, <2>2, LoopTyped DEF TypeOK
<1>6. Promises'
  <2>1. ASSUME NEW c \in Connected PROVE Good(conn[c], RunningFor(c))'
    <3>1. conn'[c] = Cancelled(c)
      BY <1>0, <1>1, RingFacts
    <3>2. RunningFor(c)' = {}
      BY <1>1 DEF RunningFor, ActiveIs
    <3>3. Good(conn'[c], RunningFor(c)')
      BY <1>3, <3>1, <3>2
    <3>. QED
      BY <3>3
  <2>2. Connected' = Connected
    BY <1>1 DEF Connected
  <2>. QED
    BY <2>1, <2>2 DEF Promises
<1>7. Ring' /\ Consumer' /\ Told' /\ Turns'
  BY <1>0, <1>1, <1>2, TurnsKept DEF Ring, Consumer, Told
<1>. QED
  BY <1>4, <1>5, <1>6, <1>7 DEF IInv, TypeOK

LEMMA AcceptStep == ASSUME IInv, NEW c \in Conns, Accept(c) PROVE IInv'
<1>0. /\ TypeOK /\ Ring /\ Consumer /\ Promises /\ Turns /\ phase = "accept" /\ c \notin Connected
  BY DEF IInv, Accept
<1>1. /\ connects' = connects + 1 /\ ring' = Append(ring, c) /\ conn' = [conn EXCEPT ![c] = Fresh]
      /\ UNCHANGED <<phase, at, budget, last, active, engine, stopping, exit, failures, served>>
  BY DEF Accept
<1>2. /\ ring \in Seq(Conns) /\ DOMAIN ring = 1..Len(ring) /\ Len(ring) \in Nat
      /\ ring' \in Seq(Conns) /\ DOMAIN ring' = 1..Len(ring) + 1 /\ Len(ring') = Len(ring) + 1
      /\ \A i \in 1..Len(ring) : ring'[i] = ring[i]
      /\ ring'[Len(ring) + 1] = c
  <2>1. ring \in Seq(Conns)
    BY <1>0, RingFacts
  <2>. QED
    BY <1>1, <2>1, AppendAt
<1>3. Connected' = Connected \cup {c}
  BY <1>2 DEF Connected, ToSet
<1>4. TypeLoop'
  <2>1. /\ phase' \in Phases /\ at' \in Nat \ {0} /\ budget' \in Nat /\ connects' \in Nat
        /\ active' \in {None} \cup Running /\ engine' \in Engines
        /\ stopping' \in {"no", "draining", "late"} /\ exit' \in 0..3 /\ failures' \in BOOLEAN
        /\ served' \in [Conns -> SUBSET Conns] /\ last' \in 0..Len(ring')
    BY <1>1, <1>2, LoopFacts
  <2>. QED
    BY <1>2, <2>1, Zenon DEF TypeLoop, Phases, Engines
<1>5. (conn \in [Conns -> ClientType])' /\ conn'[c] = Fresh
      /\ \A d \in Conns \ {c} : conn'[d] = conn[d]
  <2>1. conn \in [Conns -> ClientType] /\ Fresh \in ClientType
    BY <1>0, FreshGood DEF TypeOK
  <2>. HIDE DEF ClientType
  <2>. QED
    BY <1>1, <2>1
<1>6. Ring'
  <2>1. \A i \in 1..Len(ring) : ring[i] # c
    BY <1>0, <1>2, RingFacts
  <2>. QED
    BY <1>0, <1>1, <1>2, <2>1 DEF Ring
<1>7. Consumer' /\ Told'
  BY <1>0, <1>1, <1>3 DEF Consumer, Told, IInv
<1>8. Promises'
  <2>1. ASSUME NEW d \in Connected PROVE Good(conn[d], RunningFor(d))'
    <3>1. conn'[d] = conn[d] /\ RunningFor(d)' = RunningFor(d)
      BY <1>0, <1>1, <1>5, RingFacts DEF RunningFor, ActiveIs
    <3>2. Good(conn[d], RunningFor(d))
      BY <1>0 DEF Promises
    <3>. QED
      BY <3>1, <3>2
  <2>2. Good(conn[c], RunningFor(c))'
    <3>1. RunningFor(c)' = {}
      BY <1>0, <1>1 DEF RunningFor, ActiveIs, Consumer
    <3>. QED
      BY <1>5, <3>1, FreshGood
  <2>. QED
    BY <1>3, <2>1, <2>2 DEF Promises
<1>9. Turns'
  <2>. SUFFICES ASSUME NEW d \in Conns, NEW e \in served'[d]
                PROVE  \E i, j \in DOMAIN ring' : ring'[i] = d /\ ring'[j] = e /\ Passed(i, j)'
    BY DEF Turns
  <2>1. PICK i, j \in DOMAIN ring : ring[i] = d /\ ring[j] = e /\ Passed(i, j)
    BY <1>0, <1>1 DEF Turns
  <2>2. i \in DOMAIN ring' /\ j \in DOMAIN ring' /\ ring'[i] = d /\ ring'[j] = e
    BY <1>2, <2>1
  <2>3. Passed(i, j)'
    BY <1>1, <2>1 DEF Passed
  <2>. QED
    BY <2>2, <2>3
<1>. QED
  BY <1>4, <1>5, <1>6, <1>7, <1>8, <1>9 DEF IInv, TypeOK

LEMMA AcceptFailsStep == ASSUME IInv, AcceptFails PROVE IInv'
<1>0. TypeOK /\ Ring /\ Turns /\ ~Stream
  BY DEF IInv, AcceptFails
<1>1. /\ exit' = 3 /\ active' = None /\ engine' = "none" /\ phase' = "over"
      /\ UNCHANGED <<at, budget, ring, last, conn, stopping, connects, failures, served>>
  BY DEF AcceptFails, KillEngine, Pass
<1>2. TypeLoop'
  <2>1. phase' \in Phases /\ engine' \in Engines /\ active' \in {None} \cup Running /\ exit' \in 0..3
    BY <1>1 DEF Phases, Engines
  <2>2. /\ at' \in Nat \ {0} /\ budget' \in Nat /\ connects' \in Nat /\ failures' \in BOOLEAN
        /\ stopping' \in {"no", "draining", "late"}
    BY <1>1, LoopFacts
  <2>. QED
    BY <1>0, <1>1, <2>1, <2>2, LoopTyped DEF TypeOK
<1>3. Ring' /\ Consumer' /\ Told' /\ Turns' /\ Promises' /\ (conn \in [Conns -> ClientType])'
  BY <1>0, <1>1, TurnsKept DEF Ring, Consumer, Told, Promises, TypeOK, IInv
<1>. QED
  BY <1>2, <1>3 DEF IInv, TypeOK

-----------------------------------------------------------------------------
(* The bound of the output, and the engine.                                *)

LEMMA BoundStep == ASSUME IInv, Bound PROVE IInv'
<1>0. TypeOK /\ Ring /\ Consumer /\ Promises /\ Turns /\ phase = "bound"
  BY DEF IInv, Bound
<1>1. /\ exit' \in {exit, AtLeast(2), AtLeast(3)} /\ phase' = "engine"
      /\ UNCHANGED <<at, budget, ring, last, active, engine, stopping, connects, failures, served>>
  BY DEF Bound, Pass
<1>2. PICK D \in SUBSET Alive :
         conn' = [c \in Conns |-> IF c \in D THEN [conn[c] EXCEPT !.dead = TRUE] ELSE conn[c]]
  BY DEF Bound
<1>3. exit' \in 0..3 /\ (failures' => Stream /\ exit' # 0)
  <2>1. AtLeast(2) \in 0..3 /\ AtLeast(3) \in 0..3
        /\ (exit # 0 => AtLeast(2) # 0 /\ AtLeast(3) # 0)
    BY <1>0, AtLeastFacts
  <2>. QED
    BY <1>1, <2>1, LoopFacts
<1>4. ASSUME NEW c \in Conns
      PROVE  /\ conn'[c] \in ClientType
             /\ \A R \in SUBSET Ids : Good(conn[c], R) => Good(conn'[c], R)
  <2>. DEFINE k == [conn[c] EXCEPT !.dead = TRUE]
  <2>1. conn[c] \in ClientType
    BY <1>0 DEF TypeOK
  <2>2. /\ k \in ClientType /\ k.pending = conn[c].pending /\ k.output = conn[c].output
        /\ k.outstanding = conn[c].outstanding /\ k.dead
    BY <2>1 DEF ClientType
  <2>3. conn'[c] = k \/ conn'[c] = conn[c]
    BY <1>2
  <2>. HIDE DEF k, ClientType
  <2>4. \A R \in SUBSET Ids : Good(conn[c], R) => Good(k, R)
    BY <2>2, SameGood
  <2>. QED
    BY <2>1, <2>2, <2>3, <2>4
<1>5. (conn \in [Conns -> ClientType])'
  <2>1. conn' \in [Conns -> {conn'[c] : c \in Conns}]
    BY <1>2
  <2>. HIDE DEF ClientType
  <2>. QED
    BY <1>4, <2>1
<1>6. TypeLoop'
  <2>1. phase' \in Phases /\ engine' \in Engines /\ active' \in {None} \cup Running
    BY <1>1, LoopFacts DEF Phases
  <2>2. /\ at' \in Nat \ {0} /\ budget' \in Nat /\ connects' \in Nat /\ failures' \in BOOLEAN
        /\ stopping' \in {"no", "draining", "late"}
    BY <1>1, LoopFacts
  <2>. QED
    BY <1>0, <1>1, <1>3, <2>1, <2>2, LoopTyped DEF TypeOK
<1>7. Promises'
  <2>1. ASSUME NEW c \in Connected PROVE Good(conn[c], RunningFor(c))'
    <3>1. c \in Conns /\ RunningFor(c) \in SUBSET Ids /\ RunningFor(c)' = RunningFor(c)
      BY <1>0, <1>1, RingFacts, ActiveFacts DEF RunningFor, ActiveIs
    <3>2. Good(conn[c], RunningFor(c))
      BY <1>0 DEF Promises
    <3>. QED
      BY <1>4, <3>1, <3>2
  <2>2. Connected' = Connected
    BY <1>1 DEF Connected
  <2>. QED
    BY <2>1, <2>2 DEF Promises
<1>8. Ring' /\ Consumer' /\ Told' /\ Turns'
  BY <1>0, <1>1, <1>3, TurnsKept DEF Ring, Consumer, Told, Connected
<1>. QED
  BY <1>5, <1>6, <1>7, <1>8 DEF IInv, TypeOK

\* A step that ends the running search: its id has a place again, or its client
\* is dead.
LEMMA SearchEnds ==
  ASSUME IInv, active # None, phase = "engine", phase' = "retire", active' = None,
         NEW c \in Conns, c = active.client,
         NEW k, conn' = [conn EXCEPT ![c] = k], Good(k, {}),
         UNCHANGED <<at, budget, ring, last, stopping, connects, served>>,
         engine' \in Engines,
         exit' \in 0..3, failures' \in BOOLEAN, failures' => Stream /\ exit' # 0
  PROVE  IInv'
<1>0. TypeOK /\ Ring /\ Promises /\ Turns /\ phase # "over"
  BY DEF IInv
<1>1. k \in ClientType
  BY DEF Good
<1>2. \A d \in Conns : RunningFor(d)' = {}
  BY DEF RunningFor, ActiveIs
<1>3. \A d \in Conns \ {c} : RunningFor(d) = {}
  BY DEF RunningFor, ActiveIs
<1>4. Promises' /\ conn' \in [Conns -> ClientType]
  <2>1. ring' = ring /\ Good(k, RunningFor(c)')
    BY <1>2
  <2>2. \A d \in Conns \ {c} : RunningFor(d)' = RunningFor(d)
    BY <1>2, <1>3
  <2>. QED
    BY <1>0, <1>1, <2>1, <2>2, OneClient
<1>5. TypeLoop'
  <2>1. phase' \in Phases /\ active' \in {None} \cup Running
    BY DEF Phases
  <2>2. /\ at' \in Nat \ {0} /\ budget' \in Nat /\ connects' \in Nat
        /\ stopping' \in {"no", "draining", "late"}
    BY LoopFacts
  <2>. QED
    BY <1>0, <2>1, <2>2, LoopTyped DEF TypeOK
<1>6. Ring' /\ Consumer' /\ Told' /\ Turns'
  BY <1>0, TurnsKept DEF Ring, Consumer, Told
<1>. QED
  BY <1>4, <1>5, <1>6 DEF IInv, TypeOK

LEMMA ConsumerFacts ==
  ASSUME IInv, active # None
  PROVE  /\ active.client \in Connected /\ active.client \in Conns /\ active.id \in Ids
         /\ phase # "over" => Good(conn[active.client], {active.id})
         /\ conn[active.client] \in ClientType
<1>1. active.client \in Connected /\ active.client \in Conns /\ active.id \in Ids
  BY ActiveFacts DEF IInv, Consumer
<1>2. RunningFor(active.client) = {active.id}
  BY DEF RunningFor, ActiveIs
<1>. QED
  BY <1>1, <1>2 DEF IInv, Promises, TypeOK

LEMMA AbandonStep == ASSUME IInv, Abandon PROVE IInv'
<1>0. active # None /\ conn[active.client].dead /\ phase = "engine"
  BY DEF Abandon, Orphaned
<1>1. /\ active' = None /\ engine' = "none" /\ phase' = "retire"
      /\ UNCHANGED <<at, budget, ring, last, conn, stopping, exit, connects, failures, served>>
  BY DEF Abandon, KillEngine, Pass
<1>2. PICK c \in Conns : c = active.client
  BY <1>0, ConsumerFacts
<1>3. Good(conn[c], {active.id}) /\ conn[c].dead
  BY <1>0, <1>2, ConsumerFacts
<1>4. Good(conn[c], {})
  BY <1>3 DEF Good
<1>5. conn' = [conn EXCEPT ![c] = conn[c]]
  <2>1. conn \in [Conns -> ClientType]
    BY DEF IInv, TypeOK
  <2>. HIDE DEF ClientType
  <2>. QED
    BY <1>1, <2>1
<1>6. engine' \in Engines /\ exit' \in 0..3 /\ failures' \in BOOLEAN /\ (failures' => Stream /\ exit' # 0)
  BY <1>1, LoopFacts DEF Engines
<1>. QED
  BY <1>0, <1>1, <1>2, <1>4, <1>5, <1>6, SearchEnds

LEMMA AnswerStep == ASSUME IInv, Answer PROVE IInv'
<1>0. active # None /\ phase = "engine"
  BY DEF Answer
<1>1. PICK size \in Sizes, failed \in BOOLEAN, encoded \in BOOLEAN :
       /\ conn' = [conn EXCEPT ![active.client] = Enqueue(@, [release |-> active.id, size |-> size])]
       /\ exit' = IF failed THEN AtLeast(1) ELSE exit
       /\ Failure(failed)
       /\ engine' = Renewed(encoded)
  BY DEF Answer
<1>2. active' = None /\ phase' = "retire" /\ UNCHANGED <<at, budget, ring, last, stopping, connects, served>>
  BY DEF Answer, Pass
<1>3. PICK c \in Conns : c = active.client
  BY <1>0, ConsumerFacts
<1>. DEFINE p == [release |-> active.id, size |-> size]
            k == Enqueue(conn[c], p)
<1>4. conn' = [conn EXCEPT ![c] = k]
  BY <1>1, <1>3
<1>5. Good(k, {})
  <2>1. p \in Packet /\ p.release = active.id /\ active.id \in Ids
    BY <1>0, ConsumerFacts DEF Packet
  <2>2. Good(conn[c], {active.id}) /\ {active.id} \in SUBSET Ids
    BY <1>0, <1>3, ConsumerFacts
  <2>. HIDE DEF p
  <2>3. Good(k, {active.id} \ {p.release})
    BY <2>1, <2>2, EnqueueGood
  <2>4. {active.id} \ {p.release} = {}
    BY <2>1
  <2>. QED
    BY <2>3, <2>4
<1>6. engine' \in Engines
  BY <1>1, LoopFacts DEF Renewed, Engines
<1>7. exit' \in 0..3 /\ failures' \in BOOLEAN /\ (failures' => Stream /\ exit' # 0)
  <2>1. failures' = (failures \/ (Stream /\ failed))
    BY <1>1 DEF Failure
  <2>. QED
    BY <1>1, <2>1, AtLeastFacts, LoopFacts DEF IInv
<1>. HIDE DEF k
<1>. QED
  BY <1>0, <1>2, <1>3, <1>4, <1>5, <1>6, <1>7, SearchEnds

LEMMA EngineFailsStep == ASSUME IInv, EngineFails PROVE IInv'
<1>0. active # None /\ phase = "engine"
  BY DEF EngineFails
<1>1. /\ active' = None /\ engine' = "none" /\ phase' = "retire" /\ exit' = AtLeast(1)
      /\ failures' = (failures \/ Stream)
      /\ UNCHANGED <<at, budget, ring, last, stopping, connects, served>>
      /\ conn' = [conn EXCEPT ![active.client] = FailId(@, active.id)]
  BY DEF EngineFails, KillEngine, Pass, Failure
<1>2. PICK c \in Conns : c = active.client
  BY <1>0, ConsumerFacts
<1>. DEFINE k == FailId(conn[c], active.id)
<1>3. conn' = [conn EXCEPT ![c] = k]
  BY <1>1, <1>2
<1>4. Good(k, {})
  <2>1. Good(conn[c], {active.id}) /\ active.id \in Ids /\ {active.id} = {} \cup {active.id}
    BY <1>0, <1>2, ConsumerFacts
  <2>. QED
    BY <2>1, AnsweredGood
<1>5. engine' \in Engines /\ exit' \in 0..3 /\ failures' \in BOOLEAN /\ (failures' => Stream /\ exit' # 0)
  BY <1>1, AtLeastFacts, LoopFacts DEF Engines, IInv
<1>. HIDE DEF k
<1>. QED
  BY <1>0, <1>1, <1>2, <1>3, <1>4, <1>5, SearchEnds

-----------------------------------------------------------------------------
(* Clients leave, and the others keep their order.                         *)

LEMMA Interval == \A m \in Nat : IsFiniteSet(1..m) /\ Cardinality(1..m) = m
<1>. SUFFICES ASSUME NEW m \in Nat PROVE IsFiniteSet(1..m) /\ Cardinality(1..m) = m
  OBVIOUS
<1>1. 1 \in Int /\ m \in Int
  OBVIOUS
<1>2. IsFiniteSet(1..m) /\ Cardinality(1..m) = IF 1 > m THEN 0 ELSE m - 1 + 1
  BY <1>1, FS_Interval
<1>. QED
  BY <1>2

\* The keys up to `last_client` are the first ones.
LEMMA KeptLast ==
  ASSUME NEW n \in Nat, NEW kept \in [1..n -> Nat], NEW l \in Nat,
         \A i, j \in 1..n : i < j => kept[i] < kept[j]
  PROVE  LET first == {i \in 1..n : kept[i] <= l} IN
         /\ Cardinality(first) \in 0..n
         /\ \A i \in 1..n : i <= Cardinality(first) <=> kept[i] <= l
<1>. DEFINE first == {i \in 1..n : kept[i] <= l}
<1>1. \A m \in Nat : IsFiniteSet(1..m) /\ Cardinality(1..m) = m
  BY Interval
<1>2. IsFiniteSet(first) /\ Cardinality(first) \in Nat /\ Cardinality(first) <= n
  BY <1>1, FS_Subset, FS_CardinalityType
<1>3. ASSUME NEW i \in 1..n, kept[i] <= l PROVE i <= Cardinality(first)
  <2>1. 1..i \subseteq first
    <3>. SUFFICES ASSUME NEW j \in 1..i PROVE j \in first
      OBVIOUS
    <3>1. j \in 1..n /\ (j = i \/ j < i) /\ kept[j] \in Nat /\ kept[i] \in Nat
      OBVIOUS
    <3>2. kept[j] <= kept[i]
      BY <3>1
    <3>. QED
      BY <1>3, <3>1, <3>2
  <2>2. Cardinality(1..i) <= Cardinality(first)
    BY <1>2, <2>1, FS_Subset
  <2>. QED
    BY <1>1, <2>2
<1>4. ASSUME NEW i \in 1..n, ~(kept[i] <= l) PROVE ~(i <= Cardinality(first))
  <2>1. first \subseteq 1..i - 1
    <3>. SUFFICES ASSUME NEW j \in first, ~(j < i) PROVE FALSE
      OBVIOUS
    <3>1. j \in 1..n /\ (j = i \/ i < j) /\ kept[j] <= l /\ kept[j] \in Nat /\ kept[i] \in Nat
      OBVIOUS
    <3>2. kept[i] <= kept[j]
      BY <3>1
    <3>. QED
      BY <1>4, <3>1, <3>2
  <2>2. IsFiniteSet(1..i - 1) /\ Cardinality(1..i - 1) = i - 1
    <3>1. i - 1 \in Nat
      OBVIOUS
    <3>. QED
      BY <1>1, <3>1
  <2>3. Cardinality(first) <= i - 1
    BY <2>1, <2>2, FS_Subset
  <2>. QED
    BY <1>2, <2>3
<1>. HIDE DEF first
<1>5. Cardinality(first) \in 0..n
  BY <1>2
<1>6. \A i \in 1..n : i <= Cardinality(first) <=> kept[i] <= l
  BY <1>3, <1>4
<1>. QED
  BY <1>5, <1>6 DEF first

LEMMA RetireStep == ASSUME IInv, Retire PROVE IInv'
<1>. DEFINE staying == {i \in DOMAIN ring : Staying(ring[i])}
            n == Cardinality(staying)
<1>0. TypeOK /\ Ring /\ Consumer /\ Promises /\ Turns /\ phase = "retire"
  BY DEF IInv, Retire
<1>1. /\ ring \in Seq(Conns) /\ DOMAIN ring = 1..Len(ring) /\ Len(ring) \in Nat
      /\ last \in Nat
  BY <1>0, RingFacts, LoopFacts
<1>2. n \in Nat
  <2>1. IsFiniteSet(1..Len(ring))
    BY <1>1, Interval
  <2>2. staying \subseteq 1..Len(ring)
    BY <1>1
  <2>. QED
    BY <2>1, <2>2, FS_Subset, FS_CardinalityType
<1>3. PICK kept \in [1..n -> staying] :
         /\ ToSet(kept) = staying /\ \A i, j \in DOMAIN kept : i < j => kept[i] < kept[j]
         /\ ring' = [i \in DOMAIN kept |-> ring[kept[i]]]
         /\ last' = Cardinality({i \in DOMAIN kept : kept[i] <= last})
  BY Zenon DEF Retire
<1>4. /\ conn' = [c \in Conns |-> IF c \in Connected \ ToSet(ring')
                                  THEN [Fresh EXCEPT !.outstanding = conn[c].outstanding] ELSE conn[c]]
      /\ served' = [c \in Conns |-> IF c \in ToSet(ring') THEN served[c] \cap ToSet(ring') ELSE {}]
      /\ phase' = (IF Finished THEN "over" ELSE "dispatch") /\ UNCHANGED <<at, budget>>
      /\ engine' = IF phase' = "over" \/ (engine = "idle" /\ active = None /\ ~QueuedDense)
                   THEN "none" ELSE engine
      /\ UNCHANGED <<active, stopping, exit, connects, failures>>
  BY DEF Retire, Pass
<1>5. ToSet(ring') = Connected'
  BY DEF Connected
<1>. HIDE DEF n
<1>6. /\ DOMAIN kept = 1..n
      /\ \A i \in 1..n : kept[i] \in DOMAIN ring /\ kept[i] \in Nat /\ Staying(ring[kept[i]])
      /\ \A i, j \in 1..n : i < j => kept[i] < kept[j]
      /\ \A i \in DOMAIN ring : Staying(ring[i]) => \E j \in 1..n : kept[j] = i
  <2>1. DOMAIN kept = 1..n /\ \A i \in 1..n : kept[i] \in staying
    BY <1>3
  <2>2. \A i \in staying : \E j \in 1..n : kept[j] = i
    <3>1. \A i \in ToSet(kept) : \E j \in DOMAIN kept : kept[j] = i
      BY DEF ToSet
    <3>. QED
      BY <1>3, <2>1, <3>1
  <2>3. \A i, j \in 1..n : i < j => kept[i] < kept[j]
    BY <1>3, <2>1
  <2>. QED
    BY <1>1, <2>1, <2>2, <2>3
<1>. HIDE DEF staying
<1>7. /\ ring' \in Seq(Conns) /\ Len(ring') = n /\ DOMAIN ring' = 1..n
      /\ \A i \in 1..n : ring'[i] = ring[kept[i]]
  <2>1. ring' = [i \in 1..n |-> ring[kept[i]]]
    BY <1>3, <1>6
  <2>2. \A i \in 1..n : ring[kept[i]] \in Conns
    BY <1>1, <1>6
  <2>3. ring' \in [1..n -> Conns]
    BY <2>1, <2>2
  <2>. QED
    BY <1>2, <2>1, <2>3
<1>8. last' \in 0..n /\ \A i \in 1..n : i <= last' <=> kept[i] <= last
  <2>1. kept \in [1..n -> Nat]
    BY <1>3, <1>6
  <2>2. last' = Cardinality({i \in 1..n : kept[i] <= last})
    BY <1>3, <1>6
  <2>. QED
    BY <1>1, <1>2, <1>6, <2>1, <2>2, KeptLast
<1>9. ASSUME NEW i \in 1..n, NEW j \in 1..n
      PROVE  (i < j <=> kept[i] < kept[j]) /\ (kept[i] = kept[j] => i = j)
  <2>1. kept[i] \in Nat /\ kept[j] \in Nat /\ (i < j => kept[i] < kept[j]) /\ (j < i => kept[j] < kept[i])
    BY <1>6
  <2>2. i < j \/ i = j \/ j < i
    BY <1>2
  <2>. QED
    BY <1>2, <2>1, <2>2
\* Who is still connected, and where.
<1>10. /\ Connected' \subseteq Connected
       /\ \A c \in Connected : Staying(c) => c \in Connected'
       /\ \A c \in Connected' : \E i \in 1..n : ring[kept[i]] = c
  <2>1. Connected' = {ring'[i] : i \in 1..n}
    BY <1>5, <1>7 DEF ToSet
  <2>2. \A i \in 1..n : ring[kept[i]] \in Connected
    BY <1>0, <1>6, RingFacts
  <2>3. ASSUME NEW c \in Connected, Staying(c) PROVE c \in Connected'
    <3>1. PICK i \in DOMAIN ring : ring[i] = c
      BY <1>0, RingFacts
    <3>2. PICK j \in 1..n : kept[j] = i
      BY <1>6, <2>3, <3>1
    <3>. QED
      BY <1>7, <2>1, <3>1, <3>2
  <2>. QED
    BY <1>7, <2>1, <2>2, <2>3
<1>11. active # None => active.client \in Connected' /\ ~Finished
  <2>. SUFFICES ASSUME active # None PROVE active.client \in Connected' /\ ~Finished
    OBVIOUS
  <2>1. active.client \in Connected /\ ~conn[active.client].dead /\ stopping = "no"
    BY <1>0 DEF Consumer
  <2>2. Staying(active.client)
    BY <2>1 DEF Staying, Drained, ActiveIs
  <2>3. active.client \in Connected'
    BY <1>10, <2>1, <2>2
  <2>4. ring' # << >>
    BY <1>5, <2>3 DEF ToSet
  <2>5. Stream => ~Finished
    BY <2>1, <2>4 DEF Finished
  <2>. QED
    BY <2>1, <2>3, <2>4 DEF Finished
<1>12. TypeLoop'
  <2>1. phase' \in Phases /\ engine' \in Engines
    BY <1>4, LoopFacts DEF Phases, Engines
  <2>2. served' \in [Conns -> SUBSET Conns]
    <3>1. \A c \in Conns : served[c] \in SUBSET Conns
      BY LoopFacts
    <3>. QED
      BY <1>4, <3>1
  <2>3. /\ at' \in Nat \ {0} /\ budget' \in Nat /\ connects' \in Nat /\ failures' \in BOOLEAN
        /\ stopping' \in {"no", "draining", "late"} /\ active' \in {None} \cup Running
        /\ exit' \in 0..3 /\ last' \in 0..Len(ring')
    BY <1>4, <1>7, <1>8, LoopFacts
  <2>. QED
    BY <1>7, <2>1, <2>2, <2>3, Zenon DEF TypeLoop, Phases, Engines
<1>13. (conn \in [Conns -> ClientType])'
  <2>1. ASSUME NEW c \in Conns
        PROVE  conn[c] \in ClientType /\ [Fresh EXCEPT !.outstanding = conn[c].outstanding] \in ClientType
    <3>1. conn[c] \in ClientType /\ Fresh \in ClientType
      BY <1>0, FreshGood DEF TypeOK
    <3>2. conn[c].outstanding \in SUBSET Ids
      BY <3>1 DEF ClientType
    <3>. QED
      BY <3>1, <3>2 DEF ClientType
  <2>. HIDE DEF ClientType
  <2>. QED
    BY <1>4, <2>1
<1>14. Ring'
  <2>1. \A i, j \in 1..n : ring'[i] = ring'[j] => i = j
    <3>. SUFFICES ASSUME NEW i \in 1..n, NEW j \in 1..n, ring[kept[i]] = ring[kept[j]]
                  PROVE  i = j
      BY <1>7
    <3>1. kept[i] = kept[j]
      BY <1>0, <1>6 DEF Ring
    <3>. QED
      BY <1>9, <3>1
  <2>2. phase' \notin {"exchange", "parse"}
    BY <1>4
  <2>. QED
    BY <1>7, <2>1, <2>2 DEF Ring
<1>15. Consumer' /\ Told'
  <2>1. active # None => engine' = engine /\ phase' = "dispatch"
    BY <1>4, <1>11
  <2>2. Consumer'
    BY <1>0, <1>4, <1>11, <2>1 DEF Consumer
  <2>. QED
    BY <1>4, <2>2 DEF Told, IInv
<1>16. Promises'
  <2>1. ASSUME NEW c \in Connected' PROVE Good(conn[c], RunningFor(c))'
    <3>1. c \in Connected /\ c \in Conns
      BY <1>0, <1>10, RingFacts
    <3>2. conn'[c] = conn[c] /\ RunningFor(c)' = RunningFor(c)
      BY <1>4, <1>5, <3>1 DEF RunningFor, ActiveIs
    <3>3. Good(conn[c], RunningFor(c))
      BY <1>0, <3>1 DEF Promises
    <3>. QED
      BY <3>2, <3>3
  <2>. QED
    BY <2>1 DEF Promises
<1>17. Turns'
  <2>. SUFFICES ASSUME NEW d \in Conns, NEW e \in served'[d]
                PROVE  \E i, j \in DOMAIN ring' : ring'[i] = d /\ ring'[j] = e /\ Passed(i, j)'
    BY DEF Turns
  <2>1. d \in Connected' /\ e \in served[d] /\ e \in Connected'
    BY <1>4, <1>5
  <2>2. PICK i, j \in DOMAIN ring : ring[i] = d /\ ring[j] = e /\ Passed(i, j)
    BY <1>0, <2>1 DEF Turns
  <2>3. PICK k \in 1..n : ring[kept[k]] = d
    BY <1>10, <2>1
  <2>4. PICK l \in 1..n : ring[kept[l]] = e
    BY <1>10, <2>1
  <2>5. kept[k] = i /\ kept[l] = j
    BY <1>0, <1>6, <2>2, <2>3, <2>4 DEF Ring
  <2>6. Passed(kept[k], kept[l])
    BY <2>2, <2>5
  <2>7. Passed(k, l)'
    <3>1. k \in Nat /\ l \in Nat /\ last' \in Nat /\ kept[k] \in Nat /\ kept[l] \in Nat
      BY <1>2, <1>6, <1>8
    <3>2. /\ last' >= k <=> last >= kept[k]
          /\ l <= last' <=> kept[l] <= last
          /\ k < l <=> kept[k] < kept[l]
      BY <1>1, <1>8, <1>9, <3>1
    <3>. QED
      BY <2>6, <3>2 DEF Passed
  <2>. QED
    BY <1>7, <2>3, <2>4, <2>7
<1>. QED
  BY <1>12, <1>13, <1>14, <1>15, <1>16, <1>17 DEF IInv, TypeOK

-----------------------------------------------------------------------------
(* The next search.                                                        *)

\* Who was passed before stays so when the turn comes to i, the next client in
\* the ring that waits, as long as the passed one is itself waiting.
LEMMA TurnPasses ==
  ASSUME TypeOK, NEW i \in DOMAIN ring, NextInRing(i), NEW m \in DOMAIN ring, m # i, Waiting(ring[m])
  PROVE  /\ IF i >= m THEN m < i /\ i <= i ELSE m < i \/ i <= i
         /\ \A n \in DOMAIN ring : Passed(m, n) =>
              IF i >= m THEN m < n /\ n <= i ELSE m < n \/ n <= i
<1>1. i \in Nat /\ m \in Nat /\ last \in Nat /\ DOMAIN ring = 1..Len(ring) /\ Len(ring) \in Nat
  BY RingFacts DEF TypeOK, TypeLoop
<1>2. \/ i > last /\ (m <= last \/ m > i)
      \/ i <= last /\ m <= last /\ m > i
  <2>1. CASE i > last /\ \A j \in last + 1..i - 1 : ~Waiting(ring[j])
    <3>1. ~(m \in last + 1..i - 1)
      BY <2>1
    <3>. QED
      BY <1>1, <2>1, <3>1
  <2>2. CASE i <= last /\ \A j \in DOMAIN ring : j > last \/ j < i => ~Waiting(ring[j])
    <3>1. ~(m > last \/ m < i)
      BY <2>2
    <3>. QED
      BY <1>1, <2>2, <3>1
  <2>. QED
    BY <2>1, <2>2 DEF NextInRing
<1>3. ASSUME NEW n \in DOMAIN ring, Passed(m, n)
      PROVE  IF i >= m THEN m < n /\ n <= i ELSE m < n \/ n <= i
  BY <1>1, <1>2, <1>3 DEF Passed
<1>. QED
  BY <1>1, <1>3

LEMMA DispatchStep == ASSUME IInv, Dispatch PROVE IInv'
<1>0. /\ TypeOK /\ Ring /\ Promises /\ Turns /\ phase = "dispatch"
      /\ active = None /\ stopping = "no"
  BY DEF IInv, Dispatch, MayDispatch
<1>1. phase' = "signals" /\ UNCHANGED <<at, budget, ring, stopping, connects>>
  BY DEF Dispatch, Pass
<1>2. PICK i \in DOMAIN ring :
       LET c == ring[i]
           job == Head(conn[c].pending)
           k == [conn[c] EXCEPT !.pending = Tail(@)]
       IN /\ Waiting(c) /\ NextInRing(i)
          /\ last' = i
          /\ served' = [d \in Conns |-> IF d # c /\ d \in Connected /\ Waiting(d)
                                        THEN served[d] \cup {c} ELSE {}]
          /\ \/ /\ active' = [client |-> c, id |-> job.id, op |-> job.op]
                /\ engine' = IF engine = "none" THEN "used" ELSE engine
                /\ conn' = [conn EXCEPT ![c] = IF Metrics THEN Enqueue(k, Control(None)) ELSE k]
                /\ UNCHANGED <<exit, failures>>
             \/ /\ KillEngine
                /\ conn' = [conn EXCEPT ![c] = FailId(k, job.id)]
                /\ exit' = AtLeast(1) /\ Failure(TRUE)
  BY Zenon DEF Dispatch
<1>3. PICK c : c = ring[i]
  OBVIOUS
<1>4. c \in Conns /\ c \in Connected
  BY <1>0, <1>3, RingFacts
<1>. DEFINE job == Head(conn[c].pending)
            k == [conn[c] EXCEPT !.pending = Tail(@)]
<1>5. /\ Waiting(c) /\ NextInRing(i) /\ last' = i
      /\ served' = [d \in Conns |-> IF d # c /\ d \in Connected /\ Waiting(d)
                                    THEN served[d] \cup {c} ELSE {}]
      /\ \/ /\ active' = [client |-> c, id |-> job.id, op |-> job.op]
            /\ engine' = IF engine = "none" THEN "used" ELSE engine
            /\ conn' = [conn EXCEPT ![c] = IF Metrics THEN Enqueue(k, Control(None)) ELSE k]
            /\ UNCHANGED <<exit, failures>>
         \/ /\ KillEngine
            /\ conn' = [conn EXCEPT ![c] = FailId(k, job.id)]
            /\ exit' = AtLeast(1) /\ Failure(TRUE)
  BY <1>2, <1>3
<1>6. \A d : RunningFor(d) = {}
  BY <1>0 DEF RunningFor, ActiveIs
<1>7. job \in Job /\ job.id \in Ids /\ Good(k, {job.id})
  <2>1. Good(conn[c], {}) /\ conn[c].pending # << >>
    BY <1>0, <1>4, <1>5, <1>6 DEF Promises, Waiting
  <2>2. job \in Job /\ job.id \in Ids /\ Good(k, {} \cup {job.id})
    <3>. DEFINE q == conn[c]
                m == [q EXCEPT !.pending = Tail(@)]
    <3>1. Good(q, {}) /\ q.pending # << >> /\ {} \in SUBSET Ids
      BY <2>1
    <3>. HIDE DEF q
    <3>2. Head(q.pending) \in Job /\ Head(q.pending).id \in Ids \ {} /\ Good(m, {} \cup {Head(q.pending).id})
      BY <3>1, NextSearchGood
    <3>. QED
      BY <3>2 DEF q
  <2>. QED
    BY <2>2
<1>. HIDE DEF job, k
\* What the step does with the client and with the engine.
<1>8. \E l : /\ conn' = [conn EXCEPT ![c] = l] /\ Good(l, RunningFor(c)')
             /\ \A d \in Conns \ {c} : RunningFor(d)' = {}
             /\ engine' \in Engines
             /\ \/ active' = None
                \/ active' \in Running /\ active'.client = c /\ engine' # "none"
             /\ exit' \in 0..3 /\ failures' \in BOOLEAN /\ (failures' => Stream /\ exit' # 0)
  <2>1. CASE /\ active' = [client |-> c, id |-> job.id, op |-> job.op]
             /\ engine' = IF engine = "none" THEN "used" ELSE engine
             /\ conn' = [conn EXCEPT ![c] = IF Metrics THEN Enqueue(k, Control(None)) ELSE k]
             /\ UNCHANGED <<exit, failures>>
    <3>. DEFINE l == IF Metrics THEN Enqueue(k, Control(None)) ELSE k
    <3>1. active' \in Running /\ active'.client = c /\ active'.id = job.id
      <4>1. job.op \in Kinds
        BY <1>7 DEF Job
      <4>. QED
        BY <1>4, <1>7, <2>1, <4>1 DEF Running
    <3>2. active' # None
      BY <3>1, RunningIsNotNone
    <3>3. RunningFor(c)' = {job.id} /\ \A d \in Conns \ {c} : RunningFor(d)' = {}
      BY <3>1, <3>2 DEF RunningFor, ActiveIs
    <3>4. Good(l, {job.id})
      <4>1. Control(None) \in Packet /\ Control(None).release = None
        BY ControlPacket
      <4>2. Good(Enqueue(k, Control(None)), {job.id} \ {None})
        BY <1>7, <4>1, EnqueueGood
      <4>3. {job.id} \ {None} = {job.id}
        BY <1>7, NoneIsNoId
      <4>. QED
        BY <1>7, <4>2, <4>3
    <3>5. engine' \in Engines /\ engine' # "none"
      BY <2>1, LoopFacts DEF Engines
    <3>6. exit' \in 0..3 /\ failures' \in BOOLEAN /\ (failures' => Stream /\ exit' # 0)
      BY <2>1, LoopFacts
    <3>7. conn' = [conn EXCEPT ![c] = l] /\ Good(l, RunningFor(c)')
      BY <2>1, <3>3, <3>4
    <3>. HIDE DEF l
    <3>. QED
      BY <3>1, <3>3, <3>5, <3>6, <3>7
  <2>2. CASE /\ KillEngine
             /\ conn' = [conn EXCEPT ![c] = FailId(k, job.id)]
             /\ exit' = AtLeast(1) /\ Failure(TRUE)
    <3>. DEFINE l == FailId(k, job.id)
    <3>1. active' = None /\ engine' \in Engines
      BY <2>2 DEF KillEngine, Engines
    <3>2. \A d : RunningFor(d)' = {}
      BY <3>1 DEF RunningFor, ActiveIs
    <3>3. Good(l, {})
      <4>1. {job.id} = {} \cup {job.id}
        OBVIOUS
      <4>. QED
        BY <1>7, <4>1, AnsweredGood
    <3>4. exit' \in 0..3 /\ failures' \in BOOLEAN /\ (failures' => Stream /\ exit' # 0)
      BY <1>0, <2>2, AtLeastFacts, LoopFacts DEF Failure
    <3>5. conn' = [conn EXCEPT ![c] = l] /\ Good(l, RunningFor(c)')
      BY <2>2, <3>2, <3>3
    <3>. HIDE DEF l
    <3>. QED
      BY <3>1, <3>2, <3>4, <3>5
  <2>. QED
    BY <1>5, <2>1, <2>2
<1>9. PICK l : /\ conn' = [conn EXCEPT ![c] = l] /\ Good(l, RunningFor(c)')
               /\ \A d \in Conns \ {c} : RunningFor(d)' = {}
               /\ engine' \in Engines
               /\ \/ active' = None
                  \/ active' \in Running /\ active'.client = c /\ engine' # "none"
               /\ exit' \in 0..3 /\ failures' \in BOOLEAN /\ (failures' => Stream /\ exit' # 0)
  BY <1>8
<1>10. Promises' /\ conn' \in [Conns -> ClientType]
  <2>1. phase # "over" /\ ring' = ring /\ l \in ClientType
    BY <1>0, <1>1, <1>9 DEF Good
  <2>2. \A d \in Conns \ {c} : RunningFor(d)' = RunningFor(d)
    BY <1>6, <1>9
  <2>. QED
    BY <1>0, <1>4, <1>9, <2>1, <2>2, OneClient
<1>11. TypeLoop'
  <2>1. ring' \in Seq(Conns) /\ last' \in 0..Len(ring')
    <3>1. i \in 0..Len(ring)
      BY <1>0, RingFacts
    <3>. QED
      BY <1>0, <1>1, <1>5, <3>1, RingFacts
  <2>2. served' \in [Conns -> SUBSET Conns]
    <3>1. \A d \in Conns : served[d] \in SUBSET Conns
      BY LoopFacts
    <3>. QED
      BY <1>4, <1>5, <3>1
  <2>3. /\ phase' \in Phases /\ at' \in Nat \ {0} /\ budget' \in Nat /\ connects' \in Nat
        /\ stopping' \in {"no", "draining", "late"} /\ active' \in {None} \cup Running
    BY <1>1, <1>9, LoopFacts DEF Phases
  <2>. QED
    BY <1>9, <2>1, <2>2, <2>3, Zenon DEF TypeLoop, Phases, Engines
<1>12. Ring' /\ Told'
  BY <1>0, <1>1, <1>9 DEF Ring, Told
<1>13. Consumer'
  BY <1>0, <1>1, <1>4, <1>9 DEF Consumer, Connected
<1>14. Turns'
  <2>. SUFFICES ASSUME NEW d \in Conns, NEW e \in served'[d]
                PROVE  \E m, n \in DOMAIN ring : ring[m] = d /\ ring[n] = e /\ Passed(m, n)'
    BY <1>1 DEF Turns
  <2>1. d # c /\ d \in Connected /\ Waiting(d) /\ (e = c \/ e \in served[d])
    BY <1>5
  <2>2. PICK m \in DOMAIN ring : ring[m] = d
    BY <1>0, <2>1, RingFacts
  <2>3. m # i /\ Waiting(ring[m])
    BY <1>3, <2>1, <2>2
  <2>4. /\ IF i >= m THEN m < i /\ i <= i ELSE m < i \/ i <= i
        /\ \A n \in DOMAIN ring : Passed(m, n) =>
             IF i >= m THEN m < n /\ n <= i ELSE m < n \/ n <= i
    BY <1>0, <1>5, <2>3, TurnPasses
  <2>5. CASE e = c
    <3>1. Passed(m, i)'
      BY <1>5, <2>4 DEF Passed
    <3>. QED
      BY <1>3, <2>2, <2>5, <3>1
  <2>6. CASE e \in served[d]
    <3>1. PICK a, n \in DOMAIN ring : ring[a] = d /\ ring[n] = e /\ Passed(a, n)
      BY <1>0, <2>6 DEF Turns
    <3>2. a = m
      BY <1>0, <2>2, <3>1 DEF Ring
    <3>3. Passed(m, n)'
      BY <1>5, <2>4, <3>1, <3>2 DEF Passed
    <3>. QED
      BY <2>2, <3>1, <3>3
  <2>. QED
    BY <2>1, <2>5, <2>6
<1>. QED
  BY <1>9, <1>10, <1>11, <1>12, <1>13, <1>14 DEF IInv, TypeOK

-----------------------------------------------------------------------------
(* The invariant, and what it shows.                                       *)

LEMMA Inductive == IInv /\ [Next]_vars => IInv'
<1>. SUFFICES ASSUME IInv, [Next]_vars PROVE IInv'
  OBVIOUS
<1>1. CASE Turn
  <2>1. CASE NoSignal
    BY <2>1, NoSignalStep
  <2>2. CASE Accepted
    BY <2>2, AcceptedStep
  <2>3. CASE Exchange
    BY <2>3, ExchangeStep
  <2>4. CASE HoldBack
    BY <2>4, HoldBackStep
  <2>5. CASE RefuseFrame
    BY <2>5, RefuseFrameStep
  <2>6. CASE RefuseRequest
    BY <2>6, RefuseRequestStep
  <2>7. CASE QueueSearch
    BY <2>7, QueueSearchStep
  <2>8. CASE Cancel
    BY <2>8, CancelStep
  <2>9. CASE TurnEnds
    BY <2>9, TurnEndsStep
  <2>10. CASE Bound
    BY <2>10, BoundStep
  <2>11. CASE Abandon
    BY <2>11, AbandonStep
  <2>12. CASE Answer
    BY <2>12, AnswerStep
  <2>13. CASE EngineFails
    BY <2>13, EngineFailsStep
  <2>14. CASE NoAnswer
    BY <2>14, NoAnswerStep
  <2>15. CASE Retire
    BY <2>15, RetireStep
  <2>16. CASE Dispatch
    BY <2>16, DispatchStep
  <2>17. CASE NoDispatch
    BY <2>17, NoDispatchStep
  <2>. QED
    BY <1>1, <2>1, <2>2, <2>3, <2>4, <2>5, <2>6, <2>7, <2>8, <2>9, <2>10, <2>11, <2>12, <2>13,
       <2>14, <2>15, <2>16, <2>17 DEF Turn
<1>2. CASE StopSignal
  BY <1>2, StopSignalStep
<1>3. CASE \E c \in Conns : Accept(c)
  BY <1>3, AcceptStep
<1>4. CASE AcceptFails
  BY <1>4, AcceptFailsStep
<1>5. CASE GoesIdle
  BY <1>5, GoesIdleStep
<1>6. CASE StopsLate
  BY <1>6, StopsLateStep
<1>7. CASE Over
  BY <1>7, Untouched DEF Over
<1>8. CASE UNCHANGED vars
  BY <1>8, Untouched
<1>. QED
  BY <1>1, <1>2, <1>3, <1>4, <1>5, <1>6, <1>7, <1>8 DEF Next

\* The supervisor keeps its invariant: every client's promises have a place,
\* the running search has an engine and a consumer, and turns are kept.
THEOREM SupervisorInvariant == Spec => []IInv
<1>. QED
  BY Initially, Inductive, PTL DEF Spec

\* The engine of `serve` never works for a client that is gone, and a search
\* that runs has an engine.
THEOREM EngineServesSomebody == Spec => []EngineHasConsumer
<1>1. IInv => EngineHasConsumer
  BY DEF IInv, Consumer, EngineHasConsumer
<1>. QED
  BY <1>1, SupervisorInvariant, PTL

\* No failure of a stream is answered without a trace in the exit code.
THEOREM TellsFailures == Spec => []FailuresAreTold
<1>1. IInv => FailuresAreTold
  BY DEF IInv, Told, FailuresAreTold
<1>. QED
  BY <1>1, SupervisorInvariant, PTL

\* An id that was promised an answer is in one place: its queue, the engine, or
\* a packet of the output.
LEMMA OnePlace ==
  ASSUME IInv, NEW c \in Connected, phase # "over", ~conn[c].dead
  PROVE  /\ {o.id : o \in Owed(c)} = conn[c].outstanding
         /\ \A o, other \in Owed(c) : o.id = other.id => o = other
<1>. DEFINE k == conn[c]
            R == RunningFor(c)
            Q == {[place |-> "queue", at |-> i, id |-> k.pending[i].id] : i \in DOMAIN k.pending}
            E == IF ActiveIs(c) THEN {[place |-> "engine", at |-> 0, id |-> active.id]} ELSE {}
            O == {[place |-> "output", at |-> i, id |-> k.output[i].release] :
                    i \in {j \in DOMAIN k.output : k.output[j].release # None}}
<1>1. Good(k, R) /\ ~k.dead
  BY DEF IInv, Promises
<1>2. Owed(c) = Q \cup E \cup O
  BY DEF Owed
<1>3. /\ \A id : id \in Queued(k.pending) <=> \E o \in Q : o.id = id
      /\ \A o, p \in Q : o.id = p.id => o = p
  <2>1. \A o, p \in Q : o.id = p.id => o = p
    BY <1>1 DEF Good, QueuedOnce
  <2>2. ASSUME NEW id \in Queued(k.pending) PROVE \E o \in Q : o.id = id
    <3>1. PICK i \in DOMAIN k.pending : id = k.pending[i].id
      BY DEF Queued
    <3>. DEFINE o == [place |-> "queue", at |-> i, id |-> k.pending[i].id]
    <3>2. o \in Q /\ o.id = id
      BY <3>1
    <3>. HIDE DEF o, Q
    <3>. QED
      BY <3>2
  <2>3. ASSUME NEW o \in Q PROVE o.id \in Queued(k.pending)
    BY DEF Queued
  <2>. QED
    BY <2>1, <2>2, <2>3
<1>4. /\ \A id : id \in R <=> \E o \in E : o.id = id
      /\ \A o, p \in E : o = p
  <2>1. CASE ActiveIs(c)
    <3>. DEFINE o == [place |-> "engine", at |-> 0, id |-> active.id]
    <3>1. E = {o} /\ R = {active.id} /\ o.id = active.id
      BY <2>1 DEF RunningFor
    <3>. HIDE DEF o, E, R
    <3>. QED
      BY <3>1
  <2>2. CASE ~ActiveIs(c)
    BY <2>2 DEF RunningFor
  <2>. QED
    BY <2>1, <2>2
<1>5. /\ \A id : id \in Answered(k.output) <=> \E o \in O : o.id = id
      /\ \A o, p \in O : o.id = p.id => o = p
  <2>1. \A o, p \in O : o.id = p.id => o = p
    BY <1>1 DEF Good, AnsweredOnce
  <2>2. ASSUME NEW id \in Answered(k.output) PROVE \E o \in O : o.id = id
    <3>1. PICK i \in DOMAIN k.output : id = k.output[i].release /\ k.output[i].release # None
      BY DEF Answered
    <3>. DEFINE o == [place |-> "output", at |-> i, id |-> k.output[i].release]
    <3>2. o \in O /\ o.id = id
      BY <3>1
    <3>. HIDE DEF o, O
    <3>. QED
      BY <3>2
  <2>3. ASSUME NEW o \in O PROVE o.id \in Answered(k.output)
    BY DEF Answered
  <2>. QED
    BY <2>1, <2>2, <2>3
<1>. HIDE DEF Q, E, O, k, R
<1>6. /\ R \cup Queued(k.pending) \cup Answered(k.output) = k.outstanding
      /\ R \cap Queued(k.pending) = {} /\ R \cap Answered(k.output) = {}
      /\ Queued(k.pending) \cap Answered(k.output) = {}
  BY <1>1 DEF Good
<1>7. {o.id : o \in Owed(c)} = k.outstanding
  <2>1. ASSUME NEW o \in Owed(c) PROVE o.id \in k.outstanding
    BY <1>2, <1>3, <1>4, <1>5, <1>6
  <2>2. ASSUME NEW id \in k.outstanding PROVE \E o \in Owed(c) : o.id = id
    BY <1>2, <1>3, <1>4, <1>5, <1>6
  <2>. QED
    BY <2>1, <2>2
<1>8. ASSUME NEW o \in Owed(c), NEW other \in Owed(c), o.id = other.id PROVE o = other
  <2>1. /\ \A p \in Q : p.id \in Queued(k.pending)
        /\ \A p \in E : p.id \in R
        /\ \A p \in O : p.id \in Answered(k.output)
    BY <1>3, <1>4, <1>5
  <2>2. \/ o \in Q /\ other \in Q
        \/ o \in E /\ other \in E
        \/ o \in O /\ other \in O
    BY <1>2, <1>6, <1>8, <2>1
  <2>. QED
    BY <1>3, <1>4, <1>5, <1>8, <2>2
<1>. QED
  BY <1>7, <1>8 DEF k

\* Every request a client was promised an answer for gets one terminal answer,
\* whatever cancellation, engine failure, deadline or shutdown meets it.
THEOREM OneTerminalAnswer == Spec => []OneAnswerEach
<1>1. IInv => OneAnswerEach
  BY OnePlace DEF OneAnswerEach
<1>. QED
  BY <1>1, SupervisorInvariant, PTL

\* A client is not served again before another one that has been waiting since.
LEMMA NextIsNotServed ==
  ASSUME IInv, NEW i \in DOMAIN ring, NextInRing(i), NEW d \in Connected, d # ring[i], Waiting(d)
  PROVE  ring[i] \notin served[d]
<1>. SUFFICES ASSUME ring[i] \in served[d] PROVE FALSE
  OBVIOUS
<1>0. TypeOK /\ Ring /\ Turns
  BY DEF IInv
<1>1. d \in Conns
  BY <1>0, RingFacts
<1>2. PICK m, n \in DOMAIN ring : ring[m] = d /\ ring[n] = ring[i] /\ Passed(m, n)
  BY <1>0, <1>1 DEF Turns
<1>3. n = i /\ m # i
  BY <1>0, <1>2 DEF Ring
<1>4. i \in Nat /\ m \in Nat /\ last \in Nat /\ DOMAIN ring = 1..Len(ring) /\ Len(ring) \in Nat
  BY <1>0, RingFacts, LoopFacts
<1>5. CASE i > last /\ \A j \in last + 1..i - 1 : ~Waiting(ring[j])
  <2>1. ~(m \in last + 1..i - 1)
    BY <1>2, <1>5
  <2>. QED
    BY <1>2, <1>3, <1>4, <1>5, <2>1 DEF Passed
<1>6. CASE i <= last /\ \A j \in DOMAIN ring : j > last \/ j < i => ~Waiting(ring[j])
  <2>1. ~(m > last \/ m < i)
    BY <1>2, <1>6
  <2>. QED
    BY <1>2, <1>3, <1>4, <1>6, <2>1 DEF Passed
<1>. QED
  BY <1>5, <1>6 DEF NextInRing

\* What is dispatched is the search of the client whose turn it is: only its
\* queue gets shorter.
LEMMA OneIsServed ==
  ASSUME IInv, Dispatch, NEW c \in Connected, Len(conn'[c].pending) < Len(conn[c].pending)
  PROVE  \E i \in DOMAIN ring : c = ring[i] /\ NextInRing(i)
<1>0. TypeOK /\ conn \in [Conns -> ClientType] /\ c \in Conns
  BY RingFacts DEF IInv, TypeOK
<1>1. PICK i \in DOMAIN ring : /\ NextInRing(i)
                               /\ \E l : conn' = [conn EXCEPT ![ring[i]] = l]
  BY Zenon DEF Dispatch
<1>2. c # ring[i] => conn'[c] = conn[c]
  BY <1>0, <1>1
<1>3. Len(conn[c].pending) \in Nat
  <2>1. conn[c] \in ClientType
    BY <1>0
  <2>2. conn[c].pending \in Seq(Job)
    BY <2>1 DEF ClientType
  <2>. QED
    BY <2>2
<1>4. c = ring[i]
  BY <1>2, <1>3
<1>. QED
  BY <1>1, <1>4

\* Whoever waits with a search, no other connection is served twice before:
\* `min_by_key` over the ring, whatever clients come, go, and stop to wait.
THEOREM TakesTurns == Spec => ConnectionsTakeTurns
<1>. DEFINE Step == phase = "dispatch" =>
              \A c, d \in Connected :
                Len(conn'[c].pending) < Len(conn[c].pending) /\ c # d /\ Waiting(d) => c \notin served[d]
<1>1. ASSUME IInv, [Next]_vars PROVE [Step]_vars
  <2>. SUFFICES ASSUME phase = "dispatch", NEW c \in Connected, NEW d \in Connected,
                       Len(conn'[c].pending) < Len(conn[c].pending), c # d, Waiting(d)
                PROVE  c \notin served[d]
    OBVIOUS
  <2>1. Dispatch \/ conn' = conn
    <3>1. [Next]_vars
      BY <1>1
    <3>2. CASE Turn
      BY <3>2 DEF Turn, NoSignal, Accepted, Exchange, HoldBack, RefuseFrame, RefuseRequest,
                  QueueSearch, Cancel, TurnEnds, Bound, Abandon, Answer, EngineFails, NoAnswer,
                  Retire, NoDispatch, Parsing, Admitted
    <3>3. CASE StopSignal \/ (\E x \in Conns : Accept(x)) \/ AcceptFails \/ GoesIdle \/ StopsLate \/ Over
      BY <3>3 DEF StopSignal, Accept, AcceptFails, GoesIdle, StopsLate, Over, vars
    <3>4. CASE UNCHANGED vars
      BY <3>4 DEF vars
    <3>. QED
      BY <3>1, <3>2, <3>3, <3>4 DEF Next
  <2>2. Len(conn[c].pending) \in Nat
    <3>1. conn \in [Conns -> ClientType] /\ c \in Conns
      BY <1>1, RingFacts DEF IInv, TypeOK
    <3>2. conn[c].pending \in Seq(Job)
      BY <3>1 DEF ClientType
    <3>. QED
      BY <3>2
  <2>3. Dispatch
    BY <2>1, <2>2
  <2>4. PICK i \in DOMAIN ring : c = ring[i] /\ NextInRing(i)
    BY <1>1, <2>3, OneIsServed
  <2>. QED
    BY <1>1, <2>4, NextIsNotServed
<1>2. IInv /\ [Next]_vars => [Step]_vars
  BY <1>1
<1>. QED
  BY <1>2, SupervisorInvariant, PTL DEF Spec, ConnectionsTakeTurns

-----------------------------------------------------------------------------
(* What a client holds: its output is counted right and bounded, and so is *)
(* its queue.                                                              *)

Held(k) ==
  /\ k \in ClientType
  /\ k.output_bytes \in 0..MaxResponse /\ k.output_bytes = SizeOf(k.output)
  /\ Len(k.pending) <= QueuePerClient

\* What is not counted may change.
LEMMA SameHeld ==
  ASSUME NEW k, NEW l \in ClientType, Held(k),
         l.output = k.output, l.output_bytes = k.output_bytes, l.pending = k.pending
  PROVE  Held(l)
<1>. HIDE DEF ClientType
<1>. QED
  BY DEF Held

LEMMA DeadHeld ==
  ASSUME NEW k, Held(k)
  PROVE  Held([k EXCEPT !.dead = TRUE])
<1>. DEFINE l == [k EXCEPT !.dead = TRUE]
<1>1. /\ l \in ClientType /\ l.output = k.output /\ l.output_bytes = k.output_bytes
      /\ l.pending = k.pending
  BY DEF Held, ClientType
<1>. HIDE DEF l
<1>2. Held(l)
  BY <1>1, SameHeld
<1>. QED
  BY <1>2 DEF l

LEMMA FreshHeld ==
  \A ids \in SUBSET Ids : Held([Fresh EXCEPT !.outstanding = ids]) /\ Held(Fresh)
<1>. SUFFICES ASSUME NEW ids \in SUBSET Ids
              PROVE  Held([Fresh EXCEPT !.outstanding = ids]) /\ Held(Fresh)
  OBVIOUS
<1>1. /\ Fresh \in ClientType /\ Fresh.output = << >> /\ Fresh.output_bytes = 0
      /\ Fresh.pending = << >>
  BY FreshGood DEF Fresh
<1>2. Len(<< >>) = 0 /\ 0 \in 0..MaxResponse /\ 0 <= QueuePerClient
  OBVIOUS
<1>3. Held(Fresh)
  <2>. HIDE DEF ClientType
  <2>. QED
    BY <1>1, <1>2, SizeOfNothing DEF Held
<1>. DEFINE l == [Fresh EXCEPT !.outstanding = ids]
<1>4. /\ l \in ClientType /\ l.output = Fresh.output /\ l.output_bytes = Fresh.output_bytes
      /\ l.pending = Fresh.pending
  BY <1>1 DEF ClientType
<1>. HIDE DEF l
<1>5. Held(l)
  BY <1>3, <1>4, SameHeld
<1>. QED
  BY <1>3, <1>5 DEF l

LEMMA EnqueueHeld ==
  ASSUME NEW k, Held(k), NEW p \in Packet
  PROVE  /\ Held(Enqueue(k, p)) /\ Enqueue(k, p).output_bytes <= k.output_bytes + p.size
         /\ Enqueue(k, p).pending = k.pending
<1>0. /\ k \in ClientType /\ k.output \in Seq(Packet) /\ k.output_bytes \in Nat
      /\ p.size \in 1..MaxResponse /\ p.size \in Nat
  BY DEF Held, ClientType, Packet
<1>1. CASE k.output_bytes + p.size > MaxResponse
  <2>. DEFINE l == [k EXCEPT !.dead = TRUE]
  <2>1. Enqueue(k, p) = l
    BY <1>1 DEF Enqueue
  <2>2. Held(l)
    BY DeadHeld
  <2>3. l.output_bytes = k.output_bytes /\ l.pending = k.pending
    BY <1>0 DEF ClientType
  <2>. HIDE DEF l
  <2>. QED
    BY <1>0, <2>1, <2>2, <2>3
<1>2. CASE ~(k.output_bytes + p.size > MaxResponse)
  <2>. DEFINE l == [k EXCEPT !.output = Append(@, p), !.output_bytes = @ + p.size]
  <2>1. Enqueue(k, p) = l
    BY <1>2 DEF Enqueue
  <2>2. Append(k.output, p) \in Seq(Packet) /\ k.output_bytes + p.size \in Int
    BY <1>0, AppendAt
  <2>3. /\ l \in ClientType /\ l.pending = k.pending
        /\ l.output = Append(k.output, p) /\ l.output_bytes = k.output_bytes + p.size
    BY <1>0, <2>2 DEF ClientType
  <2>4. SizeOf(l.output) = SizeOf(k.output) + p.size
    BY <1>0, <2>3, SizeOfAppend
  <2>5. k.output_bytes + p.size \in 0..MaxResponse
    BY <1>0, <1>2
  <2>. HIDE DEF l, ClientType
  <2>6. Held(l)
    BY <2>3, <2>4, <2>5 DEF Held
  <2>. QED
    BY <1>0, <2>1, <2>3, <2>6
<1>. QED
  BY <1>1, <1>2

LEMMA FailIdHeld ==
  ASSUME NEW k, Held(k), NEW id \in Ids \cup {None}
  PROVE  /\ Held(FailId(k, id)) /\ FailId(k, id).pending = k.pending
         /\ Held(Enqueue(k, Control(id)))
<1>1. Control(id) \in Packet
  BY ControlPacket
<1>. QED
  BY <1>1, EnqueueHeld DEF FailId

LEMMA FrameErrorHeld ==
  ASSUME NEW k, Held(k)
  PROVE  Held(FrameError(k))
<1>. DEFINE a == [k EXCEPT !.framing = TRUE]
            b == FailId(a, None)
            c == [b EXCEPT !.eof = TRUE, !.input = << >>]
<1>1. /\ a \in ClientType /\ a.output = k.output /\ a.output_bytes = k.output_bytes
      /\ a.pending = k.pending
  BY DEF Held, ClientType
<1>. HIDE DEF a
<1>2. Held(a)
  BY <1>1, SameHeld
<1>3. Held(b)
  BY <1>2, FailIdHeld
<1>. HIDE DEF b
<1>4. << >> \in Seq(Frame)
  OBVIOUS
<1>5. /\ c \in ClientType /\ c.output = b.output /\ c.output_bytes = b.output_bytes
      /\ c.pending = b.pending
  BY <1>3, <1>4 DEF Held, ClientType
<1>. HIDE DEF c
<1>6. Held(c)
  BY <1>3, <1>5, SameHeld
<1>7. FrameError(k) = c
  BY DEF FrameError, a, b, c
<1>. QED
  BY <1>6, <1>7

LEMMA FlushedHeld ==
  ASSUME NEW k, Held(k), k.output # << >>
  PROVE  Held(Flushed(k))
<1>. DEFINE h == Head(k.output)
            l == [k EXCEPT !.output = Tail(@), !.output_bytes = @ - h.size,
                           !.outstanding = @ \ {h.release}]
<1>0. k \in ClientType /\ k.output \in Seq(Packet)
  BY DEF Held, ClientType
<1>1. h \in Packet /\ Tail(k.output) \in Seq(Packet)
  BY <1>0, TailAt
<1>2. h.size \in 1..MaxResponse
  BY <1>1 DEF Packet
<1>3. /\ SizeOf(Tail(k.output)) = SizeOf(k.output) - h.size
      /\ SizeOf(k.output) \in Nat /\ SizeOf(Tail(k.output)) \in Nat
  BY <1>0, SizeOfTail
<1>. HIDE DEF h
<1>4. k.output_bytes - h.size \in Int /\ k.outstanding \ {h.release} \in SUBSET Ids
  BY <1>0, <1>2 DEF ClientType
<1>5. /\ l \in ClientType /\ l.pending = k.pending
      /\ l.output = Tail(k.output) /\ l.output_bytes = k.output_bytes - h.size
  BY <1>0, <1>1, <1>4 DEF ClientType
<1>6. Flushed(k) = l
  BY DEF Flushed, h
<1>. HIDE DEF l, ClientType
<1>7. l.output_bytes = SizeOf(l.output) /\ l.output_bytes \in 0..MaxResponse
  <2>1. k.output_bytes = SizeOf(k.output) /\ k.output_bytes \in 0..MaxResponse
    BY DEF Held
  <2>2. l.output_bytes = SizeOf(l.output)
    BY <1>3, <1>5, <2>1
  <2>3. l.output_bytes \in Nat /\ l.output_bytes <= MaxResponse
    BY <1>2, <1>3, <1>5, <2>1
  <2>. QED
    BY <2>2, <2>3
<1>8. Held(l)
  BY <1>5, <1>7 DEF Held
<1>. QED
  BY <1>6, <1>8

LEMMA WrittenHeld ==
  ASSUME NEW k, Held(k), NEW w \in Written(k)
  PROVE  Held(w)
<1>1. w = k \/ (k.output # << >> /\ (w = Flushed(k) \/ w = [k EXCEPT !.dead = TRUE]))
  BY DEF Written
<1>. QED
  BY <1>1, FlushedHeld, DeadHeld

LEMMA ReceivedHeld ==
  ASSUME NEW k, Held(k), NEW l \in Received(k)
  PROVE  Held(l)
<1>. DEFINE open == [k EXCEPT !.blocked = @ /\ Len(k.pending) >= QueuePerClient]
<1>1. /\ open \in ClientType /\ open.pending = k.pending /\ open.output = k.output
      /\ open.output_bytes = k.output_bytes
  BY DEF Held, ClientType
<1>. HIDE DEF open
<1>2. Held(open) /\ open \in ClientType
  BY <1>1, SameHeld
<1>3. Held([open EXCEPT !.eof = TRUE])
  <2>. DEFINE m == [open EXCEPT !.eof = TRUE]
  <2>1. /\ m \in ClientType /\ m.pending = open.pending /\ m.output = open.output
        /\ m.output_bytes = open.output_bytes
    BY <1>2 DEF ClientType
  <2>. HIDE DEF m
  <2>2. Held(m)
    BY <1>2, <2>1, SameHeld
  <2>. QED
    BY <2>2 DEF m
<1>4. ASSUME NEW b \in Bursts PROVE Held([open EXCEPT !.input = b])
  <2>. DEFINE m == [open EXCEPT !.input = b]
  <2>0. b \in Seq(Frame)
    BY BurstsAreFrames
  <2>1. /\ m \in ClientType /\ m.pending = open.pending /\ m.output = open.output
        /\ m.output_bytes = open.output_bytes
    BY <1>2, <2>0 DEF ClientType
  <2>. HIDE DEF m
  <2>2. Held(m)
    BY <1>2, <2>1, SameHeld
  <2>. QED
    BY <2>2 DEF m
<1>5. \/ l \in {open, [open EXCEPT !.dead = TRUE], [open EXCEPT !.eof = TRUE], FrameError(open)}
      \/ \E b \in Bursts : l = [open EXCEPT !.input = b]
  BY DEF Received, open
<1>. QED
  BY <1>2, <1>3, <1>4, <1>5, DeadHeld, FrameErrorHeld

\* A queue that does not grow.
LEMMA QueueHeld ==
  ASSUME NEW k, Held(k), NEW q \in Seq(Job), Len(q) <= QueuePerClient
  PROVE  Held([k EXCEPT !.pending = q])
<1>. DEFINE l == [k EXCEPT !.pending = q]
<1>1. /\ l \in ClientType /\ l.output = k.output /\ l.output_bytes = k.output_bytes
      /\ l.pending = q
  BY DEF Held, ClientType
<1>. HIDE DEF l, ClientType
<1>2. Held(l)
  BY <1>1 DEF Held
<1>. QED
  BY <1>2 DEF l

LEMMA UnqueueHeld ==
  ASSUME NEW k, Held(k), NEW target
  PROVE  Held(Unqueue(k, target))
<1>. DEFINE q == k.pending
            I == {i \in 1..Len(q) : q[i].id = target}
            rest == RemoveFirstMatch(q, LAMBDA f : f.id = target)
<1>0. q \in Seq(Job) /\ Len(q) \in Nat /\ Len(q) <= QueuePerClient
  <2>1. q \in Seq(Job)
    BY DEF Held, ClientType
  <2>. QED
    BY <2>1 DEF Held
<1>1. CASE I = {}
  <2>1. rest = q
    BY <1>1 DEF RemoveFirstMatch, SelectInSeq
  <2>2. Unqueue(k, target) = [k EXCEPT !.pending = q]
    BY <2>1 DEF Unqueue
  <2>. QED
    BY <1>0, <2>2, QueueHeld
<1>2. CASE I # {}
  <2>1. PICK n \in I : n = Min(I)
    <3>1. I \subseteq Nat /\ IsFiniteSet(I)
      <4>1. IsFiniteSet(1..Len(q)) /\ I \in SUBSET (1..Len(q))
        BY <1>0, Interval
      <4>. QED
        BY <4>1, FS_Subset
    <3>2. \E m \in I : \A x \in I : m <= x
      BY <1>2, <3>1, SmallestNumber
    <3>. HIDE DEF I
    <3>. QED
      BY <3>2 DEF Min
  <2>2. n \in 1..Len(q)
    OBVIOUS
  <2>3. rest = RemoveAt(q, n)
    <3>1. SelectInSeq(q, LAMBDA f : f.id = target) = n
      BY <1>2, <2>1 DEF SelectInSeq
    <3>2. n # 0
      BY <2>2
    <3>. QED
      BY <3>1, <3>2 DEF RemoveFirstMatch
  <2>4. RemoveAt(q, n) \in Seq(Job) /\ DOMAIN RemoveAt(q, n) = 1..Len(q) - 1
    BY <1>0, <2>2, RemoveAtAt
  <2>5. Len(RemoveAt(q, n)) <= QueuePerClient
    <3>1. PICK s \in Seq(Job) : s = RemoveAt(q, n)
      BY <2>4
    <3>2. Len(s) = Len(q) - 1
      BY <1>0, <2>2, <2>4, <3>1
    <3>. QED
      BY <1>0, <3>1, <3>2
  <2>6. Unqueue(k, target) = [k EXCEPT !.pending = RemoveAt(q, n)]
    BY <2>3 DEF Unqueue
  <2>. QED
    BY <2>4, <2>5, <2>6, QueueHeld
<1>. QED
  BY <1>1, <1>2

\* A stop: what does not fit is cut off, and the client is dead.
LEMMA CancelledHeld ==
  ASSUME NEW c \in Conns, Held(conn[c]), ActiveIs(c) => active.id \in Ids
  PROVE  Held(Cancelled(c))
<1>. DEFINE k == conn[c]
            ids == (IF ActiveIs(c) THEN <<active.id>> ELSE << >>)
                   \o [i \in DOMAIN k.pending |-> k.pending[i].id]
            answers == [i \in DOMAIN ids |-> Control(ids[i])]
            room == MaxResponse - k.output_bytes
            b == FailAll(k, ids)
            l == [b EXCEPT !.pending = << >>, !.eof = TRUE, !.input = << >>]
<1>. SUFFICES Held(l)
  BY DEF Cancelled
<1>0. /\ k \in ClientType /\ k.output \in Seq(Packet) /\ k.pending \in Seq(Job)
      /\ k.output_bytes \in 0..MaxResponse /\ k.output_bytes = SizeOf(k.output)
  BY DEF Held, ClientType
<1>1. ids \in Seq(Ids)
  <2>1. \A i \in DOMAIN k.pending : k.pending[i] \in Job
    BY <1>0
  <2>2. \A i \in 1..Len(k.pending) : k.pending[i].id \in Ids
    BY <1>0, <2>1 DEF Job
  <2>3. [i \in DOMAIN k.pending |-> k.pending[i].id] \in [1..Len(k.pending) -> Ids]
    BY <1>0, <2>2
  <2>4. Len(k.pending) \in Nat
    BY <1>0
  <2>5. [i \in DOMAIN k.pending |-> k.pending[i].id] \in Seq(Ids)
    BY <2>3, <2>4
  <2>6. (IF ActiveIs(c) THEN <<active.id>> ELSE << >>) \in Seq(Ids)
    OBVIOUS
  <2>. QED
    BY <2>5, <2>6, ConcatAt
<1>. HIDE DEF ids
<1>2. PICK m \in Nat : m = Len(ids)
  BY <1>1
<1>3. \A i \in 1..m : Control(ids[i]) \in Packet /\ Control(ids[i]).size = 1
  <2>1. \A i \in 1..m : ids[i] \in Ids
    BY <1>1, <1>2
  <2>. QED
    BY <2>1, ControlPacket DEF Control
<1>4. answers \in Seq(Packet) /\ Len(answers) = m /\ \A i \in 1..m : answers[i].size = 1
  <2>1. DOMAIN ids = 1..m
    BY <1>1, <1>2
  <2>2. answers \in [1..m -> Packet]
    BY <1>3, <2>1
  <2>. QED
    BY <1>3, <2>1, <2>2
<1>5. << >> \in Seq(Frame) /\ << >> \in Seq(Job) /\ Len(<< >>) = 0
  OBVIOUS
<1>. HIDE DEF answers
<1>6. room \in Nat /\ k.output_bytes + room = MaxResponse /\ k.output_bytes \in Nat
  BY <1>0
\* The output of l, and that it is counted.
<1>7. ASSUME NEW s \in Seq(Packet), Len(s) <= room, \A i \in 1..Len(s) : s[i].size = 1,
             b \in ClientType, b.output = k.output \o s, b.output_bytes = k.output_bytes + Len(s)
      PROVE  Held(l)
  <2>1. Len(s) \in Nat
    OBVIOUS
  <2>2. b.output_bytes \in 0..MaxResponse
    BY <1>6, <1>7, <2>1
  <2>3. b.output_bytes = SizeOf(b.output)
    BY <1>0, <1>7, SizeOfAnswers
  <2>. HIDE DEF b
  <2>4. /\ l \in ClientType /\ l.output = b.output /\ l.output_bytes = b.output_bytes
        /\ l.pending = << >>
    BY <1>5, <1>7 DEF ClientType
  <2>. HIDE DEF l, ClientType
  <2>. QED
    BY <1>5, <2>2, <2>3, <2>4 DEF Held
<1>8. CASE m > room
  <2>. DEFINE s == SubSeq(answers, 1, room)
  <2>1. s \in Seq(Packet) /\ Len(s) = room /\ \A i \in 1..Len(s) : s[i].size = 1
    <3>1. PICK r \in Nat : r = room
      BY <1>6
    <3>2. PICK z \in Seq(Packet) : z = answers
      BY <1>4
    <3>3. /\ SubSeq(z, 1, r) \in Seq(Packet) /\ Len(SubSeq(z, 1, r)) = r
          /\ \A i \in 1..r : SubSeq(z, 1, r)[i] = z[i]
      BY <1>4, <1>8, <3>1, <3>2
    <3>4. \A i \in 1..r : i \in 1..m
      BY <1>8, <3>1
    <3>. HIDE DEF room
    <3>. QED
      BY <1>4, <3>1, <3>2, <3>3, <3>4
  <2>2. b = [k EXCEPT !.dead = TRUE, !.output = @ \o s, !.output_bytes = MaxResponse]
    BY <1>2, <1>8 DEF FailAll, answers
  <2>. HIDE DEF s, b, l, room
  <2>3. k.output \o s \in Seq(Packet) /\ MaxResponse \in Int
    BY <1>0, <2>1, ConcatAt
  <2>4. b \in ClientType /\ b.output = k.output \o s /\ b.output_bytes = MaxResponse
    BY <1>0, <2>2, <2>3 DEF ClientType
  <2>5. Len(s) <= room /\ MaxResponse = k.output_bytes + Len(s)
    BY <1>6, <2>1
  <2>6. b.output_bytes = k.output_bytes + Len(s)
    BY <2>4, <2>5
  <2>. HIDE DEF ClientType
  <2>. QED
    BY <1>7, <2>1, <2>4, <2>5, <2>6
<1>9. CASE ~(m > room)
  <2>1. b = [k EXCEPT !.output = @ \o answers, !.output_bytes = @ + Len(ids)]
    BY <1>2, <1>9 DEF FailAll, answers
  <2>2. Len(answers) <= room
    BY <1>4, <1>6, <1>9
  <2>3. k.output \o answers \in Seq(Packet) /\ k.output_bytes + Len(ids) \in Int
    BY <1>0, <1>2, <1>4, <1>6, ConcatAt
  <2>. HIDE DEF b, l, room
  <2>4. b \in ClientType /\ b.output = k.output \o answers
        /\ b.output_bytes = k.output_bytes + Len(ids)
    BY <1>0, <2>1, <2>3 DEF ClientType
  <2>5. b.output_bytes = k.output_bytes + Len(answers)
    BY <1>2, <1>4, <2>4
  <2>6. \A i \in 1..Len(answers) : answers[i].size = 1
    BY <1>4
  <2>. HIDE DEF ClientType
  <2>. QED
    BY <1>4, <1>7, <2>2, <2>4, <2>5, <2>6
<1>. QED
  BY <1>6, <1>8, <1>9

-----------------------------------------------------------------------------
(* The second invariant: what every client holds, and what the live ones   *)
(* retain together.                                                        *)

AllHeld == \A c \in Conns : Held(conn[c])
Limited ==
  /\ phase = "engine" => Retained <= MaxResponse
  /\ phase \in {"retire", "dispatch"} => Retained <= 2 * MaxResponse
BInv == AllHeld /\ Limited

\* What the client at a place of the ring retains, if it is one of C.
Shares(C) == [i \in DOMAIN ring |-> IF ring[i] \in C THEN OutputBytes(ring[i]) ELSE 0]

LEMMA SharesAt ==
  ASSUME TypeOK, AllHeld, NEW C
  PROVE  /\ Shares(C) \in [1..Len(ring) -> Nat] /\ Len(ring) \in Nat
         /\ \A i \in 1..Len(ring) :
              /\ Shares(C)[i] = IF ring[i] \in C THEN conn[ring[i]].output_bytes ELSE 0
              /\ Shares(C)[i] \in 0..MaxResponse /\ ring[i] \in Conns
         /\ RetainedBy(C) = Total(Shares(C))
<1>1. DOMAIN ring = 1..Len(ring) /\ Len(ring) \in Nat /\ \A i \in 1..Len(ring) : ring[i] \in Conns
  BY RingFacts
<1>2. \A c \in Conns : conn[c].output_bytes \in 0..MaxResponse
  BY DEF AllHeld, Held
<1>3. \A i \in 1..Len(ring) :
        Shares(C)[i] = IF ring[i] \in C THEN conn[ring[i]].output_bytes ELSE 0
  BY <1>1 DEF Shares, OutputBytes
<1>4. \A i \in 1..Len(ring) : Shares(C)[i] \in 0..MaxResponse
  <2>1. 0 \in 0..MaxResponse
    OBVIOUS
  <2>. QED
    BY <1>1, <1>2, <1>3, <2>1
<1>5. Shares(C) \in [1..Len(ring) -> Nat]
  <2>1. DOMAIN Shares(C) = 1..Len(ring) /\ Shares(C) = [i \in DOMAIN Shares(C) |-> Shares(C)[i]]
    BY <1>1 DEF Shares
  <2>2. \A i \in 1..Len(ring) : Shares(C)[i] \in Nat
    BY <1>4
  <2>. QED
    BY <2>1, <2>2
<1>6. RetainedBy(C) = Total(Shares(C))
  BY DEF RetainedBy, Shares
<1>. QED
  BY <1>1, <1>3, <1>4, <1>5, <1>6

\* The live clients' shares of what is retained, now and after a step.
AliveShare ==
  /\ Shares(Alive) \in [1..Len(ring) -> Nat] /\ Len(ring) \in Nat
  /\ \A i \in 1..Len(ring) :
       /\ Shares(Alive)[i] = IF ring[i] \in Alive THEN conn[ring[i]].output_bytes ELSE 0
       /\ Shares(Alive)[i] \in 0..MaxResponse /\ ring[i] \in Conns
  /\ Retained = Total(Shares(Alive))

LEMMA AliveShares == TypeOK /\ AllHeld => AliveShare
<1>1. PICK C : C = Alive
  OBVIOUS
<1>. QED
  BY <1>1, SharesAt DEF Retained, AliveShare

LEMMA AliveSharesNext == TypeOK' /\ AllHeld' => AliveShare'
BY AliveShares, PTL

LEMMA RetainedIsANumber == ASSUME TypeOK, AllHeld PROVE Retained \in Nat
<1>1. /\ Shares(Alive) \in [1..Len(ring) -> Nat] /\ Len(ring) \in Nat
      /\ RetainedBy(Alive) = Total(Shares(Alive))
  BY SharesAt
<1>2. Total(Shares(Alive)) \in Nat
  BY <1>1, TotalOf
<1>. QED
  BY <1>1, <1>2 DEF Retained

LEMMA OneHeld ==
  ASSUME TypeOK, AllHeld, NEW c \in Conns, NEW k, Held(k), conn' = [conn EXCEPT ![c] = k]
  PROVE  AllHeld'
<1>1. conn'[c] = k /\ \A d \in Conns \ {c} : conn'[d] = conn[d]
  BY DEF TypeOK
<1>. SUFFICES ASSUME NEW d \in Conns PROVE Held(conn'[d])
  BY DEF AllHeld
<1>. QED
  BY <1>1 DEF AllHeld

\* Elsewhere in the loop nothing is said of what is retained.
Unlimited == phase \notin {"engine", "retire", "dispatch"}

LEMMA HereHeld ==
  ASSUME IInv, BInv, phase \in {"exchange", "parse"}, NEW k, Held(k), Unlimited',
         conn' = [conn EXCEPT ![Here] = k]
  PROVE  BInv'
<1>1. Here \in Conns
  BY HereFacts
<1>2. PICK c \in Conns : c = Here
  BY <1>1
<1>3. AllHeld'
  BY <1>2, OneHeld DEF IInv, BInv
<1>. QED
  BY <1>3 DEF BInv, Limited, Unlimited

\* No client changes, and the phase is no stricter one.
LEMMA StillHeld ==
  ASSUME BInv, UNCHANGED <<ring, conn>>, phase' = phase \/ Unlimited'
  PROVE  BInv'
<1>1. AllHeld'
  BY DEF BInv, AllHeld
<1>2. Retained' = Retained
  BY DEF Retained, RetainedBy, Alive, Connected, OutputBytes
<1>. QED
  BY <1>1, <1>2 DEF BInv, Limited, Unlimited

-----------------------------------------------------------------------------
(* One step at a time.                                                     *)

LEMMA ExchangeHeld == ASSUME IInv, BInv, Exchange PROVE BInv'
<1>0. phase = "exchange" /\ phase' = "parse"
  BY DEF Exchange
<1>1. PICK w \in Written(conn[Here]) : \E k \in Received(w) : conn' = [conn EXCEPT ![Here] = k]
  BY DEF Exchange
<1>2. PICK k \in Received(w) : conn' = [conn EXCEPT ![Here] = k]
  BY <1>1
<1>3. Held(conn[Here])
  BY <1>0, HereFacts DEF BInv, AllHeld
<1>4. Held(k)
  BY <1>3, WrittenHeld, ReceivedHeld
<1>5. Unlimited'
  BY <1>0 DEF Unlimited
<1>. QED
  BY <1>0, <1>2, <1>4, <1>5, HereHeld

LEMMA ParseHeld ==
  ASSUME IInv, BInv, phase = "parse", phase' = phase \/ NextClient,
         NEW k, Held(k), Client(k)
  PROVE  BInv'
<1>1. Unlimited'
  BY DEF NextClient, Pass, Unlimited
<1>2. conn' = [conn EXCEPT ![Here] = k]
  BY DEF Client
<1>. QED
  BY <1>1, <1>2, HereHeld

LEMMA HereIsHeld ==
  ASSUME IInv, BInv, phase \in {"exchange", "parse"}
  PROVE  Held(conn[Here]) /\ conn[Here] \in ClientType
<1>1. Here \in Conns
  BY HereFacts
<1>. QED
  BY <1>1 DEF BInv, AllHeld, Held

LEMMA TakenHeld ==
  ASSUME IInv, BInv, Admitted
  PROVE  /\ Held(Taken) /\ Taken.pending = conn[Here].pending /\ phase = "parse"
         /\ Got.id \in Ids
<1>0. phase = "parse" /\ Got.id \in Ids /\ conn[Here].input # << >>
  BY AdmittedFacts DEF Admitted, Parsing, HasFrame
<1>1. Held(conn[Here]) /\ conn[Here] \in ClientType
  BY <1>0, HereIsHeld
<1>2. Tail(conn[Here].input) \in Seq(Frame)
  <2>1. conn[Here].input \in Seq(Frame)
    BY <1>1 DEF ClientType
  <2>. QED
    BY <1>0, <2>1, TailAt
<1>3. conn[Here].outstanding \cup {Got.id} \in SUBSET Ids
  BY <1>0, <1>1 DEF ClientType
<1>4. /\ Taken \in ClientType /\ Taken.pending = conn[Here].pending
      /\ Taken.output = conn[Here].output /\ Taken.output_bytes = conn[Here].output_bytes
  BY <1>1, <1>2, <1>3 DEF ClientType, Taken
<1>. QED
  BY <1>0, <1>1, <1>4, SameHeld

LEMMA HoldBackHeld == ASSUME IInv, BInv, HoldBack PROVE BInv'
<1>. DEFINE k == [conn[Here] EXCEPT !.blocked = TRUE]
<1>0. phase = "parse" /\ phase' = phase /\ Client(k)
  BY DEF HoldBack, Parsing, Continue
<1>1. Held(conn[Here]) /\ conn[Here] \in ClientType
  BY <1>0, HereIsHeld
<1>2. /\ k \in ClientType /\ k.pending = conn[Here].pending
      /\ k.output = conn[Here].output /\ k.output_bytes = conn[Here].output_bytes
  BY <1>1 DEF ClientType
<1>. HIDE DEF k
<1>3. Held(k)
  BY <1>1, <1>2, SameHeld
<1>. QED
  BY <1>0, <1>3, ParseHeld

LEMMA RefuseFrameHeld == ASSUME IInv, BInv, RefuseFrame PROVE BInv'
<1>0. phase = "parse" /\ phase' = phase /\ Client(FrameError(conn[Here]))
  BY DEF RefuseFrame, Parsing
<1>1. Held(FrameError(conn[Here]))
  BY <1>0, HereIsHeld, FrameErrorHeld
<1>. QED
  BY <1>0, <1>1, ParseHeld

LEMMA RefuseRequestHeld == ASSUME IInv, BInv, RefuseRequest PROVE BInv'
<1>0. Admitted /\ phase' = phase /\ Client(FailId(Taken, Got.id))
  BY DEF RefuseRequest, Continue
<1>1. Held(FailId(Taken, Got.id)) /\ phase = "parse"
  BY <1>0, TakenHeld, FailIdHeld
<1>. QED
  BY <1>0, <1>1, ParseHeld

LEMMA QueueSearchHeld == ASSUME IInv, BInv, QueueSearch PROVE BInv'
<1>. DEFINE j == [id |-> Got.id, op |-> Got.op]
            q == Append(Taken.pending, j)
<1>0. Admitted /\ phase' = phase /\ Client([Taken EXCEPT !.pending = q]) /\ ~Full
      /\ Got.op \in {"lexical", "dense"}
  BY DEF QueueSearch, Continue
<1>1. Held(Taken) /\ Taken.pending = conn[Here].pending /\ phase = "parse" /\ Got.id \in Ids
  BY <1>0, TakenHeld
<1>2. j \in Job
  <2>1. Got \in Searches \cup Cancels
    BY <1>0, AdmittedFacts
  <2>2. Got.op \in Kinds
    BY <1>0, <2>1 DEF Searches, Cancels, Kinds
  <2>. QED
    BY <1>1, <2>2 DEF Job
<1>. HIDE DEF j
<1>3. Taken.pending \in Seq(Job)
  BY <1>1 DEF Held, ClientType
<1>4. q \in Seq(Job) /\ Len(q) = Len(Taken.pending) + 1 /\ Len(Taken.pending) \in Nat
  BY <1>2, <1>3
<1>5. Len(q) <= QueuePerClient
  BY <1>0, <1>1, <1>4 DEF Full
<1>. HIDE DEF q
<1>6. Held([Taken EXCEPT !.pending = q])
  BY <1>1, <1>4, <1>5, QueueHeld
<1>. QED
  BY <1>0, <1>1, <1>6, ParseHeld

LEMMA CancelHeld == ASSUME IInv, BInv, Cancel PROVE BInv'
<1>0. Admitted /\ phase' = phase /\ Got.target # None /\ Got.op = "cancel"
  BY DEF Cancel, Continue, Invalid
<1>1. Held(Taken) /\ phase = "parse" /\ Got.id \in Ids
  BY <1>0, TakenHeld
<1>2. Got.target \in Ids
  <2>1. Got \in Searches \cup Cancels
    BY <1>0, AdmittedFacts
  <2>2. Got \in Cancels
    BY <1>0, <2>1 DEF Searches
  <2>. QED
    BY <1>0, <2>2 DEF Cancels
<1>3. \E k \in {Taken, FailId(Unqueue(Taken, Got.target), Got.target)} :
         Client(Enqueue(k, Control(Got.id)))
  BY Zenon DEF Cancel
<1>4. PICK k \in {Taken, FailId(Unqueue(Taken, Got.target), Got.target)} :
         Client(Enqueue(k, Control(Got.id)))
  BY <1>3
<1>5. Held(FailId(Unqueue(Taken, Got.target), Got.target))
  BY <1>1, <1>2, UnqueueHeld, FailIdHeld
<1>6. Held(k)
  BY <1>1, <1>4, <1>5
<1>7. Held(Enqueue(k, Control(Got.id)))
  BY <1>1, <1>6, FailIdHeld
<1>. QED
  BY <1>0, <1>1, <1>4, <1>7, ParseHeld

LEMMA TurnEndsHeld == ASSUME IInv, BInv, TurnEnds PROVE BInv'
<1>0. phase = "parse" /\ NextClient
  BY DEF TurnEnds
<1>1. \E k \in {conn[Here], FrameError(conn[Here])} : Client(k)
  BY DEF TurnEnds
<1>2. PICK k \in {conn[Here], FrameError(conn[Here])} : Client(k)
  BY <1>1
<1>3. Held(k)
  BY <1>0, <1>2, HereIsHeld, FrameErrorHeld
<1>. QED
  BY <1>0, <1>2, <1>3, ParseHeld

LEMMA StopSignalHeld == ASSUME IInv, BInv, StopSignal PROVE BInv'
<1>1. /\ conn' = [c \in Conns |-> IF c \in Connected THEN Cancelled(c) ELSE conn[c]]
      /\ phase' = "accept"
  BY DEF StopSignal, Pass
<1>2. ASSUME NEW c \in Conns PROVE Held(Cancelled(c)) /\ Held(conn[c])
  <2>1. Held(conn[c])
    BY DEF BInv, AllHeld
  <2>2. ActiveIs(c) => active.id \in Ids
    BY ActiveFacts DEF IInv, ActiveIs
  <2>. QED
    BY <2>1, <2>2, CancelledHeld
<1>3. AllHeld'
  <2>. SUFFICES ASSUME NEW c \in Conns PROVE Held(conn'[c])
    BY DEF AllHeld
  <2>1. conn'[c] = Cancelled(c) \/ conn'[c] = conn[c]
    BY <1>1
  <2>. QED
    BY <1>2, <2>1
<1>. QED
  BY <1>1, <1>3 DEF BInv, Limited

LEMMA AcceptHeld == ASSUME IInv, BInv, NEW c \in Conns, Accept(c) PROVE BInv'
<1>1. conn' = [conn EXCEPT ![c] = Fresh] /\ phase' = "accept"
  BY DEF Accept
<1>2. Held(Fresh)
  BY FreshHeld
<1>3. AllHeld'
  BY <1>1, <1>2, OneHeld DEF IInv, BInv
<1>. QED
  BY <1>1, <1>3 DEF BInv, Limited

LEMMA BoundHeld == ASSUME IInv, BInv, Bound PROVE BInv'
<1>0. phase' = "engine" /\ ring' = ring /\ TypeOK
  BY DEF Bound, Pass, IInv
<1>1. PICK D \in SUBSET Alive :
        /\ CutOff(D)
        /\ conn' = [c \in Conns |-> IF c \in D THEN [conn[c] EXCEPT !.dead = TRUE] ELSE conn[c]]
  BY DEF Bound
<1>2. ASSUME NEW c \in Conns
      PROVE  /\ Held(conn'[c]) /\ conn'[c].output_bytes = conn[c].output_bytes
             /\ conn'[c].dead <=> c \in D \/ conn[c].dead
  <2>. DEFINE k == [conn[c] EXCEPT !.dead = TRUE]
  <2>1. Held(conn[c]) /\ conn[c] \in ClientType
    BY DEF BInv, AllHeld, Held
  <2>2. Held(k) /\ k.output_bytes = conn[c].output_bytes /\ k.dead
    BY <2>1, DeadHeld DEF ClientType
  <2>3. conn'[c] = IF c \in D THEN k ELSE conn[c]
    BY <1>1
  <2>. HIDE DEF k
  <2>. QED
    BY <2>1, <2>2, <2>3
<1>3. AllHeld'
  BY <1>2 DEF AllHeld
<1>4. \A i \in DOMAIN ring : ring[i] \in Conns /\ ring[i] \in Connected
  BY <1>0, RingFacts
<1>5. Alive' = Alive \ D
  <2>1. Connected' = Connected /\ Connected \subseteq Conns
    BY <1>0, RingFacts DEF Connected
  <2>. QED
    BY <1>2, <2>1 DEF Alive
<1>6. Retained' = RetainedBy(Alive \ D)
  <2>. DEFINE f == [i \in DOMAIN ring |-> IF ring[i] \in Alive \ D THEN OutputBytes(ring[i]) ELSE 0]
              g == [i \in DOMAIN ring |-> IF ring[i] \in Alive \ D THEN conn'[ring[i]].output_bytes ELSE 0]
  <2>1. f = g
    BY <1>2, <1>4 DEF OutputBytes
  <2>2. Retained' = Total(g)
    BY <1>0, <1>5 DEF Retained, RetainedBy, OutputBytes
  <2>3. RetainedBy(Alive \ D) = Total(f)
    BY DEF RetainedBy
  <2>. QED
    BY <2>1, <2>2, <2>3
<1>7. RetainedBy(Alive \ D) <= MaxResponse
  BY <1>1 DEF CutOff
<1>. QED
  BY <1>0, <1>3, <1>6, <1>7 DEF BInv, Limited

\* The engine's answer is the only output made after the bound.
LEMMA OneAnswerMore ==
  ASSUME IInv, IInv', BInv, phase = "engine", phase' = "retire", ring' = ring,
         NEW c \in Conns, c \in Connected, NEW k, Held(k), conn' = [conn EXCEPT ![c] = k]
  PROVE  BInv'
<1>0. TypeOK /\ TypeOK' /\ Ring /\ AllHeld
  BY DEF IInv, BInv
<1>1. AllHeld'
  BY <1>0, OneHeld
<1>2. conn'[c] = k /\ \A d \in Conns \ {c} : conn'[d] = conn[d]
  BY <1>0 DEF TypeOK
<1>3. PICK n \in Nat : n = Len(ring)
  BY <1>0, RingFacts
<1>4. PICK w : w = Shares(Alive)
  OBVIOUS
<1>5. PICK v : v = Shares(Alive)'
  OBVIOUS
<1>6. /\ w \in [1..n -> Nat] /\ Retained = Total(w)
      /\ \A i \in 1..n : w[i] = IF ring[i] \in Alive THEN conn[ring[i]].output_bytes ELSE 0
  BY <1>0, <1>3, <1>4, SharesAt DEF Retained
<1>7. /\ v \in [1..n -> Nat] /\ Retained' = Total(v)
      /\ \A i \in 1..n : /\ v[i] = IF ring[i] \in Alive' THEN conn'[ring[i]].output_bytes ELSE 0
                         /\ v[i] \in 0..MaxResponse
  <2>1. /\ Shares(Alive)' \in [1..Len(ring') -> Nat]
        /\ \A i \in 1..Len(ring') :
             /\ Shares(Alive)'[i] = IF ring'[i] \in Alive' THEN conn'[ring'[i]].output_bytes ELSE 0
             /\ Shares(Alive)'[i] \in 0..MaxResponse
        /\ Retained' = Total(Shares(Alive)')
    BY <1>0, <1>1, AliveSharesNext DEF AliveShare
  <2>. QED
    BY <1>3, <1>5, <2>1
<1>8. PICK j \in 1..n : ring[j] = c
  BY <1>0, <1>3, RingFacts
<1>9. ASSUME NEW i \in 1..n, i # j PROVE v[i] <= w[i]
  <2>1. ring[i] # c /\ ring[i] \in Conns
    BY <1>0, <1>3, <1>8, <1>9, RingFacts DEF Ring
  <2>2. conn'[ring[i]] = conn[ring[i]]
    BY <1>2, <2>1
  <2>3. ring[i] \in Alive' <=> ring[i] \in Alive
    BY <2>2 DEF Alive, Connected
  <2>4. v[i] = w[i] /\ w[i] \in Nat
    BY <1>6, <1>7, <2>2, <2>3
  <2>. QED
    BY <2>4
<1>10. v[j] <= w[j] + MaxResponse
  BY <1>6, <1>7
<1>11. MaxResponse \in Nat
  OBVIOUS
<1>12. Total(v) <= Total(w) + MaxResponse
  BY <1>6, <1>7, <1>9, <1>10, <1>11, TotalOfOneMore
<1>13. Total(w) <= MaxResponse
  BY <1>6 DEF BInv, Limited
<1>14. Total(w) \in Nat /\ Total(v) \in Nat
  BY <1>6, <1>7, TotalOf
<1>15. Retained' <= 2 * MaxResponse
  BY <1>7, <1>11, <1>12, <1>13, <1>14
<1>. QED
  BY <1>1, <1>15 DEF BInv, Limited

LEMMA AnswerHeld == ASSUME IInv, IInv', BInv, Answer PROVE BInv'
<1>0. active # None /\ phase = "engine" /\ phase' = "retire" /\ ring' = ring
  BY DEF Answer, Pass
<1>1. PICK size \in Sizes :
        conn' = [conn EXCEPT ![active.client] = Enqueue(@, [release |-> active.id, size |-> size])]
  BY DEF Answer
<1>2. PICK c \in Conns : c = active.client /\ c \in Connected /\ active.id \in Ids
  BY <1>0, ConsumerFacts
<1>. DEFINE p == [release |-> active.id, size |-> size]
            k == Enqueue(conn[c], p)
<1>3. p \in Packet
  BY <1>2 DEF Packet
<1>. HIDE DEF p
<1>4. Held(k)
  <2>1. Held(conn[c])
    BY DEF BInv, AllHeld
  <2>. QED
    BY <1>3, <2>1, EnqueueHeld
<1>5. conn' = [conn EXCEPT ![c] = k]
  BY <1>1, <1>2 DEF p
<1>. HIDE DEF k
<1>. QED
  BY <1>0, <1>2, <1>4, <1>5, OneAnswerMore

LEMMA EngineFailsHeld == ASSUME IInv, IInv', BInv, EngineFails PROVE BInv'
<1>0. active # None /\ phase = "engine" /\ phase' = "retire" /\ ring' = ring
      /\ conn' = [conn EXCEPT ![active.client] = FailId(@, active.id)]
  BY DEF EngineFails, Pass
<1>1. PICK c \in Conns : c = active.client /\ c \in Connected /\ active.id \in Ids
  BY <1>0, ConsumerFacts
<1>. DEFINE k == FailId(conn[c], active.id)
<1>2. Held(k)
  <2>1. Held(conn[c])
    BY DEF BInv, AllHeld
  <2>. QED
    BY <1>1, <2>1, FailIdHeld
<1>3. conn' = [conn EXCEPT ![c] = k]
  BY <1>0, <1>1
<1>. HIDE DEF k
<1>. QED
  BY <1>0, <1>1, <1>2, <1>3, OneAnswerMore

\* No answer is made, and the bound holds on.
LEMMA QuietHeld ==
  ASSUME IInv, BInv, phase = "engine", phase' = "retire", UNCHANGED <<ring, conn>>
  PROVE  BInv'
<1>1. AllHeld'
  BY DEF BInv, AllHeld
<1>2. Retained' = Retained
  BY DEF Retained, RetainedBy, Alive, Connected, OutputBytes
<1>3. Retained \in Nat /\ Retained <= MaxResponse /\ MaxResponse \in Nat
  BY RetainedIsANumber DEF IInv, BInv, Limited
<1>4. Retained' <= 2 * MaxResponse
  BY <1>2, <1>3
<1>. QED
  BY <1>1, <1>4 DEF BInv, Limited

\* Those that stay retain no more than all did.
LEMMA RetireHeld == ASSUME IInv, IInv', BInv, Retire PROVE BInv'
<1>. DEFINE staying == {i \in DOMAIN ring : Staying(ring[i])}
            m == Cardinality(staying)
<1>0. TypeOK /\ TypeOK' /\ AllHeld /\ phase = "retire" /\ phase' \in {"over", "dispatch"}
  BY DEF IInv, BInv, Retire, Pass
<1>1. PICK n \in Nat : n = Len(ring) /\ DOMAIN ring = 1..n
  BY <1>0, RingFacts
<1>2. m \in Nat
  <2>1. IsFiniteSet(1..n) /\ staying \in SUBSET (1..n)
    BY <1>1, Interval
  <2>. QED
    BY <2>1, FS_Subset, FS_CardinalityType
<1>3. PICK kept \in [1..m -> staying] :
         /\ ToSet(kept) = staying /\ \A i, j \in DOMAIN kept : i < j => kept[i] < kept[j]
         /\ ring' = [i \in DOMAIN kept |-> ring[kept[i]]]
  BY Zenon DEF Retire
<1>4. conn' = [c \in Conns |-> IF c \in Connected \ ToSet(ring')
                               THEN [Fresh EXCEPT !.outstanding = conn[c].outstanding] ELSE conn[c]]
  BY DEF Retire
<1>5. AllHeld'
  <2>. SUFFICES ASSUME NEW c \in Conns PROVE Held(conn'[c])
    BY DEF AllHeld
  <2>1. Held(conn[c]) /\ conn[c].outstanding \in SUBSET Ids
    BY <1>0 DEF AllHeld, Held, ClientType
  <2>2. Held([Fresh EXCEPT !.outstanding = conn[c].outstanding])
    BY <2>1, FreshHeld
  <2>. QED
    BY <1>4, <2>1, <2>2
<1>6. /\ \A i \in 1..m : kept[i] \in 1..n /\ Staying(ring[kept[i]])
      /\ \A i, j \in 1..m : i < j => kept[i] < kept[j]
      /\ ring' = [i \in 1..m |-> ring[kept[i]]]
  BY <1>1, <1>3
<1>. HIDE DEF m, staying
<1>7. Len(ring') = m /\ \A i \in 1..m : ring'[i] = ring[kept[i]]
  <2>1. \A i \in 1..m : ring[kept[i]] \in Conns
    BY <1>0, <1>1, <1>6, RingFacts
  <2>2. ring' \in [1..m -> Conns]
    BY <1>6, <2>1
  <2>. QED
    BY <1>2, <1>6, <2>2
<1>8. PICK w : w = Shares(Alive)
  OBVIOUS
<1>9. PICK v : v = Shares(Alive)'
  OBVIOUS
<1>10. /\ w \in [1..n -> Nat] /\ Retained = Total(w)
       /\ \A i \in 1..n : w[i] = IF ring[i] \in Alive THEN conn[ring[i]].output_bytes ELSE 0
  BY <1>0, <1>1, <1>8, SharesAt DEF Retained
<1>11. /\ v \in [1..m -> Nat] /\ Retained' = Total(v)
       /\ \A i \in 1..m : v[i] = IF ring'[i] \in Alive' THEN conn'[ring'[i]].output_bytes ELSE 0
  <2>1. /\ Shares(Alive)' \in [1..Len(ring') -> Nat]
        /\ \A i \in 1..Len(ring') :
             Shares(Alive)'[i] = IF ring'[i] \in Alive' THEN conn'[ring'[i]].output_bytes ELSE 0
        /\ Retained' = Total(Shares(Alive)')
    BY <1>0, <1>5, AliveSharesNext DEF AliveShare
  <2>. QED
    BY <1>7, <1>9, <2>1
<1>12. ASSUME NEW i \in 1..m PROVE v[i] <= w[kept[i]]
  <2>1. PICK j \in 1..n : j = kept[i] /\ Staying(ring[j])
    BY <1>6
  <2>2. PICK c \in Conns : c = ring[j] /\ c \in Connected /\ ~conn[c].dead
    BY <1>0, <1>1, <2>1, RingFacts DEF Staying
  <2>3. ring'[i] = c /\ c \in ToSet(ring')
    BY <1>6, <1>7, <2>1, <2>2 DEF ToSet
  <2>4. conn'[c] = conn[c]
    BY <1>4, <2>3
  <2>5. w[j] = conn[c].output_bytes
    BY <1>10, <2>2 DEF Alive
  <2>6. v[i] = conn[c].output_bytes \/ v[i] = 0
    BY <1>11, <2>3, <2>4
  <2>7. conn[c].output_bytes \in Nat
    BY <1>0 DEF AllHeld, Held
  <2>. QED
    BY <2>1, <2>5, <2>6, <2>7
<1>13. Total(v) <= Total(w)
  <2>1. kept \in [1..m -> 1..n]
    BY <1>3, <1>6
  <2>. QED
    BY <1>2, <1>6, <1>10, <1>11, <1>12, <2>1, TotalOfSome
<1>14. Retained' <= 2 * MaxResponse
  <2>1. Total(w) <= 2 * MaxResponse
    BY <1>0, <1>10 DEF BInv, Limited
  <2>2. Total(w) \in Nat /\ Total(v) \in Nat /\ 2 * MaxResponse \in Nat
    BY <1>2, <1>10, <1>11, TotalOf
  <2>. QED
    BY <1>11, <1>13, <2>1, <2>2
<1>. QED
  BY <1>0, <1>5, <1>14 DEF BInv, Limited

LEMMA DispatchHeld == ASSUME IInv, BInv, Dispatch PROVE BInv'
<1>0. phase' = "signals" /\ TypeOK /\ AllHeld /\ phase = "dispatch"
  BY DEF Dispatch, Pass, IInv, BInv
<1>1. PICK i \in DOMAIN ring :
        LET c == ring[i]
            k == [conn[c] EXCEPT !.pending = Tail(@)]
        IN /\ Waiting(c)
           /\ \/ conn' = [conn EXCEPT ![c] = IF Metrics THEN Enqueue(k, Control(None)) ELSE k]
              \/ conn' = [conn EXCEPT ![c] = FailId(k, Head(conn[c].pending).id)]
  BY Zenon DEF Dispatch
<1>2. PICK c \in Conns : c = ring[i]
  BY <1>0, RingFacts
<1>. DEFINE q == conn[c].pending
            k == [conn[c] EXCEPT !.pending = Tail(q)]
<1>3. Held(conn[c]) /\ q \in Seq(Job) /\ Len(q) <= QueuePerClient /\ q # << >>
  BY <1>0, <1>1, <1>2 DEF AllHeld, Held, ClientType, Waiting
<1>4. Tail(q) \in Seq(Job) /\ Len(Tail(q)) <= QueuePerClient /\ Head(q).id \in Ids
  <2>1. Tail(q) \in Seq(Job) /\ Head(q) \in Job
    BY <1>3, TailAt
  <2>2. Len(Tail(q)) <= QueuePerClient
    BY <1>3
  <2>. QED
    BY <2>1, <2>2 DEF Job
<1>5. Held(k)
  BY <1>3, <1>4, QueueHeld
<1>6. Held(Enqueue(k, Control(None))) /\ Held(FailId(k, Head(q).id))
  BY <1>4, <1>5, FailIdHeld
<1>7. \E l \in {k, Enqueue(k, Control(None)), FailId(k, Head(q).id)} :
         conn' = [conn EXCEPT ![c] = l]
  BY <1>1, <1>2, Zenon
<1>. HIDE DEF k
<1>8. PICK l : Held(l) /\ conn' = [conn EXCEPT ![c] = l]
  BY <1>5, <1>6, <1>7
<1>9. AllHeld'
  BY <1>0, <1>8, OneHeld
<1>. QED
  BY <1>0, <1>9 DEF BInv, Limited

LEMMA InitiallyHeld == Init => BInv
<1>. SUFFICES ASSUME Init PROVE BInv
  OBVIOUS
<1>1. conn = [c \in Conns |-> Fresh] /\ phase = "signals"
  BY DEF Init
<1>2. Held(Fresh)
  BY FreshHeld
<1>3. AllHeld
  BY <1>1, <1>2 DEF AllHeld
<1>. QED
  BY <1>1, <1>3 DEF BInv, Limited

LEMMA HeldInductive == IInv /\ IInv' /\ BInv /\ [Next]_vars => BInv'
<1>. SUFFICES ASSUME IInv, IInv', BInv, [Next]_vars PROVE BInv'
  OBVIOUS
<1>1. CASE NoSignal \/ Accepted \/ NoDispatch \/ AcceptFails
  <2>1. UNCHANGED <<ring, conn>> /\ Unlimited'
    BY <1>1 DEF NoSignal, Accepted, NoDispatch, AcceptFails, Pass, Unlimited
  <2>. QED
    BY <2>1, StillHeld
<1>2. CASE GoesIdle \/ StopsLate \/ Over \/ UNCHANGED vars
  <2>1. UNCHANGED <<ring, conn>> /\ phase' = phase
    BY <1>2 DEF GoesIdle, StopsLate, Over, vars
  <2>. QED
    BY <2>1, StillHeld
<1>3. CASE Abandon \/ NoAnswer
  <2>1. UNCHANGED <<ring, conn>> /\ phase = "engine" /\ phase' = "retire"
    BY <1>3 DEF Abandon, NoAnswer, Pass
  <2>. QED
    BY <2>1, QuietHeld
<1>4. CASE Exchange \/ HoldBack \/ RefuseFrame \/ RefuseRequest \/ QueueSearch \/ Cancel \/ TurnEnds
  BY <1>4, ExchangeHeld, HoldBackHeld, RefuseFrameHeld, RefuseRequestHeld, QueueSearchHeld,
     CancelHeld, TurnEndsHeld
<1>5. CASE Bound \/ Answer \/ EngineFails \/ Retire \/ Dispatch
  BY <1>5, BoundHeld, AnswerHeld, EngineFailsHeld, RetireHeld, DispatchHeld
<1>6. CASE StopSignal \/ \E c \in Conns : Accept(c)
  BY <1>6, StopSignalHeld, AcceptHeld
<1>. QED
  BY <1>1, <1>2, <1>3, <1>4, <1>5, <1>6 DEF Next, Turn

\* What is counted as output is what is retained, no client queues more than
\* its share, and after the aggregate bound of the loop everything that is
\* retained, the answer of the engine included, is at most two responses.
THEOREM OutputBounded == Spec => []OutputIsBounded
<1>1. IInv /\ BInv => OutputIsBounded
  <2>. SUFFICES ASSUME IInv, BInv PROVE OutputIsBounded
    OBVIOUS
  <2>1. \A c \in Conns : /\ Len(conn[c].pending) <= QueuePerClient
                         /\ conn[c].output_bytes = SizeOf(conn[c].output)
    BY DEF BInv, AllHeld, Held
  <2>2. Retained \in Nat /\ MaxResponse \in Nat
    BY RetainedIsANumber DEF IInv, BInv
  <2>. QED
    BY <2>1, <2>2 DEF BInv, Limited, OutputIsBounded
<1>. QED
  BY <1>1, InitiallyHeld, HeldInductive, SupervisorInvariant, PTL DEF Spec

=============================================================================
