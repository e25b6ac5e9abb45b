-------------------------- MODULE Scheduler_proofs --------------------------
(***************************************************************************)
(* Proofs about the embedding scheduler, for every configuration, every    *)
(* length of the windows and any number of calls: a call that succeeds has *)
(* embedded every window at its own place, the batches of a GPU stay       *)
(* within what calibration has seen succeed, and the provider is the one   *)
(* that was asked for.                                                     *)
(***************************************************************************)
EXTENDS Scheduler, FiniteSetTheorems, WellFoundedInduction, TLAPS

Sizes == Nat \ {0}
Limits == [items : Sizes, padded : Sizes]
Within(l, m) == l.items <= m.items /\ l.padded <= m.padded

\* The calls of k windows.
CallOf(k) == [lens : [1..k -> 1..ChunkSize], order : [1..k -> 1..k], pos : 0..k,
              output : [1..k -> 0..k], runs : 0..3]
\* The order has every window, and the vectors up to pos are where they belong.
Embedded(c, k) ==
  /\ \A i \in 1..k : \E p \in 1..k : c.order[p] = i
  /\ \A p \in 1..c.pos : c.output[c.order[p]] = c.order[p]
  /\ c.pos > 0 => c.runs > 0
IsCall == \E k \in Nat : job \in CallOf(k) /\ Embedded(job, k)

Typed ==
  /\ device \in Devices /\ batch_size \in BatchSizes /\ interactive \in BOOLEAN
  /\ pc \in {"none", "start", "calibrate", "run", "idle"}
  /\ gpu \in BOOLEAN /\ runtime \in {"none", "cpu", "cuda"}
  /\ \E k \in Nat : request \in [1..k -> 1..ChunkSize]
  /\ last_ok \in Nat /\ n \in Nat /\ proven \in Nat /\ exhausted \in Nat
  /\ result \in {"none", "ok", "error"}

Fresh ==
  pc \in {"none", "start"} =>
    ~gpu /\ runtime = "none" /\ last_ok = 0 /\ proven = 0 /\ exhausted = Never
Sized == pc \in {"calibrate", "run", "idle"} => limits \in Limits

\* An engine of queries always has a session, and calibration has one.
Provided ==
  /\ ProviderIsHonest
  /\ gpu => device # "cpu"
  /\ interactive /\ pc = "run" => runtime # "none"
  /\ pc = "calibrate" => runtime # "none" /\ ~interactive

\* While a GPU is calibrated no batch as large as the limits ran out of memory,
\* and a probe that did not run in one piece is known by its runs.
Calibrating ==
  pc = "calibrate" =>
    /\ n \in 1..Cap /\ job \in CallOf(n)
    /\ job.pos > 0 => last_ok >= 1
    /\ best = NoLimits \/ \E m \in 1..Cap : m <= proven /\ best = Envelope(m)
    /\ gpu => /\ last_ok <= proven /\ limits.items < exhausted
              /\ exhausted # Never => job.runs >= 1 /\ (job.pos > 0 => job.runs >= 2)

\* What is embedded is what the caller asks for.
Returned ==
  /\ pc = "run" => job.lens = request
  /\ result = "ok" => pc = "idle" /\ job.lens = request /\ job.pos = Len(job.order)

IInv == IsCall /\ Typed /\ Fresh /\ Sized /\ Provided /\ Calibrating /\ ProvenEnvelope /\ Returned

-----------------------------------------------------------------------------
(* Numbers.                                                                *)

LEMMA Products ==
  ASSUME NEW a \in Nat, NEW b \in Nat, NEW c \in Nat, a <= b
  PROVE  /\ a * c \in Nat /\ b * c \in Nat /\ a * c <= b * c
         /\ a > 0 /\ c > 0 => a * c > 0
<1>1. PICK d \in Nat : b = a + d
  <2>1. b - a \in Nat /\ b = a + (b - a)
    OBVIOUS
  <2> QED
    BY <2>1
<1>2. d * c \in Nat /\ a * c \in Nat
  OBVIOUS
<1>3. (a + d) * c = a * c + d * c
  BY SMT
<1>4. a > 0 /\ c > 0 => a * c > 0
  BY SMT
<1> QED
  BY <1>1, <1>2, <1>3, <1>4

\* A nonempty set of numbers with a bound has a largest one.
LEMMA Largest ==
  ASSUME NEW b \in Nat, NEW S \in SUBSET (0..b), S # {}
  PROVE  Max(S) \in S /\ \A x \in S : x <= Max(S)
<1> DEFINE T == {b - x : x \in S}
<1>1. T \subseteq Nat /\ T # {}
  <2>1. \A x \in S : x \in 0..b /\ b - x \in Nat
    OBVIOUS
  <2>2. \A t \in T : \E x \in S : t = b - x
    OBVIOUS
  <2>3. \A x \in S : b - x \in T
    OBVIOUS
  <2> HIDE DEF T
  <2> QED
    BY <2>1, <2>2, <2>3
<1>2. PICK t \in T : \A u \in T : ~(u < t)
  <2>1. PICK t \in T : \A u \in T : <<u, t>> \notin OpToRel(<, Nat)
    BY <1>1, NatLessThanWellFounded, WFMin
  <2> QED
    BY <1>1, <2>1 DEF OpToRel
<1>3. PICK m \in S : t = b - m
  BY <1>2
<1>4. \A x \in S : m >= x
  <2>1. \A x \in S : b - x \in T
    OBVIOUS
  <2>2. \A x \in S : ~(b - x < b - m)
    BY <1>2, <1>3, <2>1
  <2>3. \A x \in S : x \in 0..b
    OBVIOUS
  <2> HIDE DEF T
  <2> QED
    BY <2>2, <2>3
<1>5. Max(S) \in S /\ \A x \in S : Max(S) >= x
  BY <1>4 DEF Max
<1> QED
  BY <1>5

-----------------------------------------------------------------------------
(* Limits.                                                                 *)

LEMMA Reduces ==
  ASSUME NEW l \in Limits
  PROVE  Reduced(l) \in Limits /\ Within(Reduced(l), l)
BY DEF Limits, Sizes, Reduced, Max2, Within

LEMMA Halves ==
  ASSUME NEW l \in Limits, NEW count \in Nat, count > 1
  PROVE  /\ Halved(l, count) \in Limits /\ Within(Halved(l, count), l)
         /\ Halved(l, count).items < count
<1>1. Reduced(l) \in Limits /\ Within(Reduced(l), l)
  BY Reduces
<1>2. Max2(count \div 2, 1) \in Sizes /\ Max2(count \div 2, 1) < count
  BY DEF Max2, Sizes
<1> QED
  BY <1>1, <1>2 DEF Halved, Min2, Limits, Within, Sizes

LEMMA Falls ==
  ASSUME NEW l \in Limits
  PROVE  Fallen(l) \in Limits
BY SchedulerAssumption DEF Fallen, Limits, Sizes, Min2

LEMMA Envelopes ==
  ASSUME NEW items \in Sizes
  PROVE  Envelope(items) \in Limits
<1>1. items * ChunkSize \in Sizes
  BY SchedulerAssumption, Products DEF Sizes
<1> QED
  BY <1>1 DEF Envelope, Limits

LEMMA Presses ==
  ASSUME limits \in Limits, NEW l \in Pressed
  PROVE  l \in Limits /\ Within(l, limits)
<1>1. CASE l = limits
  BY <1>1 DEF Within, Limits, Sizes
<1>2. CASE l = Reduced(limits)
  BY <1>2, Reduces
<1> QED
  BY <1>1, <1>2 DEF Pressed

-----------------------------------------------------------------------------
(* Calls.                                                                  *)

\* The places of two windows differ, so every window has one.
LEMMA OrderHasAll ==
  ASSUME NEW k \in Nat, NEW lens \in [1..k -> 1..ChunkSize]
  PROVE  /\ Order(lens) \in [1..k -> 1..k]
         /\ \A i \in 1..k : \E p \in 1..k : Order(lens)[p] = i
<1> DEFINE place == [i \in 1..k |-> Cardinality(UpTo(lens, i))]
<1>1. DOMAIN lens = 1..k /\ IsFiniteSet(1..k) /\ Cardinality(1..k) = k
  BY FS_Interval
<1>2. \A i \in 1..k : lens[i] \in Nat
  BY SchedulerAssumption
<1>3. ASSUME NEW i \in 1..k
      PROVE  /\ i \in UpTo(lens, i) /\ UpTo(lens, i) \in SUBSET (1..k)
             /\ IsFiniteSet(UpTo(lens, i)) /\ Cardinality(UpTo(lens, i)) \in 1..k
  <2>1. i \in UpTo(lens, i) /\ UpTo(lens, i) \in SUBSET (1..k)
    BY <1>1, <1>2 DEF UpTo
  <2>2. IsFiniteSet(UpTo(lens, i)) /\ Cardinality(UpTo(lens, i)) <= k
    BY <1>1, <2>1, FS_Subset
  <2>3. Cardinality(UpTo(lens, i)) \in Nat /\ Cardinality(UpTo(lens, i)) # 0
    BY <2>1, <2>2, FS_CardinalityType, FS_EmptySet
  <2> QED
    BY <2>1, <2>2, <2>3
<1>4. ASSUME NEW i \in 1..k, NEW j \in 1..k,
             lens[i] < lens[j] \/ (lens[i] = lens[j] /\ i < j)
      PROVE  Cardinality(UpTo(lens, i)) # Cardinality(UpTo(lens, j))
  <2>1. UpTo(lens, i) \in SUBSET UpTo(lens, j) /\ j \notin UpTo(lens, i)
    BY <1>1, <1>2, <1>4 DEF UpTo
  <2>2. UpTo(lens, i) # UpTo(lens, j)
    BY <1>3, <2>1
  <2> QED
    BY <1>3, <2>1, <2>2, FS_Subset
<1>5. place \in Injection(1..k, 1..k)
  <2>1. place \in [1..k -> 1..k]
    BY <1>3
  <2>2. ASSUME NEW i \in 1..k, NEW j \in 1..k, place[i] = place[j]
        PROVE  i = j
    <3>1. lens[i] < lens[j] \/ lens[j] < lens[i] \/ lens[i] = lens[j]
      BY <1>2
    <3>2. CASE i < j
      BY <1>4, <2>2, <3>1, <3>2
    <3>3. CASE j < i
      BY <1>4, <2>2, <3>1, <3>3
    <3> QED
      BY <3>2, <3>3
  <2> QED
    BY <2>1, <2>2 DEF Injection, IsInjective
<1>6. place \in Surjection(1..k, 1..k)
  BY <1>1, <1>5, FS_Injection
<1>7. \A p \in 1..k : \E i \in 1..k : place[i] = p
  BY <1>6 DEF Surjection
<1>8. \A p \in 1..k : Order(lens)[p] \in 1..k /\ place[Order(lens)[p]] = p
  BY <1>1, <1>7 DEF Order
<1>9. Order(lens) \in [1..k -> 1..k]
  BY <1>1, <1>8 DEF Order
<1>10. ASSUME NEW i \in 1..k
       PROVE  \E p \in 1..k : Order(lens)[p] = i
  <2>1. place[i] \in 1..k
    BY <1>3
  <2>2. place[Order(lens)[place[i]]] = place[i] /\ Order(lens)[place[i]] \in 1..k
    BY <1>8, <2>1
  <2>3. Order(lens)[place[i]] = i
    BY <1>5, <2>2 DEF Injection, IsInjective
  <2> QED
    BY <2>1, <2>3
<1> QED
  BY <1>9, <1>10

LEMMA CallIsFresh ==
  ASSUME NEW k \in Nat, NEW lens \in [1..k -> 1..ChunkSize]
  PROVE  /\ Call(lens) \in CallOf(k) /\ Embedded(Call(lens), k)
         /\ Call(lens).lens = lens /\ Call(lens).pos = 0 /\ Call(lens).runs = 0
<1>1. Order(lens) \in [1..k -> 1..k] /\ \A i \in 1..k : \E p \in 1..k : Order(lens)[p] = i
  BY OrderHasAll
<1>2. DOMAIN lens = 1..k
  OBVIOUS
<1>3. [i \in DOMAIN lens |-> 0] \in [1..k -> 0..k]
  BY <1>2
<1>4. Call(lens) = [lens |-> lens, order |-> Order(lens), pos |-> 0,
                    output |-> [i \in DOMAIN lens |-> 0], runs |-> 0]
  BY DEF Call
<1>5. Call(lens) \in CallOf(k)
  <2>1. ASSUME NEW order \in [1..k -> 1..k], NEW output \in [1..k -> 0..k]
        PROVE  [lens |-> lens, order |-> order, pos |-> 0, output |-> output, runs |-> 0] \in CallOf(k)
    <3>1. ASSUME NEW pos \in 0..k, NEW runs \in 0..3
          PROVE  [lens |-> lens, order |-> order, pos |-> pos, output |-> output, runs |-> runs] \in CallOf(k)
      BY Zenon DEF CallOf
    <3>2. 0 \in 0..k /\ 0 \in 0..3
      OBVIOUS
    <3> QED
      BY <3>1, <3>2, Zenon
  <2> QED
    BY <1>1, <1>3, <1>4, <2>1, Zenon
<1>6. Embedded(Call(lens), k)
  BY <1>1, <1>4 DEF Embedded
<1> QED
  BY <1>4, <1>5, <1>6

LEMMA LengthOfCall ==
  ASSUME NEW k \in Nat, NEW c \in CallOf(k)
  PROVE  Len(c.order) = k /\ Len(c.output) = k /\ DOMAIN c.output = 1..k
BY DEF CallOf

\* An inference that gives nothing is only counted.
LEMMA RanIsCall ==
  ASSUME NEW k \in Nat, NEW c \in CallOf(k)
  PROVE  /\ Ran(c) \in CallOf(k)
         /\ Ran(c).lens = c.lens /\ Ran(c).order = c.order /\ Ran(c).output = c.output
         /\ Ran(c).pos = c.pos /\ Ran(c).runs > 0 /\ (c.runs > 0 => Ran(c).runs >= 2)
<1>1. PICK r \in 0..3 : r = (IF c.runs < 3 THEN c.runs + 1 ELSE 2)
  BY DEF CallOf
<1>2. r > 0 /\ (c.runs > 0 => r >= 2)
  BY <1>1 DEF CallOf
<1>3. Ran(c) = [c EXCEPT !.runs = r]
  BY <1>1 DEF Ran
<1>4. Ran(c) \in CallOf(k)
  BY <1>3 DEF CallOf
<1>5. /\ Ran(c).lens = c.lens /\ Ran(c).order = c.order /\ Ran(c).output = c.output
      /\ Ran(c).pos = c.pos /\ Ran(c).runs = r
  BY <1>3 DEF CallOf
<1> QED
  BY <1>2, <1>4, <1>5

\* A batch has a window at least, no more than the limits allow, and no more
\* than are left.
LEMMA PackFits ==
  ASSUME NEW k \in Nat, job \in CallOf(k), job.pos < k, NEW l \in Limits
  PROVE  /\ Pack(l) \in Nat \ {0} /\ Pack(l) <= l.items
         /\ job.pos + Pack(l) \in 1..k
<1> DEFINE left == Len(job.order) - job.pos
           fits == {c \in 1..Min2(l.items, left) :
                      c = 1 \/ job.lens[job.order[job.pos + c]] * c <= l.padded}
<1>1. left = k - job.pos /\ left \in Sizes /\ l.items \in Sizes /\ job.pos \in Nat
  <2>1. Len(job.order) = k /\ job.pos \in 0..k
    BY LengthOfCall DEF CallOf
  <2> QED
    BY <2>1 DEF Sizes, Limits
<1>2. Pack(l) = Max(fits)
  BY DEF Pack
<1>3. Min2(l.items, left) \in Sizes /\ Min2(l.items, left) <= l.items /\ Min2(l.items, left) <= left
  BY <1>1 DEF Min2, Sizes
<1> HIDE DEF left
<1>4. 1 \in fits /\ fits \in SUBSET (0..Min2(l.items, left))
  BY <1>3 DEF Sizes
<1>5. Max(fits) \in fits
  BY <1>3, <1>4, Largest DEF Sizes
<1>6. Max(fits) \in 1..Min2(l.items, left)
  BY <1>5
<1> HIDE DEF fits
<1> QED
  BY <1>1, <1>2, <1>3, <1>6 DEF Sizes

-----------------------------------------------------------------------------
(* Steps.                                                                  *)

\* No scheduler is left.
LEMMA NoSchedulerKeeps ==
  ASSUME IInv, NoScheduler
  PROVE  IInv'
<1> USE DEF NoScheduler, caller, config
<1>1. IsCall'
  BY DEF IInv, IsCall, Embedded
<1>2. Typed'
  <2>1. Never \in Nat
    BY SchedulerAssumption DEF Never
  <2>2. \E k \in Nat : request' \in [1..k -> 1..ChunkSize]
    BY DEF IInv, Typed
  <2> QED
    BY <2>1, <2>2 DEF IInv, Typed
<1>3. Fresh'
  BY DEF Fresh, Never
<1>4. Provided'
  BY DEF Provided, ProviderIsHonest
<1> QED
  BY <1>1, <1>2, <1>3, <1>4 DEF IInv, Sized, Calibrating, ProvenEnvelope, Returned

\* The error of a batch, within the limits there were.
LEMMA FailsKeeps ==
  ASSUME IInv, pc \in {"calibrate", "run"}, NEW l \in Limits, Within(l, limits),
         NEW isGpu \in BOOLEAN, isGpu => gpu, NEW provider \in {"none", "cpu", "cuda"},
         provider = "cpu" => device # "cuda" /\ ~isGpu, provider = "cuda" => device # "cpu" /\ isGpu,
         Fails(l, isGpu, provider)
  PROVE  IInv'
<1>1. CASE Kept
  <2> USE <1>1 DEF Fails, Kept, caller, config, probing, history
  <2>1. IsCall'
    BY DEF IInv, IsCall, Embedded
  <2>2. Typed'
    <3>1. \E k \in Nat : request' \in [1..k -> 1..ChunkSize]
      BY DEF IInv, Typed
    <3> QED
      BY <3>1 DEF IInv, Typed
  <2>3. Provided'
    BY DEF IInv, Provided, ProviderIsHonest, Typed
  <2>4. Sized'
    BY DEF Sized
  <2>5. ProvenEnvelope'
    <3>1. SUFFICES ASSUME gpu, ~interactive, pc = "run"
                   PROVE  /\ l.items <= proven /\ l.padded <= proven * ChunkSize
                          /\ l.items < exhausted
      BY DEF ProvenEnvelope, IInv, Typed
    <3>2. /\ limits.items <= proven /\ limits.padded <= proven * ChunkSize
          /\ limits.items < exhausted
      BY <3>1 DEF IInv, ProvenEnvelope
    <3>3. /\ proven * ChunkSize \in Nat /\ proven \in Nat /\ exhausted \in Nat
          /\ limits \in Limits
      BY SchedulerAssumption, Products, <3>1 DEF IInv, Typed, Sized
    <3> QED
      BY <3>2, <3>3 DEF Within, Limits, Sizes
  <2> QED
    BY <2>1, <2>2, <2>3, <2>4, <2>5 DEF IInv, Fresh, Calibrating, Returned
<1>2. CASE ~Kept
  BY <1>2, NoSchedulerKeeps DEF Fails
<1> QED
  BY <1>1, <1>2

LEMMA FallbackKeeps ==
  ASSUME IInv, InBatch, gpu, NEW l \in Limits, Within(l, limits),
         NEW loaded \in {"none", "cpu", "cuda"}, loaded # "none" => loaded = runtime,
         Fallback(l, loaded)
  PROVE  IInv'
<1>1. CASE /\ MayFallBack /\ gpu' = FALSE /\ runtime' = "cpu" /\ limits' = Fallen(l)
           /\ job' = Ran(job) /\ UNCHANGED <<caller, pc, last_ok, probing, result, history>>
  <2> USE <1>1 DEF caller, config, probing, history, MayFallBack, InBatch
  <2>1. PICK k \in Nat : job \in CallOf(k) /\ Embedded(job, k)
    BY DEF IInv, IsCall
  <2>2. /\ job' \in CallOf(k) /\ job'.lens = job.lens /\ job'.order = job.order
        /\ job'.pos = job.pos /\ job'.output = job.output /\ job'.runs > 0
    BY <2>1, RanIsCall
  <2>3. IsCall'
    BY <2>1, <2>2 DEF IsCall, Embedded
  <2>4. Typed'
    BY DEF IInv, Typed
  <2>5. Sized'
    BY Falls DEF Sized
  <2>6. Provided'
    BY DEF IInv, Provided, ProviderIsHonest
  <2>7. Calibrating'
    <3>1. ASSUME pc = "calibrate" PROVE job' \in CallOf(n)
      <4>1. PICK m \in Nat : m = n
        BY DEF IInv, Typed
      <4>2. job \in CallOf(m)
        BY <3>1, <4>1 DEF IInv, Calibrating
      <4>3. Ran(job) \in CallOf(m)
        BY <4>2, RanIsCall
      <4> QED
        BY <4>1, <4>3
    <3> QED
      BY <2>2, <3>1 DEF IInv, Calibrating, Cap
  <2>8. Returned'
    BY <2>2 DEF IInv, Returned
  <2> QED
    BY <2>3, <2>4, <2>5, <2>6, <2>7, <2>8 DEF IInv, Fresh, ProvenEnvelope
<1>2. CASE MayFallBack /\ Fails(l, FALSE, "none")
  BY <1>2, FailsKeeps DEF InBatch
<1>3. CASE ~MayFallBack /\ Fails(l, gpu, loaded)
  <2>1. PICK isGpu \in BOOLEAN : isGpu = gpu
    BY DEF IInv, Typed
  <2>2. Fails(l, isGpu, loaded)
    BY <1>3, <2>1
  <2>3. /\ loaded = "cpu" => device # "cuda" /\ ~isGpu
        /\ loaded = "cuda" => device # "cpu" /\ isGpu
    BY <2>1 DEF IInv, Provided, ProviderIsHonest
  <2> QED
    BY <2>1, <2>2, <2>3, FailsKeeps DEF InBatch
<1> QED
  BY <1>1, <1>2, <1>3 DEF Fallback

\* A call is asked for.
LEMMA AskKeeps ==
  ASSUME IInv, NEW lens \in Windows, Ask(lens)
  PROVE  IInv'
<1> USE DEF Ask, caller, config, device_, probing, history
<1>1. PICK k \in Nat : lens \in [1..k -> 1..ChunkSize]
  <2>1. PICK k \in 1..MaxInputs : lens \in [1..k -> Lengths]
    BY DEF Windows
  <2>2. \A i \in 1..k : lens[i] \in 1..ChunkSize
    BY <2>1, SchedulerAssumption
  <2>3. k \in Nat
    BY SchedulerAssumption
  <2>4. lens \in [1..k -> 1..ChunkSize]
    BY <2>1, <2>2
  <2> QED
    BY <2>3, <2>4
<1>2. /\ job' \in CallOf(k) /\ Embedded(job', k) /\ job'.lens = lens
  BY <1>1, CallIsFresh
<1>3. IsCall'
  BY <1>2 DEF IsCall, Embedded
<1>4. Typed'
  <2>1. pc' \in {"none", "start", "calibrate", "run", "idle"} /\ result' = "none"
    OBVIOUS
  <2>2. \E j \in Nat : request' \in [1..j -> 1..ChunkSize]
    BY <1>1
  <2> QED
    BY <2>1, <2>2 DEF IInv, Typed
<1>5. Fresh'
  BY DEF IInv, Fresh, Never
<1>6. Sized'
  BY DEF IInv, Sized
<1>7. Provided'
  BY DEF IInv, Provided, ProviderIsHonest
<1>8. Calibrating' /\ Returned'
  BY <1>2 DEF Calibrating, Returned
<1>9. ProvenEnvelope'
  BY DEF IInv, ProvenEnvelope, Fresh
<1> QED
  BY <1>3, <1>4, <1>5, <1>6, <1>7, <1>8, <1>9 DEF IInv

\* The call that waited for the scheduler begins.
LEMMA ReturnsCall ==
  ASSUME IInv, Returns, pc \in {"start", "calibrate"}
  PROVE  IsCall' /\ Returned' /\ Calibrating'
<1>1. PICK k \in Nat : request \in [1..k -> 1..ChunkSize]
  BY DEF IInv, Typed
<1>2. job' \in CallOf(k) /\ Embedded(job', k) /\ job'.lens = request
  BY <1>1, CallIsFresh DEF Returns
<1>3. result # "ok"
  BY DEF IInv, Returned
<1> QED
  BY <1>2, <1>3 DEF Returns, IsCall, Embedded, Returned, Calibrating, caller

LEMMA FirstItemsFit ==
  ASSUME IInv, NEW onGpu \in BOOLEAN
  PROVE  Envelope(FirstItems(onGpu)) \in Limits
<1>1. FirstItems(onGpu) \in Sizes
  BY SchedulerAssumption DEF FirstItems, Sizes, IInv, Typed
<1> QED
  BY <1>1, Envelopes

LEMMA StartCpuKeeps ==
  ASSUME IInv, StartCpu
  PROVE  IInv'
<1> USE DEF StartCpu, caller, config, probing, history
<1>1. IsCall' /\ Returned' /\ Calibrating'
  BY ReturnsCall
<1>2. Typed'
  BY DEF IInv, Typed, Returns
<1>3. Sized'
  <2>1. Envelope(FirstItems(FALSE)) \in Limits /\ Envelope(FirstItems(TRUE)) \in Limits
    BY FirstItemsFit
  <2>2. limits' \in Limits
    BY <2>1, Falls
  <2> QED
    BY <2>2 DEF Sized
<1>4. Provided'
  BY DEF IInv, Provided, ProviderIsHonest, Returns
<1> QED
  BY <1>1, <1>2, <1>3, <1>4 DEF IInv, Fresh, ProvenEnvelope, Returns

\* A probe of k windows, none of which has run out of memory.
LEMMA ProbeKeeps ==
  ASSUME IInv, Probe(n'), n' \in 1..Cap, pc \in {"start", "calibrate"}, ~interactive,
         gpu', runtime' = "cuda", device # "cpu",
         last_ok' = last_ok, last_ok <= proven, proven' = proven,
         exhausted' = exhausted, exhausted = Never,
         best' = NoLimits \/ \E m \in 1..Cap : m <= proven /\ best' = Envelope(m)
  PROVE  IInv'
<1> USE DEF Probe, caller, config
<1>1. Cap \in Nat /\ Cap <= MaxProbe /\ Cap' = Cap
  BY SchedulerAssumption DEF IInv, Typed, Cap, Min2
<1>2. PICK k \in 1..Cap : k = n'
  OBVIOUS
<1>3. k \in Nat \ {0} /\ k < Never /\ ChunkSize \in 1..ChunkSize
  BY <1>1, SchedulerAssumption DEF Never
<1>4. /\ job' \in CallOf(k) /\ Embedded(job', k) /\ job'.pos = 0
  <2>1. [i \in 1..k |-> ChunkSize] \in [1..k -> 1..ChunkSize]
    BY <1>3
  <2>2. job' = Call([i \in 1..k |-> ChunkSize])
    BY <1>2
  <2> QED
    BY <1>3, <2>1, <2>2, CallIsFresh
<1>5. Envelope(k) \in Limits /\ limits' = Envelope(k) /\ Envelope(k).items = k
  BY <1>2, <1>3, Envelopes DEF Sizes, Envelope
<1>6. IsCall'
  BY <1>3, <1>4 DEF IsCall, Embedded
<1>7. Typed'
  BY <1>2, <1>3 DEF IInv, Typed
<1>8. Provided'
  BY DEF IInv, Provided, ProviderIsHonest
<1>9. Calibrating'
  BY <1>1, <1>2, <1>3, <1>4, <1>5 DEF Calibrating, Never
<1>10. Returned'
  BY DEF IInv, Returned
<1> QED
  BY <1>5, <1>6, <1>7, <1>8, <1>9, <1>10 DEF IInv, Fresh, Sized, ProvenEnvelope

LEMMA StartCudaKeeps ==
  ASSUME IInv, StartCuda
  PROVE  IInv'
<1> USE DEF StartCuda, history
<1>1. CASE interactive
  <2> USE <1>1 DEF caller, config, probing
  <2>1. IsCall' /\ Returned' /\ Calibrating'
    BY ReturnsCall
  <2>2. Typed'
    BY DEF IInv, Typed, Returns
  <2>3. Sized'
    BY Envelopes DEF Sized, Sizes
  <2>4. Provided'
    BY DEF IInv, Provided, ProviderIsHonest, Returns
  <2> QED
    BY <2>1, <2>2, <2>3, <2>4 DEF IInv, Fresh, ProvenEnvelope, Returns
<1>2. CASE ~interactive
  <2>1. PICK k \in Hints : Probe(k)
    BY <1>2
  <2>2. n' = k /\ Probe(n')
    BY <2>1 DEF Probe
  <2>3. n' \in 1..Cap
    BY <2>1, <2>2, SchedulerAssumption DEF Hints, Cap, Min2, IInv, Typed
  <2> QED
    BY <1>2, <2>2, <2>3, ProbeKeeps DEF IInv, Fresh
<1> QED
  BY <1>1, <1>2 DEF IInv, Typed

\* A batch is embedded.
LEMMA InfersKeeps ==
  ASSUME IInv, Infers
  PROVE  IInv'
<1> USE DEF caller, config, device_, probing
<1>1. PICK k \in Nat : job \in CallOf(k) /\ Embedded(job, k)
  BY DEF IInv, IsCall
<1>2. Len(job.order) = k /\ job.pos < k /\ limits \in Limits
  BY <1>1, LengthOfCall DEF Infers, InBatch, IInv, Sized
<1>3. PICK l \in Pressed :
        /\ limits' = l
        /\ job' = [Ran(job) EXCEPT
                     !.pos = Beyond(l),
                     !.output = [i \in DOMAIN @ |->
                                   LET from == {q \in 1..Pack(l) : Slot(q) = i}
                                   IN IF from = {} THEN @[i]
                                      ELSE job.order[job.pos + (CHOOSE q \in from : TRUE)]]]
        /\ last_ok' = Pack(l)
        /\ proven' = IF pc = "calibrate" /\ gpu THEN Max2(proven, Pack(l)) ELSE proven
  BY DEF Infers
<1>4. /\ InBatch /\ runtime # "none"
      /\ UNCHANGED <<caller, pc, device_, probing, result, exhausted>>
  BY DEF Infers
<1>5. l \in Limits /\ Within(l, limits)
  BY <1>2, Presses
<1>6. Pack(l) \in Nat \ {0} /\ Pack(l) <= l.items /\ job.pos + Pack(l) \in 1..k
  BY <1>1, <1>2, <1>5, PackFits
<1> DEFINE from(i) == {q \in 1..Pack(l) : Slot(q) = i}
           vectors == [i \in 1..k |-> IF from(i) = {} THEN job.output[i]
                                      ELSE job.order[job.pos + (CHOOSE q \in from(i) : TRUE)]]
<1>7. \A i \in 1..k : vectors[i] = (IF from(i) = {} THEN job.output[i] ELSE i)
  BY DEF Slot
<1>8. vectors \in [1..k -> 0..k]
  <2>1. \A i \in 1..k : job.output[i] \in 0..k /\ i \in 0..k
    BY <1>1 DEF CallOf
  <2>2. \A i \in 1..k : vectors[i] \in 0..k
    BY <1>7, <2>1, Zenon
  <2> QED
    BY <2>2
<1>9. job' = [Ran(job) EXCEPT !.pos = job.pos + Pack(l), !.output = vectors]
  <2>1. Ran(job) \in CallOf(k) /\ Ran(job).output = job.output
    BY <1>1, RanIsCall
  <2>2. DOMAIN Ran(job).output = 1..k
    BY <2>1, LengthOfCall
  <2> QED
    BY <1>3, <2>1, <2>2 DEF Beyond
<1> HIDE DEF vectors
<1>10. /\ job' \in CallOf(k) /\ job'.lens = job.lens /\ job'.order = job.order
       /\ job'.pos = job.pos + Pack(l) /\ job'.output = vectors
       /\ job'.runs > 0 /\ (job.runs > 0 => job'.runs >= 2)
  <2>1. /\ Ran(job) \in CallOf(k)
        /\ Ran(job).lens = job.lens /\ Ran(job).order = job.order
        /\ Ran(job).runs > 0 /\ (job.runs > 0 => Ran(job).runs >= 2)
    BY <1>1, RanIsCall
  <2>2. job.pos + Pack(l) \in 0..k
    BY <1>6
  <2>3. job' \in CallOf(k)
    BY <1>8, <1>9, <2>1, <2>2 DEF CallOf
  <2> QED
    BY <1>8, <1>9, <2>1, <2>2, <2>3 DEF CallOf
<1>11. IsCall'
  <2>1. ASSUME NEW p \in 1..job'.pos
        PROVE  vectors[job.order[p]] = job.order[p]
    <3>1. job.pos \in 0..k /\ p \in 1..k /\ job.order[p] \in 1..k
      <4>1. job.pos \in 0..k /\ job.order \in [1..k -> 1..k]
        BY <1>1 DEF CallOf
      <4>2. p \in 1..k
        BY <1>6, <1>10
      <4> QED
        BY <4>1, <4>2
    <3>2. CASE p <= job.pos
      <4>1. job.output[job.order[p]] = job.order[p]
        BY <1>1, <3>1, <3>2 DEF Embedded
      <4> QED
        BY <1>7, <3>1, <4>1
    <3>3. CASE ~(p <= job.pos)
      <4>1. p - job.pos \in 1..Pack(l) /\ job.pos + (p - job.pos) = p
        BY <1>6, <1>10, <3>1, <3>3
      <4>2. Slot(p - job.pos) = job.order[p]
        BY <4>1 DEF Slot
      <4>3. from(job.order[p]) # {}
        BY <4>1, <4>2
      <4> QED
        BY <1>7, <3>1, <4>3
    <3> QED
      BY <3>2, <3>3
  <2>2. Embedded(job', k)
    BY <1>1, <1>10, <2>1 DEF Embedded
  <2> QED
    BY <1>10, <2>2 DEF IsCall, Embedded
<1>12. proven' \in Nat /\ proven <= proven' /\ (pc = "calibrate" /\ gpu => Pack(l) <= proven')
       /\ (pc # "calibrate" => proven' = proven) /\ proven \in Nat
  BY <1>3, <1>6 DEF IInv, Typed, Max2
<1>13. Typed'
  <2>1. \E j \in Nat : request' \in [1..j -> 1..ChunkSize]
    BY <1>4 DEF IInv, Typed
  <2> QED
    BY <1>3, <1>4, <1>6, <1>12, <2>1 DEF IInv, Typed
<1>14. Sized' /\ Fresh'
  BY <1>3, <1>4, <1>5 DEF Sized, Fresh, InBatch
<1>15. Provided'
  BY <1>4 DEF IInv, Provided, ProviderIsHonest
<1>16. Calibrating'
  <2>1. SUFFICES ASSUME pc = "calibrate"
                 PROVE  Calibrating'
    BY <1>4 DEF Calibrating
  <2>2. Cap' = Cap /\ Cap \in Nat
    BY <1>4, SchedulerAssumption DEF Cap, Min2, IInv, Typed
  <2>3. PICK m \in Nat : m = n /\ n \in 1..Cap /\ job \in CallOf(m)
    BY <2>1 DEF IInv, Calibrating, Typed
  <2>4. m = k /\ n' = n /\ n' \in 1..Cap'
    BY <1>1, <1>4, <2>2, <2>3, LengthOfCall
  <2>5. job' \in CallOf(n')
    BY <1>10, <2>3, <2>4
  <2>6. best' = NoLimits \/ \E b \in 1..Cap' : b <= proven' /\ best' = Envelope(b)
    <3>1. CASE best = NoLimits
      BY <1>4, <3>1
    <3>2. CASE \E b \in 1..Cap : b <= proven /\ best = Envelope(b)
      <4>1. PICK b \in 1..Cap : b <= proven /\ best = Envelope(b)
        BY <3>2
      <4>2. b <= proven'
        <5>1. b \in Nat /\ b <= proven
          BY <2>2, <4>1
        <5> QED
          BY <1>12, <5>1
      <4> QED
        BY <1>4, <2>2, <4>1, <4>2
    <3> QED
      BY <2>1, <3>1, <3>2 DEF IInv, Calibrating
  <2>7. last_ok' >= 1
    BY <1>3, <1>6
  <2>8. ASSUME gpu
        PROVE  /\ last_ok' <= proven' /\ limits'.items < exhausted'
               /\ exhausted' # Never' => job'.runs >= 1 /\ (job'.pos > 0 => job'.runs >= 2)
    <3>1. last_ok' <= proven'
      BY <1>3, <1>12, <2>1, <2>8
    <3>2. limits.items < exhausted /\ exhausted \in Nat
      BY <2>1, <2>8 DEF IInv, Calibrating, Typed
    <3>3. limits'.items < exhausted'
      BY <1>2, <1>3, <1>4, <1>5, <3>2 DEF Within, Limits, Sizes
    <3>4. exhausted' # Never => job.runs >= 1
      BY <1>4, <2>1, <2>8 DEF IInv, Calibrating
    <3>5. job.runs \in Nat /\ job'.runs \in Nat
      BY <1>1, <1>10 DEF CallOf
    <3> QED
      BY <1>10, <3>1, <3>3, <3>4, <3>5 DEF Never
  <2> QED
    BY <1>4, <2>4, <2>5, <2>6, <2>7, <2>8 DEF Calibrating
<1>17. ProvenEnvelope'
  <2>1. SUFFICES ASSUME gpu, ~interactive, pc = "run"
                 PROVE  /\ l.items <= proven /\ l.padded <= proven * ChunkSize
                        /\ l.items < exhausted
    BY <1>3, <1>4, <1>12 DEF ProvenEnvelope, InBatch
  <2>2. /\ limits.items <= proven /\ limits.padded <= proven * ChunkSize
        /\ limits.items < exhausted
    BY <2>1 DEF IInv, ProvenEnvelope
  <2>3. proven * ChunkSize \in Nat /\ exhausted \in Nat
    BY SchedulerAssumption, Products, <1>12 DEF IInv, Typed
  <2> QED
    BY <1>2, <1>5, <1>12, <2>2, <2>3 DEF Within, Limits, Sizes
<1>18. Returned'
  BY <1>4, <1>10 DEF IInv, Returned, InBatch
<1> QED
  BY <1>11, <1>13, <1>14, <1>15, <1>16, <1>17, <1>18 DEF IInv

\* Every other error of a batch.
LEMMA BreaksKeeps ==
  ASSUME IInv, Breaks
  PROVE  IInv'
<1>1. PICK l \in Pressed : Fallback(l, runtime)
  BY DEF Breaks
<1>2. limits \in Limits /\ l \in Limits /\ Within(l, limits)
  BY Presses DEF IInv, Sized, Breaks, InBatch
<1>3. PICK loaded \in {"none", "cpu", "cuda"} : loaded = runtime
  BY DEF IInv, Typed
<1>4. Fallback(l, loaded)
  BY <1>1, <1>3
<1> QED
  BY <1>2, <1>3, <1>4, FallbackKeeps DEF Breaks

LEMMA EmbedFailsKeeps ==
  ASSUME IInv, EmbedFails
  PROVE  IInv'
<1>1. PICK l \in Pressed : Fails(l, gpu, runtime)
  BY DEF EmbedFails
<1>2. limits \in Limits /\ l \in Limits /\ Within(l, limits)
  BY Presses DEF IInv, Sized, EmbedFails, InBatch
<1>3. PICK provider \in {"none", "cpu", "cuda"} : provider = runtime
  BY DEF IInv, Typed
<1>4. PICK isGpu \in BOOLEAN : isGpu = gpu
  BY DEF IInv, Typed
<1>5. /\ Fails(l, isGpu, provider)
      /\ provider = "cpu" => device # "cuda" /\ ~isGpu
      /\ provider = "cuda" => device # "cpu" /\ isGpu
  BY <1>1, <1>3, <1>4 DEF IInv, Provided, ProviderIsHonest
<1> QED
  BY <1>2, <1>4, <1>5, FailsKeeps DEF EmbedFails, InBatch

\* A batch runs out of memory: the next is smaller.
LEMMA RunsOutKeeps ==
  ASSUME IInv, RunsOut
  PROVE  IInv'
<1> USE DEF caller, config, device_, probing, history
<1>1. PICK k \in Nat : job \in CallOf(k) /\ Embedded(job, k)
  BY DEF IInv, IsCall
<1>2. Len(job.order) = k /\ job.pos < k /\ limits \in Limits
  BY <1>1, LengthOfCall DEF RunsOut, InBatch, IInv, Sized
<1>3. PICK p \in Pressed :
        /\ Divisible(Pack(p))
        /\ \/ /\ limits' = Halved(p, Pack(p))
              /\ job' = Ran(job)
              /\ exhausted' = Min2(exhausted, Pack(p))
              /\ UNCHANGED <<caller, pc, device_, last_ok, probing, result, proven>>
           \/ Fallback(Halved(p, Pack(p)), "none")
  BY DEF RunsOut
<1>4. p \in Limits /\ Within(p, limits)
  BY <1>2, Presses
<1>5. PICK count \in Nat : count = Pack(p) /\ count > 1
  BY <1>1, <1>2, <1>3, <1>4, PackFits DEF Divisible
<1>6. PICK l \in Limits : l = Halved(p, Pack(p)) /\ Within(l, p) /\ l.items < count
  BY <1>4, <1>5, Halves
<1>7. Within(l, limits)
  BY <1>2, <1>4, <1>6 DEF Within, Limits, Sizes
<1>8. CASE Fallback(Halved(p, Pack(p)), "none")
  BY <1>6, <1>7, <1>8, FallbackKeeps DEF RunsOut
<1>9. CASE /\ limits' = l
           /\ job' = Ran(job)
           /\ exhausted' = Min2(exhausted, count)
           /\ UNCHANGED <<caller, pc, device_, last_ok, probing, result, proven>>
  <2> USE <1>9
  <2>1. /\ job' \in CallOf(k) /\ job'.lens = job.lens /\ job'.order = job.order
        /\ job'.pos = job.pos /\ job'.output = job.output
        /\ job'.runs > 0 /\ (job.runs > 0 => job'.runs >= 2)
    BY <1>1, RanIsCall
  <2>2. IsCall'
    BY <1>1, <2>1 DEF IsCall, Embedded
  <2>3. exhausted \in Nat /\ exhausted' \in Nat /\ l.items \in Nat /\ proven \in Nat
    BY <1>6 DEF IInv, Typed, Min2, Limits, Sizes
  <2>4. limits.items < exhausted => l.items < exhausted'
    BY <1>2, <1>6, <1>7, <2>3 DEF Min2, Within, Limits, Sizes
  <2>5. Typed'
    <3>1. \E j \in Nat : request' \in [1..j -> 1..ChunkSize]
      BY DEF IInv, Typed
    <3> QED
      BY <2>3, <3>1 DEF IInv, Typed
  <2>6. Sized' /\ Fresh'
    BY DEF Sized, Fresh, RunsOut, InBatch
  <2>7. Provided'
    BY DEF IInv, Provided, ProviderIsHonest
  <2>8. Calibrating'
    <3>1. SUFFICES ASSUME pc = "calibrate"
                   PROVE  Calibrating'
      BY DEF Calibrating
    <3>2. PICK m \in Nat : m = n /\ job \in CallOf(m)
      BY <3>1 DEF IInv, Calibrating, Typed
    <3>3. m = k /\ job' \in CallOf(n')
      BY <1>1, <2>1, <3>2, LengthOfCall
    <3>4. job'.pos > 0 => job'.runs >= 2
      BY <1>1, <2>1 DEF Embedded
    <3>5. job'.runs >= 1
      BY <2>1 DEF CallOf
    <3>6. n' \in 1..Cap' /\ (job'.pos > 0 => last_ok' >= 1)
      BY <2>1, <3>1 DEF IInv, Calibrating, Cap
    <3>7. best' = NoLimits \/ \E b \in 1..Cap' : b <= proven' /\ best' = Envelope(b)
      BY <3>1 DEF IInv, Calibrating, Cap
    <3>8. gpu' => last_ok' <= proven' /\ limits'.items < exhausted'
      BY <2>4, <3>1 DEF IInv, Calibrating
    <3> QED
      BY <3>3, <3>4, <3>5, <3>6, <3>7, <3>8 DEF Calibrating
  <2>9. ProvenEnvelope'
    <3>1. SUFFICES ASSUME gpu, ~interactive, pc = "run"
                   PROVE  /\ l.items <= proven /\ l.padded <= proven * ChunkSize
                          /\ l.items < exhausted'
      BY DEF ProvenEnvelope, RunsOut, InBatch
    <3>2. /\ limits.items <= proven /\ limits.padded <= proven * ChunkSize
          /\ limits.items < exhausted
      BY <3>1 DEF IInv, ProvenEnvelope
    <3>3. proven * ChunkSize \in Nat
      BY SchedulerAssumption, Products, <2>3
    <3> QED
      BY <1>2, <1>7, <2>3, <2>4, <3>2, <3>3 DEF Within, Limits, Sizes
  <2>10. Returned'
    BY <2>1 DEF IInv, Returned, RunsOut, InBatch
  <2> QED
    BY <2>2, <2>5, <2>6, <2>7, <2>8, <2>9, <2>10 DEF IInv
<1> QED
  BY <1>3, <1>5, <1>6, <1>8, <1>9

LEMMA DoneKeeps ==
  ASSUME IInv, Done
  PROVE  IInv'
<1> USE DEF Done, caller, config, device_, probing, history
<1>1. IsCall' /\ Sized' /\ Fresh'
  BY DEF IInv, IsCall, Embedded, Sized, Fresh
<1>2. Typed'
  BY DEF IInv, Typed
<1>3. Provided'
  BY DEF IInv, Provided, ProviderIsHonest
<1>4. ProvenEnvelope'
  BY DEF IInv, ProvenEnvelope
<1> QED
  BY <1>1, <1>2, <1>3, <1>4 DEF IInv, Calibrating, Returned

\* Calibration ends with limits that it has proven, or on the CPU.
LEMMA SettleKeeps ==
  ASSUME IInv, pc = "calibrate", NEW l \in Limits, Settle(l),
         gpu => l.items <= proven /\ l.padded <= proven * ChunkSize /\ l.items < exhausted
  PROVE  IInv'
<1> USE DEF Settle, caller, config, device_, probing, history
<1>1. IsCall' /\ Returned' /\ Calibrating'
  BY ReturnsCall
<1>2. Typed'
  BY DEF IInv, Typed, Returns
<1>3. Provided'
  BY DEF IInv, Provided, ProviderIsHonest, Returns
<1>4. ProvenEnvelope' /\ Sized' /\ Fresh'
  BY DEF ProvenEnvelope, Sized, Fresh, Returns
<1> QED
  BY <1>1, <1>2, <1>3, <1>4 DEF IInv

LEMMA CalibrationMovedKeeps ==
  ASSUME IInv, CalibrationMoved
  PROVE  IInv'
<1>1. PICK l \in Limits : l = limits
  BY DEF IInv, Sized, CalibrationMoved
<1>2. pc = "calibrate" /\ ~gpu /\ Settle(l)
  BY <1>1 DEF CalibrationMoved
<1> QED
  BY <1>2, SettleKeeps

\* What calibration knows at the end of a probe.
LEMMA ProbeEnds ==
  ASSUME IInv, pc = "calibrate", job.pos = Len(job.order), gpu
  PROVE  /\ n \in Nat \ {0} /\ n <= Cap /\ Cap \in Nat /\ Cap < Never
         /\ Confirmed \in Sizes /\ Confirmed <= proven /\ Confirmed < exhausted
         /\ Whole => exhausted = Never /\ n <= proven
<1>1. Cap \in Nat /\ Cap < Never
  BY SchedulerAssumption DEF IInv, Typed, Cap, Min2, Never
<1>2. n \in 1..Cap /\ job \in CallOf(n)
  BY DEF IInv, Calibrating
<1>3. n \in Nat \ {0} /\ n <= Cap
  BY <1>1, <1>2
<1>4. job.pos = n
  BY <1>2, <1>3, LengthOfCall
<1>5. /\ last_ok \in Nat /\ last_ok >= 1 /\ last_ok <= proven /\ proven \in Nat
      /\ exhausted \in Nat /\ limits.items \in Sizes /\ limits.items < exhausted
      /\ exhausted # Never => job.runs >= 2
  BY <1>3, <1>4 DEF IInv, Calibrating, Typed, Sized, Limits
<1>6. Confirmed \in Sizes /\ Confirmed <= last_ok /\ Confirmed <= limits.items
  BY <1>3, <1>5 DEF Confirmed, Min2, Sizes
<1>7. Whole => exhausted = Never /\ n <= proven
  BY <1>3, <1>5, <1>6 DEF Whole, Sizes
<1> QED
  BY <1>1, <1>3, <1>5, <1>6, <1>7 DEF Sizes

LEMMA CalibrationSettlesKeeps ==
  ASSUME IInv, CalibrationSettles
  PROVE  IInv'
<1>1. pc = "calibrate" /\ job.pos = Len(job.order) /\ gpu /\ proven \in Nat
  BY DEF CalibrationSettles, IInv, Typed
<1>2. ASSUME NEW m \in Sizes, m <= proven, m < exhausted, Settle(Envelope(m))
      PROVE  IInv'
  <2>1. Envelope(m) \in Limits
    BY Envelopes
  <2>2. m * ChunkSize <= proven * ChunkSize
    BY <1>1, <1>2, SchedulerAssumption, Products DEF Sizes
  <2>3. Envelope(m).items = m /\ Envelope(m).padded = m * ChunkSize
    BY DEF Envelope
  <2> QED
    BY <1>1, <1>2, <2>1, <2>2, <2>3, SettleKeeps
<1>3. CASE Settle(Envelope(Confirmed))
  <2>1. PICK m \in Sizes : m = Confirmed
    BY <1>1, ProbeEnds
  <2> QED
    BY <1>1, <1>2, <1>3, <2>1, ProbeEnds
<1>4. CASE Whole /\ best # NoLimits /\ Settle(best)
  <2>1. PICK m \in 1..Cap : m <= proven /\ best = Envelope(m)
    BY <1>1, <1>4 DEF IInv, Calibrating
  <2>2. m \in Sizes /\ m < exhausted
    <3>1. Cap \in Nat /\ Cap < Never /\ exhausted = Never
      BY <1>1, <1>4, ProbeEnds
    <3>2. Never \in Nat
      BY SchedulerAssumption DEF Never
    <3> QED
      BY <2>1, <3>1, <3>2 DEF Sizes
  <2> QED
    BY <1>2, <1>4, <2>1, <2>2
<1> QED
  BY <1>3, <1>4 DEF CalibrationSettles

LEMMA CalibrationGrowsKeeps ==
  ASSUME IInv, CalibrationGrows
  PROVE  IInv'
<1> USE DEF CalibrationGrows, history, device_
<1>1. /\ n \in Nat \ {0} /\ n <= Cap /\ Cap \in Nat /\ exhausted = Never /\ n <= proven
  BY ProbeEnds
<1>2. n' = Min2(2 * n, Cap) /\ Probe(n')
  BY DEF Probe
<1>3. n' \in 1..Cap
  BY <1>1, <1>2 DEF Min2
<1>4. \E m \in 1..Cap : m <= proven /\ best' = Envelope(m)
  BY <1>1
<1>5. ~interactive /\ gpu' /\ runtime' = "cuda" /\ device # "cpu" /\ last_ok <= proven
  BY DEF IInv, Provided, ProviderIsHonest, Calibrating, Typed
<1> QED
  BY <1>1, <1>2, <1>3, <1>4, <1>5, ProbeKeeps

-----------------------------------------------------------------------------

LEMMA InitHolds == Init => IInv
<1> SUFFICES ASSUME Init
             PROVE  IInv
  OBVIOUS
<1> USE DEF Init
<1>1. << >> \in [1..0 -> 1..ChunkSize] /\ 0 \in Nat
  OBVIOUS
<1>2. IsCall
  BY <1>1, CallIsFresh DEF IsCall
<1>3. Typed
  <2>1. Never \in Nat
    BY SchedulerAssumption DEF Never
  <2> QED
    BY <1>1, <2>1 DEF Typed
<1> QED
  BY <1>2, <1>3 DEF IInv, Fresh, Sized, Provided, ProviderIsHonest, Calibrating, ProvenEnvelope, Returned

LEMMA StepHolds == IInv /\ [Next]_vars => IInv'
<1> SUFFICES ASSUME IInv, [Next]_vars
             PROVE  IInv'
  OBVIOUS
<1>1. CASE StartCpu \/ StartCuda \/ Infers \/ RunsOut \/ Breaks \/ EmbedFails
  BY <1>1, StartCpuKeeps, StartCudaKeeps, InfersKeeps, RunsOutKeeps, BreaksKeeps, EmbedFailsKeeps
<1>2. CASE StartFails \/ ProfileFails
  BY <1>2, NoSchedulerKeeps DEF StartFails, ProfileFails
<1>3. CASE Done \/ CalibrationMoved \/ CalibrationSettles \/ CalibrationGrows
  BY <1>3, DoneKeeps, CalibrationMovedKeeps, CalibrationSettlesKeeps, CalibrationGrowsKeeps
<1>4. CASE \E lens \in Windows : Ask(lens)
  BY <1>4, AskKeeps
<1>5. CASE UNCHANGED vars
  <2> USE <1>5 DEF vars, config, device_, probing, history
  <2>1. IsCall' /\ Fresh' /\ Sized'
    BY DEF IInv, IsCall, Embedded, Fresh, Sized
  <2>2. Typed'
    BY DEF IInv, Typed
  <2>3. Provided' /\ ProvenEnvelope' /\ Returned'
    BY DEF IInv, Provided, ProviderIsHonest, ProvenEnvelope, Returned
  <2>4. Calibrating'
    BY DEF IInv, Calibrating, Cap
  <2> QED
    BY <2>1, <2>2, <2>3, <2>4 DEF IInv
<1> QED
  BY <1>1, <1>2, <1>3, <1>4, <1>5 DEF Next, Works

\* The state of the scheduler: a call has an order of all its windows and the
\* vectors it says it has, calibration knows what was too much, and limits are
\* within what was proven.
THEOREM SchedulerInvariant == Spec => []IInv
<1> QED
  BY InitHolds, StepHolds, PTL DEF Spec

\* A call that succeeds returns the vector of every window at the window's own
\* place, however often `embed_inner` reduced the batches, created the session
\* again or moved to the CPU on the way.
THEOREM EveryWindow == Spec => []EveryWindowEmbedded
<1>1. ASSUME IInv
      PROVE  EveryWindowEmbedded
  <2>1. SUFFICES ASSUME result = "ok"
                 PROVE  /\ Len(job.output) = Len(request)
                        /\ \A i \in DOMAIN request : job.output[i] = i
    BY DEF EveryWindowEmbedded
  <2>2. PICK k \in Nat : job \in CallOf(k) /\ Embedded(job, k)
    BY <1>1 DEF IInv, IsCall
  <2>3. job.pos = k /\ request = job.lens /\ Len(job.output) = k
    BY <1>1, <2>1, <2>2, LengthOfCall DEF IInv, Returned
  <2>4. request \in [1..k -> 1..ChunkSize]
    BY <2>2, <2>3 DEF CallOf
  <2>5. DOMAIN request = 1..k /\ Len(request) = k
    BY <2>4
  <2>6. \A i \in 1..k : job.output[i] = i
    BY <2>2, <2>3 DEF Embedded
  <2> QED
    BY <2>3, <2>5, <2>6
<1> QED
  BY <1>1, SchedulerInvariant, PTL

\* On a GPU an ingestion forms no batch beyond what calibration has seen
\* succeed, nor one as large as what ran out of memory, whatever is reduced and
\* restored in which order.
THEOREM WithinTheProven == Spec => []ProvenEnvelope
<1>1. IInv => ProvenEnvelope
  BY DEF IInv
<1> QED
  BY <1>1, SchedulerInvariant, PTL

\* Explicit CUDA never computes on the CPU, the CPU is never reported as a
\* GPU, and an engine of queries that is kept has a session.
THEOREM HonestProvider == Spec => []ProviderIsHonest
<1>1. IInv => ProviderIsHonest
  BY DEF IInv, Provided
<1> QED
  BY <1>1, SchedulerInvariant, PTL
=============================================================================
