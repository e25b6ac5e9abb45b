----------------------------- MODULE Scheduler -----------------------------
(***************************************************************************)
(* The embedding scheduler: `Scheduler` and `LocalEngine` of model/mod.rs  *)
(* and `Limits` of model/batch.rs.                                         *)
(*                                                                         *)
(* A caller asks for the embeddings of token windows.  The engine creates  *)
(* its scheduler on first use: it selects a device, creates a runtime,     *)
(* and on a GPU calibrates how much fits into one batch.  Windows are then *)
(* sorted by length, packed into batches and inferred; memory pressure and *)
(* exhaustion shrink the batches, a broken GPU falls back to the CPU when  *)
(* the device is `auto`.  A window is modelled by its length, and the      *)
(* vector of the i-th window by i.                                         *)
(***************************************************************************)
EXTENDS Naturals, Sequences, SequencesExt, FiniteSetsExt

CONSTANTS
  Devices,      \* the devices a configuration may ask for
  BatchSizes,   \* the batch sizes it may ask for; 0: none
  Lengths,      \* lengths of the windows of the workload
  MaxInputs,    \* windows of a call
  MaxCalls,     \* bound on the calls of a behaviour
  ChunkSize,    \* length of a full window
  CudaItems, CpuItems,          \* items of a batch before calibration (2, 8)
  FallbackItems, FallbackPadded,\* limits after a fallback (8, 4096)
  ProbeItems, MaxProbe          \* items a calibration tries (16, at most 64)

ASSUME SchedulerAssumption ==
  /\ Devices \subseteq {"cpu", "auto", "cuda"}
  /\ BatchSizes \subseteq Nat /\ MaxInputs \in Nat /\ MaxCalls \in Nat
  /\ ChunkSize \in Nat \ {0} /\ Lengths \subseteq 1..ChunkSize
  /\ {CudaItems, CpuItems, FallbackItems, FallbackPadded, ProbeItems, MaxProbe} \subseteq Nat \ {0}

VARIABLES
  device, batch_size, interactive,  \* the configuration, and a query's or an ingestion's engine
  pc,          \* no scheduler, or what it is doing
  request,     \* the windows the caller asks for
  gpu,         \* a device is selected, and not given up
  runtime,     \* the provider of the session that is loaded
  limits,      \* max_items and max_padded_tokens
  job,         \* the call of embed_inner
  last_ok,     \* last_successful_items
  n, best,     \* calibration: the items that are tried, the best limits so far
  result, calls,
  \* history of a scheduler: the largest batch of full windows that calibration
  \* ran, the smallest batch that ran out of memory
  proven, exhausted

config  == <<device, batch_size, interactive>>
device_ == <<gpu, runtime>>
probing == <<n, best>>
history == <<proven, exhausted>>
caller  == <<config, request, calls>>
vars == <<config, pc, request, device_, limits, job, last_ok, probing, result, calls, history>>

Min2(a, b) == IF a < b THEN a ELSE b
Max2(a, b) == IF a < b THEN b ELSE a

Windows == UNION {[1..k -> Lengths] : k \in 1..MaxInputs}
NoLimits == [items |-> 0, padded |-> 0]
Never == MaxInputs + ProbeItems + MaxProbe + 1

\* Indices by length, as the stable sort leaves them: before a window are those
\* that are shorter, and those of its length that come before it in the call.
UpTo(lens, i) ==
  {j \in DOMAIN lens : lens[j] < lens[i] \/ (lens[j] = lens[i] /\ j <= i)}
Order(lens) ==
  [place \in DOMAIN lens |-> CHOOSE i \in DOMAIN lens : Cardinality(UpTo(lens, i)) = place]
Call(lens) == [lens |-> lens, order |-> Order(lens), pos |-> 0,
               output |-> [i \in DOMAIN lens |-> 0], runs |-> 0]

Init ==
  /\ device \in Devices /\ batch_size \in BatchSizes /\ interactive \in BOOLEAN
  /\ pc = "none" /\ request = << >> /\ gpu = FALSE /\ runtime = "none"
  /\ limits = NoLimits /\ job = Call(<< >>) /\ last_ok = 0 /\ n = 0 /\ best = NoLimits
  /\ result = "none" /\ calls = 0
  /\ proven = 0 /\ exhausted = Never

-----------------------------------------------------------------------------
(* Limits.                                                                 *)

Reduced(l) == [items |-> Max2(l.items \div 2, 1), padded |-> Max2(l.padded \div 2, 1)]
Fallen(l)  == [items |-> Min2(l.items, FallbackItems), padded |-> Min2(l.padded, FallbackPadded)]
Envelope(items) == [items |-> items, padded |-> items * ChunkSize]

\* The windows of the next batch: no more than `items` of them, and no more
\* than `padded` tokens when each is padded to the last, but always one.
Pack(l) ==
  LET left == Len(job.order) - job.pos
      longest(k) == job.lens[job.order[job.pos + k]]
  IN Max({k \in 1..Min2(l.items, left) : k = 1 \/ longest(k) * k <= l.padded})
\* A wrong form: only the limits are halved, not what was really tried.
HalvedLimits(l, count) == Reduced(l)
Halved(l, count) == [Reduced(l) EXCEPT !.items = Min2(@, Max2(count \div 2, 1))]

-----------------------------------------------------------------------------
(* A call, and the creation of the scheduler.                              *)

Ask(lens) ==
  /\ pc \in {"none", "idle"} /\ calls < MaxCalls
  /\ interactive => Len(lens) = 1
  /\ calls' = calls + 1 /\ request' = lens /\ result' = "none"
  /\ job' = Call(lens)
  /\ pc' = IF pc = "idle" THEN "run" ELSE "start"
  /\ UNCHANGED <<config, device_, limits, last_ok, probing, history>>

Returns == pc' = "run" /\ job' = Call(request) /\ UNCHANGED <<caller, result>>

\* No scheduler is left of an initialization that fails.
NoScheduler ==
  /\ pc' = "none" /\ result' = "error"
  /\ gpu' = FALSE /\ runtime' = "none" /\ limits' = NoLimits /\ last_ok' = 0
  /\ proven' = 0 /\ exhausted' = Never /\ n' = 0 /\ best' = NoLimits
  /\ UNCHANGED <<caller, job>>

FirstItems(onGpu) ==
  IF interactive THEN 1
  ELSE IF batch_size # 0 THEN batch_size
  ELSE IF onGpu THEN CudaItems ELSE CpuItems

\* On the CPU, because it was asked for, no device is suitable, or CUDA failed.
StartCpu ==
  /\ pc = "start" /\ device # "cuda"
  /\ \/ limits' = Envelope(FirstItems(FALSE))
     \/ device = "auto" /\ limits' = Fallen(Envelope(FirstItems(TRUE)))
  /\ gpu' = FALSE /\ runtime' = "cpu" /\ Returns
  /\ UNCHANGED <<last_ok, probing, history>>

\* `calibrate` runs a batch of exactly k full windows.
Probe(k) ==
  /\ pc' = "calibrate" /\ n' = k /\ limits' = Envelope(k)
  /\ job' = Call([i \in 1..k |-> ChunkSize])
  /\ UNCHANGED <<caller, result>>

Cap == Min2(IF batch_size # 0 THEN batch_size ELSE ProbeItems, MaxProbe)
\* What a cached profile says is a hint of where to begin.
Hints == IF batch_size # 0 THEN {Cap} ELSE 1..Cap

StartCuda ==
  /\ pc = "start" /\ device # "cpu"
  /\ gpu' = TRUE /\ runtime' = "cuda"
  /\ IF interactive THEN limits' = Envelope(1) /\ Returns /\ UNCHANGED probing
     ELSE best' = NoLimits /\ \E k \in Hints : Probe(k)
  /\ UNCHANGED <<last_ok, history>>

StartFails == pc = "start" /\ NoScheduler

-----------------------------------------------------------------------------
(* `embed_inner`: one turn of its loop per action.                         *)

InBatch == pc \in {"calibrate", "run"} /\ job.pos < Len(job.order)
\* Free memory is low, or not.
Pressed == {limits} \cup IF gpu THEN {Reduced(limits)} ELSE {}
\* The inferences of a call: none, one, or more (2 and 3 in turn, so that a retry
\* is a step).
Ran(k) == [k EXCEPT !.runs = IF @ < 3 THEN @ + 1 ELSE 2]

Kept == pc # "calibrate" /\ ~interactive
\* The error of a batch ends the call.
Fails(l, isGpu, provider) ==
  IF Kept THEN /\ pc' = "idle" /\ result' = "error"
               /\ limits' = l /\ gpu' = isGpu /\ runtime' = provider
               /\ UNCHANGED <<caller, job, last_ok, probing, history>>
  ELSE NoScheduler

Beyond(l) == job.pos + Pack(l)
\* A wrong form: vectors are kept in the order of the batches.
SortedSlot(k) == job.pos + k
Slot(k) == job.order[job.pos + k]
\* A batch is embedded: its vectors go where the windows came from.
Infers ==
  /\ InBatch /\ runtime # "none"
  /\ \E l \in Pressed :
       /\ limits' = l
       /\ job' = [Ran(job) EXCEPT
                    !.pos = Beyond(l),
                    !.output = [i \in DOMAIN @ |->
                                  LET from == {k \in 1..Pack(l) : Slot(k) = i}
                                  IN IF from = {} THEN @[i]
                                     ELSE job.order[job.pos + (CHOOSE k \in from : TRUE)]]]
       /\ last_ok' = Pack(l)
       /\ proven' = IF pc = "calibrate" /\ gpu THEN Max2(proven, Pack(l)) ELSE proven
  /\ UNCHANGED <<caller, pc, device_, probing, result, exhausted>>

\* A wrong form: whatever device was asked for.
AlwaysFallBack == TRUE
MayFallBack == device = "auto"
\* `fallback`, with the session that is loaded or after it was taken.
Fallback(l, loaded) ==
  \/ /\ MayFallBack
     /\ gpu' = FALSE /\ runtime' = "cpu" /\ limits' = Fallen(l)
     /\ job' = Ran(job)
     /\ UNCHANGED <<caller, pc, last_ok, probing, result, history>>
  \/ MayFallBack /\ Fails(l, FALSE, "none")
  \/ ~MayFallBack /\ Fails(l, gpu, loaded)

\* A wrong form: a single window is tried again.
AlwaysDivisible(count) == TRUE
Divisible(count) == count > 1

\* Out of memory: a smaller batch is tried in a new session.
RunsOut ==
  /\ InBatch /\ runtime # "none" /\ gpu
  /\ \E l \in Pressed :
       LET count == Pack(l) IN
       /\ Divisible(count)
       /\ \/ /\ limits' = Halved(l, count)
             /\ job' = Ran(job)
             /\ exhausted' = Min2(exhausted, count)
             /\ UNCHANGED <<caller, pc, device_, last_ok, probing, result, proven>>
          \/ Fallback(Halved(l, count), "none")

\* The GPU fails in another way, or with a single window.
Breaks ==
  /\ InBatch /\ runtime # "none" /\ gpu
  /\ \E l \in Pressed : Fallback(l, runtime)

\* The CPU fails, a vector is invalid or missing, or there is no session.
EmbedFails ==
  /\ InBatch
  /\ \E l \in Pressed : Fails(l, gpu, runtime)

Done ==
  /\ pc = "run" /\ job.pos = Len(job.order)
  /\ pc' = "idle" /\ result' = "ok"
  /\ UNCHANGED <<caller, device_, limits, job, last_ok, probing, history>>

-----------------------------------------------------------------------------
(* After a batch of the calibration.                                       *)

Settle(l) == limits' = l /\ Returns /\ UNCHANGED <<device_, last_ok, probing, history>>

Confirmed == Min2(Min2(limits.items, last_ok), n)
Whole == job.runs = 1 /\ Confirmed = n

CalibrationMoved ==
  /\ pc = "calibrate" /\ job.pos = Len(job.order) /\ ~gpu
  /\ Settle(limits)

\* The probe was split, or slower than the one before, or the last: the limits
\* are settled, and saved.
CalibrationSettles ==
  /\ pc = "calibrate" /\ job.pos = Len(job.order) /\ gpu
  /\ \/ Settle(Envelope(Confirmed))
     \/ Whole /\ best # NoLimits /\ Settle(best)

CalibrationGrows ==
  /\ pc = "calibrate" /\ job.pos = Len(job.order) /\ gpu
  /\ Whole /\ batch_size = 0 /\ n < Cap
  /\ best' = Envelope(n) /\ Probe(Min2(2 * n, Cap))
  /\ UNCHANGED <<device_, last_ok, history>>

ProfileFails ==
  /\ pc = "calibrate" /\ job.pos = Len(job.order) /\ gpu /\ NoScheduler

Works == \/ StartCpu \/ StartCuda \/ StartFails
         \/ Infers \/ RunsOut \/ Breaks \/ EmbedFails \/ Done
         \/ CalibrationMoved \/ CalibrationSettles \/ CalibrationGrows \/ ProfileFails
Next == Works \/ \E lens \in Windows : Ask(lens)

\* The thread runs, and no inference lasts for ever.
Spec == Init /\ [][Next]_vars /\ WF_vars(Works)

-----------------------------------------------------------------------------
(* Properties.                                                             *)

\* A call that succeeds returns for every window its own vector, at its own
\* place, whatever was reduced, tried again or moved to the CPU on the way.
EveryWindowEmbedded ==
  result = "ok" => Len(job.output) = Len(request) /\ \A i \in DOMAIN request : job.output[i] = i

\* On a GPU an ingestion only forms batches that calibration has seen succeed
\* at full length, and none as large as one that was reduced for running out of
\* memory since.  This is about what the code records: a single window that runs
\* out of memory is no batch to reduce, and sends the call to the CPU instead.
ProvenEnvelope ==
  gpu /\ ~interactive /\ pc \in {"run", "idle"} =>
    /\ limits.items <= proven /\ limits.padded <= proven * ChunkSize
    /\ limits.items < exhausted

\* Explicit CUDA never computes on the CPU, and the precision an ingestion
\* reports (fp16 with a device, int8 without) is that of its session, which a
\* query service that keeps its scheduler still has.
ProviderIsHonest ==
  /\ runtime = "cpu" => device # "cuda" /\ ~gpu
  /\ runtime = "cuda" => device # "cpu" /\ gpu
  /\ interactive /\ pc = "idle" => runtime # "none"

\* Every call ends: reductions and fallbacks run out.
EmbedEnds == pc \in {"start", "calibrate", "run"} ~> pc \in {"none", "idle"}
=============================================================================
