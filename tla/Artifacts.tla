------------------------------ MODULE Artifacts ------------------------------
(***************************************************************************)
(* The weights of the models in the shared cache: `ensure_artifact` of     *)
(* model/download.rs, the derivative that model/onnx/cls.rs builds from    *)
(* them, and the places of model/mod.rs that ask for either when a session *)
(* is created.                                                             *)
(*                                                                         *)
(* Every process verifies a file before it uses it and downloads it into a *)
(* temporary one if it is not as pinned.  A derivative is built under a    *)
(* lock of its own, of a parent that is verified again.  Processes run at  *)
(* the same time and share the cache; a file may be damaged at any moment. *)
(***************************************************************************)
EXTENDS Naturals

CONSTANTS
  Engines,      \* the processes
  NoBuilder,       \* the lock of a derivative is free
  Attempts,     \* downloads that are tried
  MaxDamages    \* bound on the damages of a behaviour

ASSUME ArtifactsAssumption == Attempts \in Nat \ {0}

VARIABLES
  weights,      \* the downloaded file of a device: "absent", "good", "bad"
  derived,      \* the derivative of it
  build_lock,   \* the process that holds the lock of a device's derivative
  damages,
  step,         \* where a process is
  policy,       \* "cpu", "cuda", or "auto": the CUDA device, rescued by the CPU
  device,       \* the device whose file it is about
  purpose,      \* what for: "rescue", a "session"
  cpu_path,     \* the verified rescue weights it still trusts
  attempt,      \* its download
  temp,         \* its temporary file
  cls,          \* it uses derivatives
  session,      \* the content its session was created of
  excused       \* the file was damaged after it was last verified

cache == <<weights, derived, build_lock>>
own   == <<policy, device, purpose, cpu_path, attempt, temp, cls, session>>
artifacts_vars  == <<cache, damages, step, own, excused>>

Devices == {"cpu", "cuda"}
Contents == {"absent", "good", "bad"}
EngineSteps == {"down", "ready", "verify", "download", "hash", "ensured", "lock", "check", "parent",
          "rewrite", "compare", "load", "running"}

ArtifactsInit ==
  /\ weights \in [Devices -> {"absent", "good"}] /\ derived = [d \in Devices |-> "absent"]
  /\ build_lock = [d \in Devices |-> NoBuilder] /\ damages = 0
  /\ policy = [p \in Engines |-> "auto"]
  /\ step = [p \in Engines |-> "down"] /\ device = [p \in Engines |-> "cpu"]
  /\ purpose = [p \in Engines |-> "session"] /\ cpu_path = [p \in Engines |-> FALSE]
  /\ attempt = [p \in Engines |-> 0] /\ temp = [p \in Engines |-> "absent"]
  /\ cls = [p \in Engines |-> FALSE] /\ session = [p \in Engines |-> "absent"]
  /\ excused = [p \in Engines |-> FALSE]

EngineGoes(p, from, to) == step[p] = from /\ step' = [step EXCEPT ![p] = to]
Is(f, p, value) == f' = [f EXCEPT ![p] = value]

\* A file of the cache changes under everybody.  One that is about to use it
\* has no other chance to notice; one whose session runs will verify again.
Damage(d) ==
  /\ damages < MaxDamages /\ damages' = damages + 1
  /\ \/ weights[d] = "good" /\ Is(weights, d, "bad") /\ UNCHANGED derived
     \/ derived[d] = "good" /\ Is(derived, d, "bad") /\ UNCHANGED weights
  /\ excused' = [p \in Engines |->
                  excused[p] \/ (device[p] = d /\ step[p] \notin {"down", "running"})]
  /\ UNCHANGED <<build_lock, step, own>>

\* `provision_cpu` before the first session, unless the policy is CUDA.
Provision(p) ==
  /\ EngineGoes(p, "down", "verify") /\ Is(device, p, "cpu") /\ Is(purpose, p, "rescue")
  /\ \E how \in {"cpu", "auto"} : Is(policy, p, how)
  /\ \E uses \in BOOLEAN : Is(cls, p, uses)
  /\ UNCHANGED <<cache, damages, cpu_path, attempt, temp, session, excused>>
SkipRescue(p) ==
  /\ EngineGoes(p, "down", "ready") /\ Is(policy, p, "cuda")
  /\ \E uses \in BOOLEAN : Is(cls, p, uses)
  /\ UNCHANGED <<cache, damages, device, purpose, cpu_path, attempt, temp, session, excused>>

\* A wrong form: the rescue weights stay trusted while a GPU session runs.
Retained(p) == cpu_path[p]
Forgotten(p) == FALSE

Unlocked(p) ==
  build_lock' = [d \in Devices |-> IF build_lock[d] = p THEN NoBuilder ELSE build_lock[d]]

\* `create` of the factory, at the start and whenever a session is recreated.
CreateCuda(p) ==
  /\ step[p] \in {"ready", "running"} /\ policy[p] # "cpu" /\ Is(step, p, "verify")
  /\ Is(device, p, "cuda") /\ Is(purpose, p, "session") /\ Is(cpu_path, p, Forgotten(p))
  /\ Is(session, p, "absent") /\ UNCHANGED <<cache, damages, policy, attempt, temp, cls, excused>>

\* On the CPU; under "auto" also in the place of a CUDA session that failed, when
\* it ran or at any step of its creation (`fallback` of the scheduler).
CreateCpu(p) ==
  /\ step[p] \in {"ready", "running"} \/ (step[p] # "down" /\ device[p] = "cuda")
  /\ policy[p] # "cuda" /\ Is(step, p, IF cpu_path[p] THEN "ensured" ELSE "verify")
  /\ Is(device, p, "cpu") /\ Is(purpose, p, "session") /\ Is(cpu_path, p, FALSE)
  /\ Unlocked(p) /\ Is(attempt, p, 0) /\ Is(temp, p, "absent") /\ Is(session, p, "absent")
  /\ UNCHANGED <<weights, derived, damages, policy, cls, excused>>

Ensured(p) ==
  IF purpose[p] = "rescue" THEN Is(step, p, "ready") /\ Is(cpu_path, p, TRUE)
  ELSE Is(step, p, "ensured") /\ UNCHANGED cpu_path

Verify(p) ==
  /\ step[p] = "verify"
  /\ IF weights[device[p]] = "good"
     THEN Ensured(p) /\ Is(excused, p, FALSE) /\ UNCHANGED attempt
     ELSE /\ Is(step, p, "download") /\ Is(attempt, p, 1)
          /\ UNCHANGED <<cpu_path, excused>>
  /\ UNCHANGED <<cache, damages, policy, device, purpose, temp, cls, session>>

\* As many bytes as expected have come.
Download(p) ==
  /\ EngineGoes(p, "download", "hash") /\ \E c \in {"good", "bad"} : Is(temp, p, c)
  /\ Is(attempt, p, 0)
  /\ UNCHANGED <<cache, damages, policy, device, purpose, cpu_path, cls, session, excused>>

\* The network fails, or the size is not the expected one: it is tried again.
Retry(p) ==
  /\ step[p] = "download" /\ attempt[p] < Attempts /\ Is(attempt, p, attempt[p] + 1)
  /\ UNCHANGED <<cache, damages, step, policy, device, purpose, cpu_path, temp, cls, session,
                 excused>>

Matches(content) == content = "good"

\* "A checksum mismatch is not retried and never activated."  The verified
\* file is renamed over whatever is there, by each that has one.
Persist(p) ==
  /\ step[p] = "hash" /\ Matches(temp[p])
  /\ Is(weights, device[p], temp[p]) /\ Ensured(p) /\ Is(excused, p, FALSE)
  /\ Is(temp, p, "absent")
  /\ UNCHANGED <<derived, build_lock, damages, policy, device, purpose, attempt, cls, session>>

\* The derivative, if the process uses it, else the weights.
Derive(p) ==
  /\ EngineGoes(p, "ensured", IF cls[p] THEN "lock" ELSE "load")
  /\ UNCHANGED <<cache, damages, own, excused>>
Lock(p) ==
  /\ EngineGoes(p, "lock", "check")
  /\ build_lock[device[p]] = NoBuilder /\ Is(build_lock, device[p], p)
  /\ UNCHANGED <<weights, derived, damages, own, excused>>
CheckDerived(p) ==
  /\ step[p] = "check"
  /\ IF derived[device[p]] = "good"
     THEN Is(step, p, "load") /\ Unlocked(p) /\ Is(excused, p, FALSE)
     ELSE Is(step, p, "parent") /\ UNCHANGED <<build_lock, excused>>
  /\ UNCHANGED <<weights, derived, damages, own>>
CheckParent(p) ==
  /\ weights[device[p]] = "good" /\ EngineGoes(p, "parent", "rewrite")
  /\ UNCHANGED <<cache, damages, own, excused>>
Rewrite(p) ==
  /\ EngineGoes(p, "rewrite", "compare") /\ Is(temp, p, weights[device[p]])
  /\ UNCHANGED <<cache, damages, policy, device, purpose, cpu_path, attempt, cls, session, excused>>
PersistDerived(p) ==
  /\ Matches(temp[p]) /\ EngineGoes(p, "compare", "load")
  /\ Is(derived, device[p], temp[p]) /\ Unlocked(p) /\ Is(excused, p, FALSE)
  /\ Is(temp, p, "absent")
  /\ UNCHANGED <<weights, damages, policy, device, purpose, cpu_path, attempt, cls, session>>

Load(p) ==
  /\ EngineGoes(p, "load", "running")
  /\ Is(session, p, IF cls[p] THEN derived[device[p]] ELSE weights[device[p]])
  /\ UNCHANGED <<cache, damages, policy, device, purpose, cpu_path, attempt, temp, cls, excused>>

\* Any of it fails, for a hash that is wrong among other reasons, and nothing
\* is left to try, or the process is killed.
EngineEnds(p) ==
  /\ step[p] # "down" /\ Is(step, p, "down") /\ Unlocked(p)
  /\ Is(cpu_path, p, FALSE) /\ Is(attempt, p, 0) /\ Is(temp, p, "absent")
  /\ Is(session, p, "absent") /\ Is(excused, p, FALSE) /\ Is(cls, p, FALSE)
  /\ Is(policy, p, "auto") /\ Is(device, p, "cpu") /\ Is(purpose, p, "session")
  /\ UNCHANGED <<weights, derived, damages>>

EngineStep(p) ==
  \/ Provision(p) \/ SkipRescue(p) \/ CreateCuda(p) \/ CreateCpu(p)
  \/ Verify(p) \/ Download(p) \/ Retry(p) \/ Persist(p)
  \/ Derive(p) \/ Lock(p) \/ CheckDerived(p) \/ CheckParent(p) \/ Rewrite(p) \/ PersistDerived(p)
  \/ Load(p) \/ EngineEnds(p)
ArtifactsNext == (\E p \in Engines : EngineStep(p)) \/ \E d \in Devices : Damage(d)
ArtifactsSpec == ArtifactsInit /\ [][ArtifactsNext]_artifacts_vars

-----------------------------------------------------------------------------
(* Properties.                                                             *)

\* The type invariant.
ArtifactsTypeOK ==
  /\ weights \in [Devices -> Contents] /\ derived \in [Devices -> Contents]
  /\ build_lock \in [Devices -> Engines \cup {NoBuilder}] /\ step \in [Engines -> EngineSteps]
  /\ policy \in [Engines -> {"cpu", "cuda", "auto"}]
  /\ device \in [Engines -> Devices] /\ attempt \in [Engines -> 0..Attempts]
  /\ cpu_path \in [Engines -> BOOLEAN] /\ session \in [Engines -> Contents]

\* A session is created of the pinned content: whatever the network, another
\* process and damage to the shared cache do, and however often sessions are
\* recreated, what was damaged before its last use began is noticed.
SessionsArePinned ==
  \A p \in Engines : step[p] = "running" => session[p] = "good" \/ excused[p]
=============================================================================
