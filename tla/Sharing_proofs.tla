--------------------------- MODULE Sharing_proofs ----------------------------
(***************************************************************************)
(* Proofs about what processes share through the file system without       *)
(* talking to each other: a socket path, the checkout of a repository, and *)
(* the cache of weights.  Any number of processes of each kind are         *)
(* started, killed and started again at any moment.                        *)
(***************************************************************************)
EXTENDS Endpoint, Checkout, Artifacts, TLAPS

-----------------------------------------------------------------------------
(***************************************************************************)
(* For any number of workers at one path, started, killed and started      *)
(* again at any moment: one that serves can be reached at the path.        *)
(*                                                                         *)
(* The invariant that carries it: whoever is past the lock holds it, so    *)
(* nobody else touches the path; and from `bind` on the path is what that  *)
(* worker made.                                                            *)
(***************************************************************************)
\* The places past the lock.
PastTheLock == Places \ {"down", "locking"}

Exclusive == \A w \in Workers : place[w] \in PastTheLock => lock = w
OwnPath ==
  \A w \in Workers :
    /\ place[w] \in {"bound", "identifying", "serving"} => path = made[w]
    /\ place[w] \in {"identifying", "serving"} => w \in listening
EndpointInv == EndpointTypeOK /\ Exclusive /\ OwnPath

\* A step at which a worker ends changes nothing that the others rely on.
LEMMA WorkerEndsKeeps ==
  ASSUME EndpointInv, NEW w \in Workers, WorkerEnds(w), UNCHANGED <<path, binds>>
  PROVE  EndpointInv'
<1>1. EndpointTypeOK'
  BY DEF EndpointInv, EndpointTypeOK, WorkerEnds, Places
<1>2. Exclusive'
  BY DEF EndpointInv, EndpointTypeOK, WorkerEnds, Places, PastTheLock, Exclusive
<1>3. OwnPath'
  BY DEF EndpointInv, EndpointTypeOK, WorkerEnds, Places, OwnPath
<1> QED
  BY <1>1, <1>2, <1>3 DEF EndpointInv

\* A worker that is past the lock is alone there: what it does to the path
\* disturbs no other.
LEMMA OneInside ==
  ASSUME EndpointInv, NEW w \in Workers, place[w] \in PastTheLock
  PROVE  \A v \in Workers \ {w} : place[v] \in {"down", "locking"}
BY DEF EndpointInv, EndpointTypeOK, Exclusive, PastTheLock

\* Every step of a worker preserves the invariant.
LEMMA WorkerKeeps ==
  ASSUME EndpointInv, NEW w \in Workers, WorkerStep(w)
  PROVE  EndpointInv'
<1> USE DEF WorkerGoes, Places, PastTheLock
<1>1. CASE StartWorker(w)
  <2>1. EndpointTypeOK'     BY <1>1 DEF EndpointInv, EndpointTypeOK, StartWorker
  <2>2. Exclusive'  BY <1>1 DEF EndpointInv, EndpointTypeOK, Exclusive, StartWorker
  <2>3. OwnPath'    BY <1>1 DEF EndpointInv, EndpointTypeOK, OwnPath, StartWorker
  <2> QED           BY <2>1, <2>2, <2>3 DEF EndpointInv
<1>2. CASE TakeLock(w)
  <2>1. EndpointTypeOK'     BY <1>2 DEF EndpointInv, EndpointTypeOK, TakeLock
  <2>2. \A v \in Workers : place[v] \notin PastTheLock
    BY <1>2, EndpointAssumption DEF EndpointInv, Exclusive, TakeLock
  <2>3. Exclusive'  BY <1>2, <2>2 DEF EndpointInv, EndpointTypeOK, Exclusive, TakeLock
  <2>4. OwnPath'    BY <1>2 DEF EndpointInv, EndpointTypeOK, OwnPath, TakeLock
  <2> QED           BY <2>1, <2>3, <2>4 DEF EndpointInv
<1>3. CASE FindNothing(w) \/ FindStale(w)
  <2>1. EndpointTypeOK'     BY <1>3 DEF EndpointInv, EndpointTypeOK, FindNothing, FindStale
  <2>2. Exclusive'  BY <1>3 DEF EndpointInv, EndpointTypeOK, Exclusive, FindNothing, FindStale
  <2>3. OwnPath'    BY <1>3 DEF EndpointInv, EndpointTypeOK, OwnPath, FindNothing, FindStale
  <2> QED           BY <2>1, <2>2, <2>3 DEF EndpointInv
<1>4. CASE RemoveStale(w)
  <2>1. EndpointTypeOK'     BY <1>4 DEF EndpointInv, EndpointTypeOK, RemoveStale
  <2>2. Exclusive'  BY <1>4 DEF EndpointInv, EndpointTypeOK, Exclusive, RemoveStale
  <2>3. \A v \in Workers \ {w} : place[v] \in {"down", "locking"}
    BY <1>4, OneInside DEF RemoveStale
  <2>4. OwnPath'    BY <1>4, <2>3 DEF EndpointInv, EndpointTypeOK, OwnPath, RemoveStale
  <2> QED           BY <2>1, <2>2, <2>4 DEF EndpointInv
<1>5. CASE Bind(w)
  <2>1. EndpointTypeOK'     BY <1>5 DEF EndpointInv, EndpointTypeOK, Bind
  <2>2. Exclusive'  BY <1>5 DEF EndpointInv, EndpointTypeOK, Exclusive, Bind
  <2>3. \A v \in Workers \ {w} : place[v] \in {"down", "locking"}
    BY <1>5, OneInside DEF Bind
  <2>4. OwnPath'    BY <1>5, <2>3 DEF EndpointInv, EndpointTypeOK, OwnPath, Bind
  <2> QED           BY <2>1, <2>2, <2>4 DEF EndpointInv
<1>6. CASE Listen(w) \/ Identify(w)
  <2>1. EndpointTypeOK'     BY <1>6 DEF EndpointInv, EndpointTypeOK, Listen, Identify
  <2>2. Exclusive'  BY <1>6 DEF EndpointInv, EndpointTypeOK, Exclusive, Listen, Identify
  <2>3. OwnPath'    BY <1>6 DEF EndpointInv, EndpointTypeOK, OwnPath, Listen, Identify
  <2> QED           BY <2>1, <2>2, <2>3 DEF EndpointInv
<1>7. CASE LeaveEndpoint(w)
  <2>1. EndpointTypeOK'     BY <1>7 DEF EndpointInv, EndpointTypeOK, LeaveEndpoint
  <2>2. Exclusive'  BY <1>7 DEF EndpointInv, EndpointTypeOK, Exclusive, LeaveEndpoint
  <2>3. OwnPath'    BY <1>7 DEF EndpointInv, EndpointTypeOK, OwnPath, LeaveEndpoint
  <2> QED           BY <2>1, <2>2, <2>3 DEF EndpointInv
<1>8. CASE Unlink(w)
  <2>1. EndpointTypeOK'     BY <1>8 DEF EndpointInv, EndpointTypeOK, Unlink
  <2>2. Exclusive'  BY <1>8 DEF EndpointInv, EndpointTypeOK, Exclusive, Unlink
  <2>3. \A v \in Workers \ {w} : place[v] \in {"down", "locking"}
    BY <1>8, OneInside DEF Unlink
  <2>4. OwnPath'    BY <1>8, <2>3 DEF EndpointInv, EndpointTypeOK, OwnPath, Unlink
  <2> QED           BY <2>1, <2>2, <2>4 DEF EndpointInv
<1>9. CASE LockIsTaken(w) \/ FindOther(w) \/ BindFails(w) \/ Close(w) \/ Crash(w)
  BY <1>9, WorkerEndsKeeps DEF LockIsTaken, FindOther, BindFails, Close, Crash
<1> QED
  BY <1>1, <1>2, <1>3, <1>4, <1>5, <1>6, <1>7, <1>8, <1>9 DEF WorkerStep

LEMMA EndpointInvariant == EndpointSpec => []EndpointInv
<1>1. EndpointInit => EndpointInv
  BY DEF EndpointInit, EndpointInv, EndpointTypeOK, Exclusive, OwnPath, Places, PastTheLock
<1>2. EndpointInv /\ [EndpointNext]_endpoint_vars => EndpointInv'
  <2> SUFFICES ASSUME EndpointInv, [EndpointNext]_endpoint_vars PROVE EndpointInv'
    OBVIOUS
  <2>1. CASE EndpointNext
    BY <2>1, WorkerKeeps DEF EndpointNext
  <2>2. CASE UNCHANGED endpoint_vars
    BY <2>2 DEF endpoint_vars, EndpointInv, EndpointTypeOK, Exclusive, OwnPath
  <2> QED
    BY <2>1, <2>2
<1> QED
  BY <1>1, <1>2, PTL DEF EndpointSpec

\* A worker that serves listens, and what it listens on is what the path holds:
\* `Endpoint::bind` and its `drop` never remove or replace the socket of another
\* worker that serves, for any number of workers, deaths and restarts.
THEOREM Reachable == EndpointSpec => []ServingIsReachable
<1>1. EndpointInv => ServingIsReachable
  BY DEF EndpointInv, OwnPath, ServingIsReachable
<1> QED
  BY <1>1, EndpointInvariant, PTL

\* Every variable of the socket is of its type.
THEOREM EndpointTypes == EndpointSpec => []EndpointTypeOK
<1>1. EndpointInv => EndpointTypeOK
  BY DEF EndpointInv
<1> QED
  BY <1>1, EndpointInvariant, PTL

-----------------------------------------------------------------------------
(***************************************************************************)
(* For any number of processes and commits: what is extracted from a       *)
(* shared checkout is of the commit that is recorded with it.              *)
(*                                                                         *)
(* The invariant that carries it: whoever lives past the lease holds it;   *)
(* at most one reset, of the living and the orphans, has the lock of the   *)
(* index; and what a process has made of the checkout so far stays so,     *)
(* unless an orphan begins to change it, which that lock puts off until    *)
(* the index is replaced.                                                  *)
(***************************************************************************)
\* The steps with the lease.
Inside == Stages \ {"down", "leasing"}
\* The steps after the files and the index are replaced.
Settled == Placed \ Locking
Alive(p) == p \notin orphans

CheckoutTyped ==
  /\ stage \in [Ingests -> Stages]
  /\ orphans \subseteq Ingests /\ \A p \in orphans : stage[p] \in Changing
  /\ disturbed \subseteq Ingests /\ \A p \in disturbed : stage[p] \in Placed /\ Alive(p)
  /\ target \in [Ingests -> Nat] /\ commit \in [Ingests -> Nat] /\ clone \in [Ingests -> Nat]
  /\ seen \in [Ingests -> SUBSET SUBSET Nat]
  /\ {remote, fetch_head, head, index} \cup tree \subseteq Nat
Leased == \A p \in Ingests : stage[p] \in Inside /\ Alive(p) => lease = p
OneWriter ==
  /\ \A p \in Ingests : stage[p] \in Locking => index_lock = "held"
  /\ \A p, q \in Ingests : stage[p] \in Locking /\ stage[q] \in Locking => p = q
\* Before the first clone is in place there is nothing to change.
NothingYet ==
  dest = "absent" => /\ index_lock = "free" /\ orphans = {}
                     /\ \A p \in Ingests : stage[p] \notin Changing
\* How far the checkout is what the process p makes of it.
Owned(p) ==
  /\ stage[p] \in Settled => index_lock = "free"
  /\ stage[p] \in {"indexing", "moving"} => target[p] \in tree
  /\ stage[p] = "moving" => index = target[p]
  /\ stage[p] = "cleaning" => index = head /\ head \in tree
  /\ stage[p] = "deleting" => target[p] = head /\ head \in tree
  /\ stage[p] = "noting" => tree = {head}
  /\ stage[p] = "ingesting" => tree = {commit[p]}
InPlace == \A p \in Ingests : Alive(p) /\ p \notin disturbed => Owned(p)
Read ==
  \A p \in Ingests :
    IF stage[p] = "ingesting" THEN p \in disturbed \/ seen[p] \subseteq {{commit[p]}}
                              ELSE seen[p] = {}

CheckoutInv == CheckoutTyped /\ Leased /\ OneWriter /\ NothingYet /\ InPlace /\ Read

\* A process with the lease is alone with it; the others may have left orphans.
LEMMA OneLeased ==
  ASSUME CheckoutInv, NEW p \in Ingests, stage[p] \in Inside, Alive(p)
  PROVE  \A q \in Ingests \ {p} : Alive(q) => stage[q] \in {"down", "leasing"}
BY DEF CheckoutInv, CheckoutTyped, Leased, Inside

\* The sets of places are expanded in all the proofs about checkouts.
USE DEF Stages, Changing, Locking, Placed, Inside, Settled, Alive

\* The steps of a process that change no file and leave nobody in another place.
LEMMA QuietKeeps ==
  ASSUME CheckoutInv, NEW p \in Ingests,
         Begin(p) \/ TakeLease(p) \/ Look(p) \/ Clone(p)
  PROVE  CheckoutInv'
<1> USE DEF Begin, TakeLease, Look, Clone, IngestGoes, shared, files, progress
<1>1. CheckoutTyped'       BY DEF CheckoutInv, CheckoutTyped
<1>2. Leased'
  <2>1. CASE TakeLease(p)
    <3>1. \A q \in Ingests : Alive(q) => stage[q] \in {"down", "leasing"}
      BY <2>1, CheckoutAssumption DEF CheckoutInv, CheckoutTyped, Leased
    <3> QED
      BY <2>1, <3>1 DEF CheckoutInv, CheckoutTyped, Leased
  <2>2. CASE ~TakeLease(p)
    BY <2>2 DEF CheckoutInv, CheckoutTyped, Leased
  <2> QED
    BY <2>1, <2>2
<1>3. OneWriter'   BY DEF CheckoutInv, CheckoutTyped, OneWriter
<1>4. NothingYet'  BY DEF CheckoutInv, CheckoutTyped, NothingYet
<1>5. InPlace'     BY DEF CheckoutInv, CheckoutTyped, InPlace, Owned
<1>6. Read'        BY DEF CheckoutInv, CheckoutTyped, Read
<1> QED
  BY <1>1, <1>2, <1>3, <1>4, <1>5, <1>6 DEF CheckoutInv

\* A process or an orphan ends; if it has the lock of the index it may leave it.
LEMMA EndsKeeps ==
  ASSUME CheckoutInv, NEW p \in Ingests,
         LeaseIsTaken(p) \/ Fails(p) \/ ResetIsKilled(p) \/ Finish(p)
  PROVE  CheckoutInv'
<1> USE DEF LeaseIsTaken, Fails, ResetIsKilled, Finish, IngestEnds, files
<1>0. stage[p] \notin Locking => index_lock' = index_lock
  OBVIOUS
<1>1. CheckoutTyped'       BY DEF CheckoutInv, CheckoutTyped
<1>2. Leased'      BY DEF CheckoutInv, CheckoutTyped, Leased
<1>3. OneWriter'   BY <1>0 DEF CheckoutInv, CheckoutTyped, OneWriter
<1>4. NothingYet'  BY DEF CheckoutInv, CheckoutTyped, NothingYet
<1>5. InPlace'
  <2> SUFFICES ASSUME NEW q \in Ingests, Alive(q)', q \notin disturbed'
               PROVE  Owned(q)'
    BY DEF InPlace
  <2>1. CASE q = p
    BY <2>1 DEF CheckoutInv, CheckoutTyped, Owned
  <2>2. CASE q # p
    <3>1. Owned(q) /\ stage'[q] = stage[q]
      BY <2>2 DEF CheckoutInv, CheckoutTyped, InPlace
    <3>2. stage[q] \in Settled => index_lock' = index_lock
      BY <1>0, <3>1 DEF CheckoutInv, OneWriter, Owned
    <3> QED
      BY <2>2, <3>1, <3>2 DEF CheckoutInv, CheckoutTyped, Owned
  <2> QED
    BY <2>1, <2>2
<1>6. Read'        BY DEF CheckoutInv, CheckoutTyped, Read
<1> QED
  BY <1>1, <1>2, <1>3, <1>4, <1>5, <1>6 DEF CheckoutInv

\* The steps of a process with the lease that place the files or read them.
LEMMA IngestKeeps ==
  ASSUME CheckoutInv, NEW p \in Ingests, Rename(p) \/ Note(p) \/ Extract(p)
  PROVE  CheckoutInv'
<1> USE DEF Rename, Note, Kept, Extract, IngestGoes, shared, files, progress
<1>0. \A q \in Ingests \ {p} : Alive(q) => stage[q] \in {"down", "leasing"}
  BY OneLeased
<1>1. CheckoutTyped'
  <2>1. CASE Extract(p)
    BY <2>1 DEF CheckoutInv, CheckoutTyped
  <2>2. CASE Rename(p) \/ Note(p)
    BY <2>2 DEF CheckoutInv, CheckoutTyped
  <2> QED
    BY <2>1, <2>2
<1>2. Leased'      BY DEF CheckoutInv, CheckoutTyped, Leased
<1>3. OneWriter'   BY DEF CheckoutInv, CheckoutTyped, OneWriter
<1>4. NothingYet'  BY DEF CheckoutInv, CheckoutTyped, NothingYet
<1>5. InPlace'     BY <1>0 DEF CheckoutInv, CheckoutTyped, NothingYet, InPlace, Owned
<1>6. Read'
  <2>1. CASE Rename(p) \/ Note(p)
    BY <2>1 DEF CheckoutInv, CheckoutTyped, Read
  <2>2. CASE Extract(p)
    <3>1. p \in disturbed \/ tree = {commit[p]}
      BY <2>2 DEF CheckoutInv, InPlace, Owned
    <3> QED
      BY <2>2, <3>1 DEF CheckoutInv, CheckoutTyped, Read
  <2> QED
    BY <2>1, <2>2
<1> QED
  BY <1>1, <1>2, <1>3, <1>4, <1>5, <1>6 DEF CheckoutInv

\* The steps of a Git command, whether its process lives or not.
LEMMA GitKeeps ==
  ASSUME CheckoutInv, NEW p \in Ingests,
         \/ Fetch(p) \/ Resolve(p) \/ LockIndex(p) \/ WriteFiles(p)
         \/ ReplaceIndex(p) \/ MoveHead(p) \/ ReadIndex(p) \/ DeleteFiles(p)
  PROVE  CheckoutInv'
<1> USE DEF Fetch, Resolve, LockIndex, WriteFiles, ReplaceIndex, MoveHead, ReadIndex, DeleteFiles,
            GitGoes, GitEnds, Disturbs, shared, files, progress
<1>1. CheckoutTyped'       BY DEF CheckoutInv, CheckoutTyped
<1>2. Leased'      BY DEF CheckoutInv, CheckoutTyped, Leased
<1>3. OneWriter'   BY DEF CheckoutInv, CheckoutTyped, OneWriter
<1>4. NothingYet'  BY DEF CheckoutInv, CheckoutTyped, NothingYet
<1>5. InPlace'
  <2> SUFFICES ASSUME NEW q \in Ingests, Alive(q)', q \notin disturbed'
               PROVE  Owned(q)'
    BY DEF InPlace
  <2>1. CASE q = p /\ Alive(p)
    BY <2>1 DEF CheckoutInv, CheckoutTyped, InPlace, Owned, OneWriter
  <2>2. CASE q = p /\ ~Alive(p)
    BY <2>2 DEF CheckoutInv, CheckoutTyped, Owned
  <2>3. CASE q # p /\ Alive(p)
    <3>1. stage'[q] \in {"down", "leasing"}
      BY <2>3, OneLeased DEF CheckoutInv, CheckoutTyped
    <3> QED
      BY <3>1 DEF Owned
  <2>4. CASE q # p /\ ~Alive(p)
    <3>1. Owned(q) /\ stage'[q] = stage[q] /\ target'[q] = target[q]
      BY <2>4 DEF CheckoutInv, CheckoutTyped, InPlace
    <3>2. stage[q] \in Placed => ~LockIndex(p) /\ ~MoveHead(p) /\ ~DeleteFiles(p)
      BY <2>4, <3>1
    <3>3. stage[q] \in Placed => ~WriteFiles(p) /\ ~ReplaceIndex(p)
      BY <2>4, <3>1 DEF CheckoutInv, OneWriter, Owned
    <3> QED
      BY <2>4, <3>1, <3>2, <3>3 DEF Owned
  <2> QED
    BY <2>1, <2>2, <2>3, <2>4
<1>6. Read'        BY DEF CheckoutInv, CheckoutTyped, Read
<1> QED
  BY <1>1, <1>2, <1>3, <1>4, <1>5, <1>6 DEF CheckoutInv

\* A process is killed, and the command that it waits for runs on.
LEMMA KillKeeps ==
  ASSUME CheckoutInv, NEW p \in Ingests, IngestIsKilled(p)
  PROVE  CheckoutInv'
<1> USE DEF IngestIsKilled, files
<1>1. CheckoutTyped'       BY DEF CheckoutInv, CheckoutTyped
<1>2. Leased'      BY DEF CheckoutInv, CheckoutTyped, Leased
<1>3. OneWriter'   BY DEF CheckoutInv, CheckoutTyped, OneWriter
<1>4. NothingYet'  BY DEF CheckoutInv, CheckoutTyped, NothingYet
<1>5. InPlace'     BY DEF CheckoutInv, CheckoutTyped, InPlace, Owned
<1>6. Read'        BY DEF CheckoutInv, CheckoutTyped, Read
<1> QED
  BY <1>1, <1>2, <1>3, <1>4, <1>5, <1>6 DEF CheckoutInv

LEMMA CheckoutInvariant == CheckoutSpec => []CheckoutInv
<1>1. CheckoutInit => CheckoutInv
  BY DEF CheckoutInit, CheckoutInv, CheckoutTyped, Leased, OneWriter, NothingYet, InPlace, Owned, Read
<1>2. CheckoutInv /\ [CheckoutNext]_checkout_vars => CheckoutInv'
  <2> SUFFICES ASSUME CheckoutInv, [CheckoutNext]_checkout_vars PROVE CheckoutInv'
    OBVIOUS
  <2>1. CASE Push
    BY <2>1 DEF Push, CheckoutInv, CheckoutTyped, Leased, OneWriter, NothingYet, InPlace, Owned, Read,
                files, progress
  <2>2. ASSUME NEW p \in Ingests, IngestStep(p) PROVE CheckoutInv'
    BY <2>2, QuietKeeps, EndsKeeps, IngestKeeps, GitKeeps, KillKeeps DEF IngestStep
  <2>3. CASE UNCHANGED checkout_vars
    BY <2>3 DEF checkout_vars, shared, files, progress, CheckoutInv, CheckoutTyped, Leased, OneWriter, NothingYet,
                InPlace, Owned, Read
  <2> QED
    BY <2>1, <2>2, <2>3 DEF CheckoutNext
<1> QED
  BY <1>1, <1>2, PTL DEF CheckoutSpec

\* Every file that is extracted is of the commit that is recorded with it, and
\* none of them is missing, whatever failed, killed and orphaned resets and
\* cleans have left in the checkout: `checkout`, the lease in `ingest_root` and
\* the lock of the index see to it, for any number of processes, commits, kills
\* and timeouts.  Not covered is a process whose files an orphan changes while
\* it works on them.
THEOREM OneCommit == CheckoutSpec => []CheckoutIsTheCommit
<1>1. CheckoutInv => CheckoutIsTheCommit
  BY DEF CheckoutInv, Read, CheckoutIsTheCommit
<1> QED
  BY <1>1, CheckoutInvariant, PTL

-----------------------------------------------------------------------------
(* The types of the checkout, and the bounds that they need.               *)

Commits == 0..MaxCommits
CheckoutBounds ==
  /\ lease \in Ingests \cup {NoLease} /\ dest \in {"absent", "present"}
  /\ index_lock \in {"free", "held", "left"}
  /\ remote \in 1..MaxCommits /\ fetch_head \in Commits /\ head \in Commits
  /\ index \in Commits /\ tree \subseteq Commits
  /\ clone \in [Ingests -> Commits] /\ target \in [Ingests -> Commits]

LEMMA CheckoutBoundsKept ==
  ASSUME CheckoutInv, CheckoutBounds, [CheckoutNext]_checkout_vars
  PROVE  CheckoutBounds'
<1>1. 0 \in Commits /\ 1..MaxCommits \subseteq Commits
  BY CheckoutAssumption DEF Commits
<1> USE DEF CheckoutBounds, shared, files, progress
<1>2. CASE Push
  <2>1. remote' \in 1..MaxCommits
    BY <1>2, CheckoutAssumption DEF Push
  <2> QED
    BY <1>2, <2>1 DEF Push
<1>3. CASE UNCHANGED checkout_vars
  BY <1>3 DEF checkout_vars
<1>4. ASSUME NEW p \in Ingests, IngestStep(p)
      PROVE  CheckoutBounds'
  <2>0. remote \in Commits /\ stage[p] \in Stages
    BY <1>1 DEF CheckoutInv, CheckoutTyped
  <2> USE DEF IngestGoes, IngestEnds, GitGoes, GitEnds
  <2>1. CASE Begin(p) \/ TakeLease(p) \/ LeaseIsTaken(p) \/ Look(p)
    BY <1>1, <2>1 DEF Begin, TakeLease, LeaseIsTaken, Look
  <2>2. CASE Clone(p) \/ Rename(p) \/ Fetch(p)
    BY <1>1, <2>0, <2>2 DEF Clone, Rename, Fetch
  <2>3. CASE Resolve(p) \/ LockIndex(p) \/ WriteFiles(p) \/ ReplaceIndex(p)
    BY <1>1, <2>3 DEF Resolve, LockIndex, WriteFiles, ReplaceIndex
  <2>4. CASE MoveHead(p) \/ ReadIndex(p) \/ DeleteFiles(p)
    BY <1>1, <2>4 DEF MoveHead, ReadIndex, DeleteFiles
  <2>5. CASE Note(p) \/ Extract(p) \/ IngestIsKilled(p)
    BY <1>1, <2>5 DEF Note, Kept, Extract, IngestIsKilled
  <2>6. CASE Fails(p) \/ ResetIsKilled(p) \/ Finish(p)
    BY <1>1, <2>6 DEF Fails, ResetIsKilled, Finish
  <2> QED
    BY <1>4, <2>1, <2>2, <2>3, <2>4, <2>5, <2>6 DEF IngestStep
<1> QED
  BY <1>2, <1>3, <1>4 DEF CheckoutNext

\* Every variable of a checkout is of its type.
THEOREM CheckoutTypes == CheckoutSpec => []CheckoutTypeOK
<1>1. CheckoutInit => CheckoutBounds
  <2>1. 0 \in Commits /\ 1 \in 1..MaxCommits
    BY CheckoutAssumption DEF Commits
  <2> QED
    BY <2>1 DEF CheckoutInit, CheckoutBounds
<1>2. CheckoutInv /\ CheckoutBounds /\ [CheckoutNext]_checkout_vars => CheckoutBounds'
  BY CheckoutBoundsKept
<1>3. CheckoutInv /\ CheckoutBounds => CheckoutTypeOK
  BY DEF CheckoutInv, CheckoutTyped, CheckoutBounds, CheckoutTypeOK, Commits
<1> QED
  BY <1>1, <1>2, <1>3, CheckoutInvariant, PTL DEF CheckoutSpec

HIDE DEF Stages, Changing, Locking, Placed, Inside, Settled, Alive

-----------------------------------------------------------------------------
(***************************************************************************)
(* For any number of processes at one cache, any number of attempts and of *)
(* damages: sessions are created of the pinned content.                    *)
(*                                                                         *)
(* The invariant that carries it: from its verification to its use, a file *)
(* is good or was damaged in between, also when another process renames    *)
(* its copy over it; and a verification is kept for later only until the   *)
(* first session.                                                          *)
(***************************************************************************)
ArtifactsTyped ==
  /\ weights \in [Devices -> Contents] /\ derived \in [Devices -> Contents]
  /\ step \in [Engines -> EngineSteps] /\ device \in [Engines -> Devices]
  /\ cpu_path \in [Engines -> BOOLEAN] /\ cls \in [Engines -> BOOLEAN]
  /\ purpose \in [Engines -> {"rescue", "session"}]
  /\ temp \in [Engines -> Contents] /\ session \in [Engines -> Contents]
  /\ excused \in [Engines -> BOOLEAN]

\* The process trusts the weights of its device, or the derivative of them.
TrustsWeights(p) ==
  \/ step[p] \in {"ensured", "lock"}
  \/ step[p] = "load" /\ ~cls[p]
  \/ step[p] = "ready" /\ cpu_path[p]
TrustsDerived(p) == step[p] = "load" /\ cls[p]

Trusted ==
  \A p \in Engines :
    /\ TrustsWeights(p) => excused[p] \/ weights[device[p]] = "good"
    /\ TrustsDerived(p) => excused[p] \/ derived[device[p]] = "good"
\* The rescue weights are trusted once, for the first session, and a derivative
\* is made by a process that uses it.
TrustedOnce ==
  \A p \in Engines :
    /\ cpu_path[p] => device[p] = "cpu" /\ step[p] = "ready"
    /\ purpose[p] = "rescue" /\ step[p] # "ready" => device[p] = "cpu"
    /\ step[p] \in {"lock", "check", "parent", "rewrite", "compare"} => cls[p]

ArtifactsInv == ArtifactsTyped /\ Trusted /\ TrustedOnce /\ SessionsArePinned

\* A step of a process other than damage.
LEMMA EngineKeeps ==
  ASSUME ArtifactsInv, NEW p \in Engines, EngineStep(p)
  PROVE  ArtifactsInv'
<1> USE DEF EngineGoes, Is, EngineSteps, Devices, Contents, cache, own, Ensured, Forgotten, Matches, Unlocked
<1>1. CASE Provision(p) \/ SkipRescue(p)
  <2> USE <1>1 DEF Provision, SkipRescue
  <2>1. ArtifactsTyped'    BY DEF ArtifactsInv, ArtifactsTyped
  <2>2. Trusted'           BY DEF ArtifactsInv, ArtifactsTyped, Trusted, TrustedOnce, TrustsWeights, TrustsDerived
  <2>3. TrustedOnce'       BY DEF ArtifactsInv, ArtifactsTyped, TrustedOnce
  <2>4. SessionsArePinned' BY DEF ArtifactsInv, ArtifactsTyped, SessionsArePinned
  <2> QED                  BY <2>1, <2>2, <2>3, <2>4 DEF ArtifactsInv
<1>2. CASE CreateCuda(p) \/ CreateCpu(p)
  <2> USE <1>2 DEF CreateCuda, CreateCpu
  <2>1. ArtifactsTyped'
    <3> USE DEF ArtifactsInv, ArtifactsTyped
    <3>1. /\ weights' \in [Devices -> Contents] /\ derived' \in [Devices -> Contents]
          /\ temp' \in [Engines -> Contents] /\ session' \in [Engines -> Contents]
      OBVIOUS
    <3>2. step' \in [Engines -> EngineSteps] /\ device' \in [Engines -> Devices]
      OBVIOUS
    <3>3. cpu_path' \in [Engines -> BOOLEAN] /\ cls' \in [Engines -> BOOLEAN]
      OBVIOUS
    <3>4. purpose' \in [Engines -> {"rescue", "session"}] /\ excused' \in [Engines -> BOOLEAN]
      OBVIOUS
    <3> QED
      BY <3>1, <3>2, <3>3, <3>4
  <2>2. Trusted'           BY DEF ArtifactsInv, ArtifactsTyped, Trusted, TrustedOnce, TrustsWeights, TrustsDerived
  <2>3. TrustedOnce'       BY DEF ArtifactsInv, ArtifactsTyped, TrustedOnce
  <2>4. SessionsArePinned' BY DEF ArtifactsInv, ArtifactsTyped, SessionsArePinned
  <2> QED                  BY <2>1, <2>2, <2>3, <2>4 DEF ArtifactsInv
<1>3. CASE Verify(p)
  <2> USE <1>3 DEF Verify
  <2>1. CASE weights[device[p]] # "good"
    <3>1. ArtifactsTyped'
      <4> USE <2>1 DEF ArtifactsInv, ArtifactsTyped
      <4>1. weights' \in [Devices -> Contents] /\ derived' \in [Devices -> Contents]
        OBVIOUS
      <4>2. temp' \in [Engines -> Contents] /\ session' \in [Engines -> Contents]
        OBVIOUS
      <4>3. step' \in [Engines -> EngineSteps] /\ device' \in [Engines -> Devices]
        OBVIOUS
      <4>4. cpu_path' \in [Engines -> BOOLEAN] /\ cls' \in [Engines -> BOOLEAN]
        OBVIOUS
      <4>5. purpose' \in [Engines -> {"rescue", "session"}] /\ excused' \in [Engines -> BOOLEAN]
        OBVIOUS
      <4> QED
        BY <4>1, <4>2, <4>3, <4>4, <4>5
    <3>2. Trusted'           BY <2>1 DEF ArtifactsInv, ArtifactsTyped, Trusted, TrustsWeights, TrustsDerived
    <3>3. TrustedOnce'       BY <2>1 DEF ArtifactsInv, ArtifactsTyped, TrustedOnce
    <3>4. SessionsArePinned' BY <2>1 DEF ArtifactsInv, ArtifactsTyped, SessionsArePinned
    <3> QED                  BY <3>1, <3>2, <3>3, <3>4 DEF ArtifactsInv
  <2>2. CASE weights[device[p]] = "good" /\ purpose[p] = "rescue"
    <3>1. ArtifactsTyped'
      <4> USE <2>2 DEF ArtifactsInv, ArtifactsTyped
      <4>1. weights' \in [Devices -> Contents] /\ derived' \in [Devices -> Contents]
        OBVIOUS
      <4>2. temp' \in [Engines -> Contents] /\ session' \in [Engines -> Contents]
        OBVIOUS
      <4>3. step' \in [Engines -> EngineSteps] /\ device' \in [Engines -> Devices]
        OBVIOUS
      <4>4. cpu_path' \in [Engines -> BOOLEAN] /\ cls' \in [Engines -> BOOLEAN]
        OBVIOUS
      <4>5. purpose' \in [Engines -> {"rescue", "session"}] /\ excused' \in [Engines -> BOOLEAN]
        OBVIOUS
      <4> QED
        BY <4>1, <4>2, <4>3, <4>4, <4>5
    <3>2. Trusted'           BY <2>2 DEF ArtifactsInv, ArtifactsTyped, Trusted, TrustsWeights, TrustsDerived
    <3>3. TrustedOnce'       BY <2>2 DEF ArtifactsInv, ArtifactsTyped, TrustedOnce
    <3>4. SessionsArePinned' BY <2>2 DEF ArtifactsInv, ArtifactsTyped, SessionsArePinned
    <3> QED                  BY <3>1, <3>2, <3>3, <3>4 DEF ArtifactsInv
  <2>3. CASE weights[device[p]] = "good" /\ purpose[p] # "rescue"
    <3>1. ArtifactsTyped'
      <4> USE <2>3 DEF ArtifactsInv, ArtifactsTyped
      <4>1. /\ weights' \in [Devices -> Contents] /\ derived' \in [Devices -> Contents]
            /\ temp' \in [Engines -> Contents] /\ session' \in [Engines -> Contents]
        OBVIOUS
      <4>2. step' \in [Engines -> EngineSteps] /\ device' \in [Engines -> Devices]
        OBVIOUS
      <4>3. cpu_path' \in [Engines -> BOOLEAN] /\ cls' \in [Engines -> BOOLEAN]
        OBVIOUS
      <4>4. purpose' \in [Engines -> {"rescue", "session"}] /\ excused' \in [Engines -> BOOLEAN]
        OBVIOUS
      <4> QED
        BY <4>1, <4>2, <4>3, <4>4
    <3>2. Trusted'           BY <2>3 DEF ArtifactsInv, ArtifactsTyped, Trusted, TrustsWeights, TrustsDerived
    <3>3. TrustedOnce'       BY <2>3 DEF ArtifactsInv, ArtifactsTyped, TrustedOnce
    <3>4. SessionsArePinned' BY <2>3 DEF ArtifactsInv, ArtifactsTyped, SessionsArePinned
    <3> QED                  BY <3>1, <3>2, <3>3, <3>4 DEF ArtifactsInv
  <2> QED
    BY <2>1, <2>2, <2>3
<1>4. CASE Download(p) \/ Retry(p)
  <2> USE <1>4 DEF Download, Retry
  <2>1. ArtifactsTyped'    BY DEF ArtifactsInv, ArtifactsTyped
  <2>2. Trusted'           BY DEF ArtifactsInv, ArtifactsTyped, Trusted, TrustsWeights, TrustsDerived
  <2>3. TrustedOnce'       BY DEF ArtifactsInv, ArtifactsTyped, TrustedOnce
  <2>4. SessionsArePinned' BY DEF ArtifactsInv, ArtifactsTyped, SessionsArePinned
  <2> QED                  BY <2>1, <2>2, <2>3, <2>4 DEF ArtifactsInv
<1>5. CASE Persist(p)
  <2> USE <1>5 DEF Persist
  <2>1. CASE purpose[p] = "rescue"
    <3>1. weights' = [weights EXCEPT ![device[p]] = "good"] /\ weights'[device[p]] = "good"
      BY <2>1 DEF ArtifactsInv, ArtifactsTyped
    <3>2. Trusted'
      <4> SUFFICES ASSUME NEW q \in Engines
                   PROVE  /\ TrustsWeights(q)' => excused'[q] \/ weights'[device'[q]] = "good"
                          /\ TrustsDerived(q)' => excused'[q] \/ derived'[device'[q]] = "good"
        BY DEF Trusted
      <4>1. CASE q = p
        BY <2>1, <3>1, <4>1 DEF ArtifactsInv, ArtifactsTyped, TrustsWeights, TrustsDerived
      <4>2. CASE q # p
        BY <2>1, <3>1, <4>2 DEF ArtifactsInv, ArtifactsTyped, Trusted, TrustsWeights, TrustsDerived
      <4> QED
        BY <4>1, <4>2
    <3>3. ArtifactsTyped'
      <4> USE <2>1 DEF ArtifactsInv, ArtifactsTyped
      <4>1. weights' \in [Devices -> Contents] /\ derived' \in [Devices -> Contents]
        OBVIOUS
      <4>2. temp' \in [Engines -> Contents] /\ session' \in [Engines -> Contents]
        OBVIOUS
      <4>3. step' \in [Engines -> EngineSteps] /\ device' \in [Engines -> Devices]
        OBVIOUS
      <4>4. cpu_path' \in [Engines -> BOOLEAN] /\ cls' \in [Engines -> BOOLEAN]
        OBVIOUS
      <4>5. purpose' \in [Engines -> {"rescue", "session"}] /\ excused' \in [Engines -> BOOLEAN]
        OBVIOUS
      <4> QED
        BY <4>1, <4>2, <4>3, <4>4, <4>5
    <3>4. TrustedOnce'       BY <2>1 DEF ArtifactsInv, ArtifactsTyped, TrustedOnce
    <3>5. SessionsArePinned' BY <2>1 DEF ArtifactsInv, ArtifactsTyped, SessionsArePinned
    <3> QED                  BY <3>2, <3>3, <3>4, <3>5 DEF ArtifactsInv
  <2>2. CASE purpose[p] # "rescue"
    <3>1. weights' = [weights EXCEPT ![device[p]] = "good"] /\ weights'[device[p]] = "good"
      BY <2>2 DEF ArtifactsInv, ArtifactsTyped
    <3>2. Trusted'
      <4> SUFFICES ASSUME NEW q \in Engines
                   PROVE  /\ TrustsWeights(q)' => excused'[q] \/ weights'[device'[q]] = "good"
                          /\ TrustsDerived(q)' => excused'[q] \/ derived'[device'[q]] = "good"
        BY DEF Trusted
      <4>1. CASE q = p
        BY <2>2, <3>1, <4>1 DEF ArtifactsInv, ArtifactsTyped, TrustsWeights, TrustsDerived
      <4>2. CASE q # p
        BY <2>2, <3>1, <4>2 DEF ArtifactsInv, ArtifactsTyped, Trusted, TrustsWeights, TrustsDerived
      <4> QED
        BY <4>1, <4>2
    <3>3. ArtifactsTyped'
      <4> USE <2>2 DEF ArtifactsInv, ArtifactsTyped
      <4>1. weights' \in [Devices -> Contents] /\ derived' \in [Devices -> Contents]
        OBVIOUS
      <4>2. temp' \in [Engines -> Contents] /\ session' \in [Engines -> Contents]
        OBVIOUS
      <4>3. step' \in [Engines -> EngineSteps] /\ device' \in [Engines -> Devices]
        OBVIOUS
      <4>4. cpu_path' \in [Engines -> BOOLEAN] /\ cls' \in [Engines -> BOOLEAN]
        OBVIOUS
      <4>5. purpose' \in [Engines -> {"rescue", "session"}] /\ excused' \in [Engines -> BOOLEAN]
        OBVIOUS
      <4> QED
        BY <4>1, <4>2, <4>3, <4>4, <4>5
    <3>4. TrustedOnce'       BY <2>2 DEF ArtifactsInv, ArtifactsTyped, TrustedOnce
    <3>5. SessionsArePinned' BY <2>2 DEF ArtifactsInv, ArtifactsTyped, SessionsArePinned
    <3> QED                  BY <3>2, <3>3, <3>4, <3>5 DEF ArtifactsInv
  <2> QED
    BY <2>1, <2>2
<1>6. CASE Derive(p) \/ Lock(p) \/ CheckDerived(p) \/ CheckParent(p) \/ Rewrite(p)
  <2>1. CASE Derive(p)
    <3> USE <2>1 DEF Derive
    <3>1. ArtifactsTyped'
      <4> USE <2>1 DEF ArtifactsInv, ArtifactsTyped
      <4>1. weights' \in [Devices -> Contents] /\ derived' \in [Devices -> Contents]
        OBVIOUS
      <4>2. temp' \in [Engines -> Contents] /\ session' \in [Engines -> Contents]
        OBVIOUS
      <4>3. step' \in [Engines -> EngineSteps] /\ device' \in [Engines -> Devices]
        OBVIOUS
      <4>4. cpu_path' \in [Engines -> BOOLEAN] /\ cls' \in [Engines -> BOOLEAN]
        OBVIOUS
      <4>5. purpose' \in [Engines -> {"rescue", "session"}] /\ excused' \in [Engines -> BOOLEAN]
        OBVIOUS
      <4> QED
        BY <4>1, <4>2, <4>3, <4>4, <4>5
    <3>2. Trusted'           BY <2>1 DEF ArtifactsInv, ArtifactsTyped, Trusted, TrustsWeights, TrustsDerived
    <3>3. TrustedOnce'       BY <2>1 DEF ArtifactsInv, ArtifactsTyped, TrustedOnce
    <3>4. SessionsArePinned' BY <2>1 DEF ArtifactsInv, ArtifactsTyped, SessionsArePinned
    <3> QED                  BY <3>1, <3>2, <3>3, <3>4 DEF ArtifactsInv
  <2>2. CASE Lock(p)
    <3> USE <2>2 DEF Lock
    <3>1. ArtifactsTyped'
      <4> USE <2>2 DEF ArtifactsInv, ArtifactsTyped
      <4>1. weights' \in [Devices -> Contents] /\ derived' \in [Devices -> Contents]
        OBVIOUS
      <4>2. temp' \in [Engines -> Contents] /\ session' \in [Engines -> Contents]
        OBVIOUS
      <4>3. step' \in [Engines -> EngineSteps] /\ device' \in [Engines -> Devices]
        OBVIOUS
      <4>4. cpu_path' \in [Engines -> BOOLEAN] /\ cls' \in [Engines -> BOOLEAN]
        OBVIOUS
      <4>5. purpose' \in [Engines -> {"rescue", "session"}] /\ excused' \in [Engines -> BOOLEAN]
        OBVIOUS
      <4> QED
        BY <4>1, <4>2, <4>3, <4>4, <4>5
    <3>2. Trusted'           BY <2>2 DEF ArtifactsInv, ArtifactsTyped, Trusted, TrustsWeights, TrustsDerived
    <3>3. TrustedOnce'       BY <2>2 DEF ArtifactsInv, ArtifactsTyped, TrustedOnce
    <3>4. SessionsArePinned' BY <2>2 DEF ArtifactsInv, ArtifactsTyped, SessionsArePinned
    <3> QED                  BY <3>1, <3>2, <3>3, <3>4 DEF ArtifactsInv
  <2>3. CASE CheckDerived(p)
    <3> USE <2>3 DEF CheckDerived
    <3>1. CASE derived[device[p]] = "good"
      <4>1. ArtifactsTyped'
        <5> USE <3>1 DEF ArtifactsInv, ArtifactsTyped
        <5>1. weights' \in [Devices -> Contents] /\ derived' \in [Devices -> Contents]
          OBVIOUS
        <5>2. temp' \in [Engines -> Contents] /\ session' \in [Engines -> Contents]
          OBVIOUS
        <5>3. step' \in [Engines -> EngineSteps] /\ device' \in [Engines -> Devices]
          OBVIOUS
        <5>4. cpu_path' \in [Engines -> BOOLEAN] /\ cls' \in [Engines -> BOOLEAN]
          OBVIOUS
        <5>5. purpose' \in [Engines -> {"rescue", "session"}] /\ excused' \in [Engines -> BOOLEAN]
          OBVIOUS
        <5> QED
          BY <5>1, <5>2, <5>3, <5>4, <5>5
      <4>2. Trusted'           BY <3>1 DEF ArtifactsInv, ArtifactsTyped, Trusted, TrustedOnce, TrustsWeights, TrustsDerived
      <4>3. TrustedOnce'       BY <3>1 DEF ArtifactsInv, ArtifactsTyped, TrustedOnce
      <4>4. SessionsArePinned' BY <3>1 DEF ArtifactsInv, ArtifactsTyped, SessionsArePinned
      <4> QED                  BY <4>1, <4>2, <4>3, <4>4 DEF ArtifactsInv
    <3>2. CASE derived[device[p]] # "good"
      <4>1. ArtifactsTyped'
        <5> USE <3>2 DEF ArtifactsInv, ArtifactsTyped
        <5>1. weights' \in [Devices -> Contents] /\ derived' \in [Devices -> Contents]
          OBVIOUS
        <5>2. temp' \in [Engines -> Contents] /\ session' \in [Engines -> Contents]
          OBVIOUS
        <5>3. step' \in [Engines -> EngineSteps] /\ device' \in [Engines -> Devices]
          OBVIOUS
        <5>4. cpu_path' \in [Engines -> BOOLEAN] /\ cls' \in [Engines -> BOOLEAN]
          OBVIOUS
        <5>5. purpose' \in [Engines -> {"rescue", "session"}] /\ excused' \in [Engines -> BOOLEAN]
          OBVIOUS
        <5> QED
          BY <5>1, <5>2, <5>3, <5>4, <5>5
      <4>2. Trusted'           BY <3>2 DEF ArtifactsInv, ArtifactsTyped, Trusted, TrustedOnce, TrustsWeights, TrustsDerived
      <4>3. TrustedOnce'       BY <3>2 DEF ArtifactsInv, ArtifactsTyped, TrustedOnce
      <4>4. SessionsArePinned' BY <3>2 DEF ArtifactsInv, ArtifactsTyped, SessionsArePinned
      <4> QED                  BY <4>1, <4>2, <4>3, <4>4 DEF ArtifactsInv
    <3> QED
      BY <3>1, <3>2
  <2>4. CASE CheckParent(p)
    <3> USE <2>4 DEF CheckParent
    <3>1. ArtifactsTyped'
      <4> USE <2>4 DEF ArtifactsInv, ArtifactsTyped
      <4>1. weights' \in [Devices -> Contents] /\ derived' \in [Devices -> Contents]
        OBVIOUS
      <4>2. temp' \in [Engines -> Contents] /\ session' \in [Engines -> Contents]
        OBVIOUS
      <4>3. step' \in [Engines -> EngineSteps] /\ device' \in [Engines -> Devices]
        OBVIOUS
      <4>4. cpu_path' \in [Engines -> BOOLEAN] /\ cls' \in [Engines -> BOOLEAN]
        OBVIOUS
      <4>5. purpose' \in [Engines -> {"rescue", "session"}] /\ excused' \in [Engines -> BOOLEAN]
        OBVIOUS
      <4> QED
        BY <4>1, <4>2, <4>3, <4>4, <4>5
    <3>2. Trusted'           BY <2>4 DEF ArtifactsInv, ArtifactsTyped, Trusted, TrustsWeights, TrustsDerived
    <3>3. TrustedOnce'       BY <2>4 DEF ArtifactsInv, ArtifactsTyped, TrustedOnce
    <3>4. SessionsArePinned' BY <2>4 DEF ArtifactsInv, ArtifactsTyped, SessionsArePinned
    <3> QED                  BY <3>1, <3>2, <3>3, <3>4 DEF ArtifactsInv
  <2>5. CASE Rewrite(p)
    <3> USE <2>5 DEF Rewrite
    <3>1. ArtifactsTyped'
      <4> USE <2>5 DEF ArtifactsInv, ArtifactsTyped
      <4>1. weights' \in [Devices -> Contents] /\ derived' \in [Devices -> Contents]
        OBVIOUS
      <4>2. temp' \in [Engines -> Contents] /\ session' \in [Engines -> Contents]
        OBVIOUS
      <4>3. step' \in [Engines -> EngineSteps] /\ device' \in [Engines -> Devices]
        OBVIOUS
      <4>4. cpu_path' \in [Engines -> BOOLEAN] /\ cls' \in [Engines -> BOOLEAN]
        OBVIOUS
      <4>5. purpose' \in [Engines -> {"rescue", "session"}] /\ excused' \in [Engines -> BOOLEAN]
        OBVIOUS
      <4> QED
        BY <4>1, <4>2, <4>3, <4>4, <4>5
    <3>2. Trusted'           BY <2>5 DEF ArtifactsInv, ArtifactsTyped, Trusted, TrustsWeights, TrustsDerived
    <3>3. TrustedOnce'       BY <2>5 DEF ArtifactsInv, ArtifactsTyped, TrustedOnce
    <3>4. SessionsArePinned' BY <2>5 DEF ArtifactsInv, ArtifactsTyped, SessionsArePinned
    <3> QED                  BY <3>1, <3>2, <3>3, <3>4 DEF ArtifactsInv
  <2> QED
    BY <1>6, <2>1, <2>2, <2>3, <2>4, <2>5
<1>7. CASE PersistDerived(p)
  <2> USE <1>7 DEF PersistDerived
  <2>1. ArtifactsTyped'    BY DEF ArtifactsInv, ArtifactsTyped
  <2>2. derived' = [derived EXCEPT ![device[p]] = "good"] /\ derived'[device[p]] = "good"
    BY DEF ArtifactsInv, ArtifactsTyped
  <2>3. Trusted'
    <3> SUFFICES ASSUME NEW q \in Engines
                 PROVE  /\ TrustsWeights(q)' => excused'[q] \/ weights'[device'[q]] = "good"
                        /\ TrustsDerived(q)' => excused'[q] \/ derived'[device'[q]] = "good"
      BY DEF Trusted
    <3>1. CASE q = p
      BY <2>2, <3>1 DEF ArtifactsInv, ArtifactsTyped, TrustedOnce, TrustsWeights, TrustsDerived
    <3>2. CASE q # p
      BY <2>2, <3>2 DEF ArtifactsInv, ArtifactsTyped, Trusted, TrustsWeights, TrustsDerived
    <3> QED
      BY <3>1, <3>2
  <2>4. TrustedOnce'       BY DEF ArtifactsInv, ArtifactsTyped, TrustedOnce
  <2>5. SessionsArePinned' BY DEF ArtifactsInv, ArtifactsTyped, SessionsArePinned
  <2> QED                  BY <2>1, <2>3, <2>4, <2>5 DEF ArtifactsInv
<1>8. CASE Load(p)
  <2> USE <1>8 DEF Load
  <2>1. ArtifactsTyped'    BY DEF ArtifactsInv, ArtifactsTyped
  <2>2. Trusted'           BY DEF ArtifactsInv, ArtifactsTyped, Trusted, TrustsWeights, TrustsDerived
  <2>3. TrustedOnce'       BY DEF ArtifactsInv, ArtifactsTyped, TrustedOnce
  <2>4. SessionsArePinned' BY DEF ArtifactsInv, ArtifactsTyped, Trusted, TrustsWeights, TrustsDerived, SessionsArePinned
  <2> QED                  BY <2>1, <2>2, <2>3, <2>4 DEF ArtifactsInv
<1>9. CASE EngineEnds(p)
  <2> USE <1>9 DEF EngineEnds
  <2>1. ArtifactsTyped'    BY DEF ArtifactsInv, ArtifactsTyped
  <2>2. Trusted'           BY DEF ArtifactsInv, ArtifactsTyped, Trusted, TrustsWeights, TrustsDerived
  <2>3. TrustedOnce'       BY DEF ArtifactsInv, ArtifactsTyped, TrustedOnce
  <2>4. SessionsArePinned' BY DEF ArtifactsInv, ArtifactsTyped, SessionsArePinned
  <2> QED                  BY <2>1, <2>2, <2>3, <2>4 DEF ArtifactsInv
<1> QED
  BY <1>1, <1>2, <1>3, <1>4, <1>5, <1>6, <1>7, <1>8, <1>9 DEF EngineStep

\* A file is damaged: whoever trusted it has an excuse.
LEMMA DamageKeeps ==
  ASSUME ArtifactsInv, NEW d \in Devices, Damage(d)
  PROVE  ArtifactsInv'
<1> USE DEF Damage, Is, EngineSteps, Devices, Contents, own
<1>1. ArtifactsTyped'    BY DEF ArtifactsInv, ArtifactsTyped
<1>2. \A p \in Engines :
        /\ excused[p] => excused'[p]
        /\ device[p] = d /\ step[p] \notin {"down", "running"} => excused'[p]
  BY DEF ArtifactsInv, ArtifactsTyped
<1>3. Trusted'           BY <1>2 DEF ArtifactsInv, ArtifactsTyped, Trusted, TrustsWeights, TrustsDerived
<1>4. TrustedOnce'       BY DEF ArtifactsInv, ArtifactsTyped, TrustedOnce
<1>5. SessionsArePinned' BY <1>2 DEF ArtifactsInv, ArtifactsTyped, SessionsArePinned
<1> QED                  BY <1>1, <1>3, <1>4, <1>5 DEF ArtifactsInv

LEMMA ArtifactsInvariant == ArtifactsSpec => []ArtifactsInv
<1>1. ArtifactsInit => ArtifactsInv
  BY DEF ArtifactsInit, ArtifactsInv, ArtifactsTyped, Trusted, TrustedOnce, TrustsWeights, TrustsDerived,
         SessionsArePinned, EngineSteps, Devices, Contents
<1>2. ArtifactsInv /\ [ArtifactsNext]_artifacts_vars => ArtifactsInv'
  <2> SUFFICES ASSUME ArtifactsInv, [ArtifactsNext]_artifacts_vars PROVE ArtifactsInv'
    OBVIOUS
  <2>1. CASE ArtifactsNext
    BY <2>1, EngineKeeps, DamageKeeps DEF ArtifactsNext
  <2>2. CASE UNCHANGED artifacts_vars
    BY <2>2 DEF artifacts_vars, cache, own, ArtifactsInv, ArtifactsTyped, Trusted, TrustedOnce, TrustsWeights,
                TrustsDerived, SessionsArePinned
  <2> QED
    BY <2>1, <2>2
<1> QED
  BY <1>1, <1>2, PTL DEF ArtifactsSpec

\* Whatever the network, other processes and damage do to the shared cache, a
\* session is created of the pinned content, or the file was damaged after its
\* last verification and before its use: `create` of the factory and the two
\* `ensure_artifact` see to it, for any number of processes.
THEOREM Pinned == ArtifactsSpec => []SessionsArePinned
<1>1. ArtifactsInv => SessionsArePinned
  BY DEF ArtifactsInv
<1> QED
  BY <1>1, ArtifactsInvariant, PTL

-----------------------------------------------------------------------------
(* The types of the cache.                                                 *)

ArtifactsBounds ==
  /\ build_lock \in [Devices -> Engines \cup {NoBuilder}]
  /\ policy \in [Engines -> {"cpu", "cuda", "auto"}] /\ attempt \in [Engines -> 0..Attempts]

LEMMA ArtifactsBoundsKept ==
  ASSUME ArtifactsInv, ArtifactsBounds, [ArtifactsNext]_artifacts_vars
  PROVE  ArtifactsBounds'
<1>1. 0 \in 0..Attempts /\ 1 \in 0..Attempts
  BY ArtifactsAssumption
<1> USE DEF ArtifactsBounds, cache, own, Is
<1>2. CASE UNCHANGED artifacts_vars
  BY <1>2 DEF artifacts_vars
<1>3. CASE \E d \in Devices : Damage(d)
  BY <1>3 DEF Damage
<1>4. ASSUME NEW p \in Engines, EngineStep(p)
      PROVE  ArtifactsBounds'
  <2>1. device[p] \in Devices
    BY DEF ArtifactsInv, ArtifactsTyped
  <2> USE DEF EngineGoes
  <2>2. CASE Provision(p) \/ SkipRescue(p) \/ CreateCuda(p) \/ CreateCpu(p)
    BY <1>1, <2>2 DEF Provision, SkipRescue, CreateCuda, CreateCpu, Unlocked
  <2>3. CASE Verify(p) \/ Download(p) \/ Persist(p)
    BY <1>1, <2>3 DEF Verify, Download, Persist
  <2>4. CASE Retry(p)
    <3>1. attempt[p] + 1 \in 0..Attempts
      BY <2>4, ArtifactsAssumption DEF Retry
    <3> QED
      BY <2>4, <3>1 DEF Retry
  <2>5. CASE Derive(p) \/ CheckParent(p) \/ Rewrite(p) \/ Load(p)
    BY <2>5 DEF Derive, CheckParent, Rewrite, Load
  <2>6. CASE Lock(p)
    BY <2>1, <2>6 DEF Lock
  <2>7. CASE CheckDerived(p) \/ PersistDerived(p)
    BY <2>7 DEF CheckDerived, PersistDerived, Unlocked
  <2>8. CASE EngineEnds(p)
    BY <1>1, <2>8 DEF EngineEnds, Unlocked
  <2> QED
    BY <1>4, <2>2, <2>3, <2>4, <2>5, <2>6, <2>7, <2>8 DEF EngineStep
<1> QED
  BY <1>2, <1>3, <1>4 DEF ArtifactsNext

\* Every variable of the cache of weights is of its type.
THEOREM ArtifactsTypes == ArtifactsSpec => []ArtifactsTypeOK
<1>1. ArtifactsInit => ArtifactsBounds
  BY ArtifactsAssumption DEF ArtifactsInit, ArtifactsBounds
<1>2. ArtifactsInv /\ ArtifactsBounds /\ [ArtifactsNext]_artifacts_vars => ArtifactsBounds'
  BY ArtifactsBoundsKept
<1>3. ArtifactsInv /\ ArtifactsBounds => ArtifactsTypeOK
  BY DEF ArtifactsInv, ArtifactsTyped, ArtifactsBounds, ArtifactsTypeOK
<1> QED
  BY <1>1, <1>2, <1>3, ArtifactsInvariant, PTL DEF ArtifactsSpec
=============================================================================
