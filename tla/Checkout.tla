------------------------------ MODULE Checkout ------------------------------
(***************************************************************************)
(* Git checkouts in the shared cache: `checkout` of input/git.rs, the Git  *)
(* arm of `prepare` in input/mod.rs and the lease in `ingest_root`.        *)
(*                                                                         *)
(* Processes that ingest one repository into different databases share one *)
(* working tree.  Each takes the lease of it, clones into a temporary      *)
(* directory that is renamed into place, or fetches, resets and cleans     *)
(* what is there, notes the commit, and ingests the files with the lease   *)
(* held.  A command that takes too long or too much space is killed.  A    *)
(* process may be killed too: the system releases its lease, but every     *)
(* Git command is a process group of its own (`process_group` of           *)
(* extract/external.rs), and the one it waited for runs on.                *)
(*                                                                         *)
(* A commit stands for the files that it has and no other commit has.      *)
(***************************************************************************)
EXTENDS Naturals, FiniteSets

CONSTANTS
  Ingests,     \* the processes
  NoLease,     \* the lease is free
  MaxCommits   \* bound on the commits of the remote

ASSUME CheckoutAssumption == NoLease \notin Ingests /\ MaxCommits \in Nat \ {0}

VARIABLES
  remote,      \* the newest commit of the remote
  lease,       \* the process that holds the lease
  dest,        \* "absent", "present"
  fetch_head, head, index,  \* commits of the checkout, 0 for none
  tree,        \* the commits whose files are in the working tree
  index_lock,  \* "free", "held" by a command, or "left" by one that was killed
  stage,       \* where a process is, or the Git command it has left
  orphans,     \* processes that were killed while such a command ran, which still runs
  clone,       \* the commit it has cloned into its temporary directory
  target,      \* the commit its `git reset` goes to, or whose files its `git clean` spares
  commit,      \* the commit it has noted
  seen,        \* the trees its extraction has read
  disturbed    \* the processes whose files an orphan has begun to change

shared   == <<remote, lease>>
files    == <<dest, fetch_head, head, index, tree, index_lock>>
progress == <<clone, target, commit, seen>>
checkout_vars == <<shared, files, stage, orphans, progress, disturbed>>

\* The places of a process that runs one of the Git commands that change the
\* checkout, and among them those where it has the lock of the index.
Changing == {"fetching", "resetting", "locking", "writing", "indexing", "moving", "cleaning", "deleting"}
Locking  == {"writing", "indexing"}
Stages   == Changing \cup {"down", "leasing", "looking", "cloning", "renaming", "noting", "ingesting"}
\* From the lock of the index on, the files of a process have to stay its own.
Placed   == Locking \cup {"moving", "cleaning", "deleting", "noting", "ingesting"}

CheckoutInit ==
  /\ remote = 1 /\ lease = NoLease
  /\ dest = "absent" /\ fetch_head = 0 /\ head = 0 /\ index = 0 /\ tree = {} /\ index_lock = "free"
  /\ stage = [p \in Ingests |-> "down"] /\ orphans = {}
  /\ clone = [p \in Ingests |-> 0] /\ target = [p \in Ingests |-> 0]
  /\ commit = [p \in Ingests |-> 0] /\ seen = [p \in Ingests |-> {}]
  /\ disturbed = {}

\* Somebody pushes.
Push ==
  /\ remote < MaxCommits /\ remote' = remote + 1
  /\ UNCHANGED <<lease, files, stage, orphans, progress, disturbed>>

\* A step of a process that lives.
IngestGoes(p, from, to) ==
  /\ stage[p] = from /\ p \notin orphans
  /\ stage' = [stage EXCEPT ![p] = to] /\ UNCHANGED orphans

\* A step of a Git command, whether its process lives or not; and its last
\* step, after which an orphan is over.
GitGoes(p, from, to) == stage[p] = from /\ stage' = [stage EXCEPT ![p] = to] /\ UNCHANGED orphans
GitEnds(p, from, next) ==
  /\ stage[p] = from
  /\ stage' = [stage EXCEPT ![p] = IF p \in orphans THEN "down" ELSE next]
  /\ orphans' = orphans \ {p}
\* The command of p begins to change the files of whoever has placed them.
Disturbs(p) ==
  disturbed' = IF p \in orphans THEN disturbed \cup {q \in Ingests \ orphans : stage[q] \in Placed}
                                ELSE disturbed

\* The process, or the orphan, ends, with success or not: the lease goes with it.
IngestEnds(p) ==
  /\ stage' = [stage EXCEPT ![p] = "down"] /\ orphans' = orphans \ {p}
  /\ lease' = IF lease = p THEN NoLease ELSE lease
  /\ clone' = [clone EXCEPT ![p] = 0] /\ target' = [target EXCEPT ![p] = 0]
  /\ commit' = [commit EXCEPT ![p] = 0] /\ seen' = [seen EXCEPT ![p] = {}]
  /\ disturbed' = disturbed \ {p}

\* The URL is normalised and its address checked.
Begin(p) ==
  /\ IngestGoes(p, "down", "leasing") /\ UNCHANGED <<shared, files, progress, disturbed>>

\* `WriterLock::acquire` on the checkout, for two seconds.
TakeLease(p) ==
  /\ lease = NoLease /\ IngestGoes(p, "leasing", "looking") /\ lease' = p
  /\ UNCHANGED <<remote, files, progress, disturbed>>
LeaseIsTaken(p) ==
  /\ stage[p] = "leasing" /\ lease # NoLease /\ IngestEnds(p)
  /\ UNCHANGED <<remote, files>>

Look(p) ==
  /\ IngestGoes(p, "looking", IF dest = "absent" THEN "cloning" ELSE "fetching")
  /\ UNCHANGED <<shared, files, progress, disturbed>>

Clone(p) ==
  /\ IngestGoes(p, "cloning", "renaming") /\ clone' = [clone EXCEPT ![p] = remote]
  /\ UNCHANGED <<shared, files, target, commit, seen, disturbed>>
Rename(p) ==
  /\ dest = "absent" /\ IngestGoes(p, "renaming", "noting") /\ dest' = "present"
  /\ head' = clone[p] /\ index' = clone[p] /\ tree' = {clone[p]}
  /\ UNCHANGED <<shared, fetch_head, index_lock, progress, disturbed>>

-----------------------------------------------------------------------------
(* The Git commands.                                                       *)

Fetch(p) ==
  /\ GitEnds(p, "fetching", "resetting") /\ fetch_head' = remote
  /\ UNCHANGED <<shared, dest, head, index, tree, index_lock, progress, disturbed>>

\* `git reset --hard FETCH_HEAD`: it looks up the commit, takes the lock of the
\* index, removes the files that only the index lists, writes those of the
\* commit, replaces the index, which frees its lock, and moves the head.  It
\* fails if the lock is there, whoever left it.
Resolve(p) ==
  /\ GitGoes(p, "resetting", "locking") /\ target' = [target EXCEPT ![p] = fetch_head]
  /\ UNCHANGED <<shared, files, clone, commit, seen, disturbed>>
LockIndex(p) ==
  /\ index_lock = "free" /\ GitGoes(p, "locking", "writing") /\ Disturbs(p)
  /\ index_lock' = "held" /\ tree' = tree \ ({index} \ {target[p]})
  /\ UNCHANGED <<shared, dest, fetch_head, head, index, progress>>
WriteFiles(p) ==
  /\ GitGoes(p, "writing", "indexing") /\ tree' = tree \cup {target[p]}
  /\ UNCHANGED <<shared, dest, fetch_head, head, index, index_lock, progress, disturbed>>
ReplaceIndex(p) ==
  /\ GitGoes(p, "indexing", "moving") /\ index' = target[p] /\ index_lock' = "free"
  /\ UNCHANGED <<shared, dest, fetch_head, head, tree, progress, disturbed>>
MoveHead(p) ==
  /\ GitEnds(p, "moving", "cleaning") /\ head' = target[p] /\ Disturbs(p)
  /\ UNCHANGED <<shared, dest, fetch_head, index, tree, index_lock, progress>>

\* `git clean -fdx`, which takes no lock: it reads the index, and deletes every
\* file that was not listed there.
ReadIndex(p) ==
  /\ GitGoes(p, "cleaning", "deleting") /\ target' = [target EXCEPT ![p] = index]
  /\ UNCHANGED <<shared, files, clone, commit, seen, disturbed>>
DeleteFiles(p) ==
  /\ GitEnds(p, "deleting", "noting") /\ tree' = tree \cap {target[p]} /\ Disturbs(p)
  /\ UNCHANGED <<shared, dest, fetch_head, head, index, index_lock, progress>>

\* A wrong form: the lease ends with `checkout`.
Released(p) == IF lease = p THEN NoLease ELSE lease
\* The lease is part of what `checkout` returns, and `ingest_root` keeps it.
Kept(p) == lease
\* `git rev-parse HEAD`
Note(p) ==
  /\ IngestGoes(p, "noting", "ingesting") /\ commit' = [commit EXCEPT ![p] = head]
  /\ lease' = Kept(p)
  /\ UNCHANGED <<remote, files, clone, target, seen, disturbed>>

\* A command fails, or a path cannot be made; a reset that fails after it has
\* changed files gives the lock of the index back, and leaves the files.
Fails(p) ==
  /\ stage[p] \notin {"down", "ingesting"} /\ IngestEnds(p)
  /\ index_lock' = IF stage[p] \in Locking THEN "free" ELSE index_lock
  /\ UNCHANGED <<remote, dest, fetch_head, head, index, tree>>

\* The reset is killed by its timeout or limit, with the lock of the index,
\* which stays.
ResetIsKilled(p) ==
  /\ stage[p] \in Locking /\ IngestEnds(p) /\ index_lock' = "left"
  /\ UNCHANGED <<remote, dest, fetch_head, head, index, tree>>

\* Extraction reads files of the checkout.
Extract(p) ==
  /\ IngestGoes(p, "ingesting", "ingesting") /\ seen' = [seen EXCEPT ![p] = @ \cup {tree}]
  /\ UNCHANGED <<shared, files, clone, target, commit, disturbed>>

Finish(p) ==
  /\ stage[p] = "ingesting" /\ IngestEnds(p) /\ UNCHANGED <<remote, files>>

\* The process is killed, and the command that it waits for runs on.  (A clone
\* goes to a directory nobody looks at, and `rev-parse` only reads.)
IngestIsKilled(p) ==
  /\ stage[p] # "down" /\ p \notin orphans
  /\ IF stage[p] \in Changing
     THEN stage' = stage /\ orphans' = orphans \cup {p}
     ELSE stage' = [stage EXCEPT ![p] = "down"] /\ orphans' = orphans
  /\ lease' = IF lease = p THEN NoLease ELSE lease
  /\ clone' = [clone EXCEPT ![p] = 0] /\ commit' = [commit EXCEPT ![p] = 0]
  /\ seen' = [seen EXCEPT ![p] = {}] /\ disturbed' = disturbed \ {p}
  /\ UNCHANGED <<remote, files, target>>

IngestStep(p) ==
  \/ Begin(p) \/ TakeLease(p) \/ LeaseIsTaken(p) \/ Look(p) \/ Clone(p) \/ Rename(p)
  \/ Fetch(p) \/ Resolve(p) \/ LockIndex(p) \/ WriteFiles(p) \/ ReplaceIndex(p) \/ MoveHead(p)
  \/ ReadIndex(p) \/ DeleteFiles(p)
  \/ Note(p) \/ Fails(p) \/ ResetIsKilled(p) \/ Extract(p) \/ Finish(p) \/ IngestIsKilled(p)
CheckoutNext == Push \/ \E p \in Ingests : IngestStep(p)
CheckoutSpec == CheckoutInit /\ [][CheckoutNext]_checkout_vars

-----------------------------------------------------------------------------
(* Properties.                                                             *)

\* The type invariant.
CheckoutTypeOK ==
  /\ remote \in 1..MaxCommits /\ lease \in Ingests \cup {NoLease}
  /\ dest \in {"absent", "present"} /\ {fetch_head, head, index} \cup tree \subseteq 0..MaxCommits
  /\ index_lock \in {"free", "held", "left"} /\ stage \in [Ingests -> Stages]
  /\ orphans \subseteq {p \in Ingests : stage[p] \in Changing}
  /\ disturbed \subseteq {p \in Ingests \ orphans : stage[p] \in Placed}

\* What is extracted are the files of the commit that is recorded with them,
\* all of them and no other, whatever processes with other databases do to the
\* shared checkout, and whatever resets and cleans that failed, were killed or
\* outlived their process have left in it.  The exception is a process during
\* whose own work on the files, from the lock of the index to the end of its
\* extraction, a reset or clean that outlived its process starts to write,
\* moves the head, or deletes: the lease does not keep those out.
CheckoutIsTheCommit ==
  \A p \in Ingests \ disturbed : seen[p] \subseteq {{commit[p]}}
=============================================================================
