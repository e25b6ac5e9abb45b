------------------------------ MODULE Endpoint ------------------------------
(***************************************************************************)
(* The socket of a query worker: `Endpoint::bind` and the `drop` of it in  *)
(* retrieval/transport.rs.                                                 *)
(*                                                                         *)
(* Workers that are started for one path exclude each other with a lock    *)
(* file beside it.  The one that gets the lock looks at what is at the     *)
(* path: nothing, a socket or anything else.  It connects to a socket, and *)
(* removes it only if the connection is refused, as it is when the worker  *)
(* that made it died.  Then it binds a socket of its own, and removes it   *)
(* again when it ends, if the path still holds that very inode.  A worker  *)
(* may be killed at any step: the system releases its lock and closes its  *)
(* listener, and leaves the socket where it is.                            *)
(***************************************************************************)
EXTENDS Naturals

CONSTANTS
  Workers,
  Nobody,    \* the lock is free
  Nothing,   \* there is nothing at the path
  Foreign,   \* a file that is no socket of this user
  MaxBinds   \* bound on the sockets that are made

ASSUME EndpointAssumption == Nobody \notin Workers

VARIABLES
  lock,      \* the worker that holds the lock
  path,      \* what is at the path: an inode, Nothing or Foreign
  place,     \* where a worker is
  made,      \* the inode a worker has bound, 0 before
  identity,  \* the inode a worker takes for its own, 0 before
  listening, \* workers whose listener accepts connections
  binds      \* sockets made so far

endpoint_vars == <<lock, path, place, made, identity, listening, binds>>

EndpointInit ==
  /\ lock = Nobody /\ path \in {Nothing, Foreign} /\ binds = 0
  /\ place = [w \in Workers |-> "down"]
  /\ made = [w \in Workers |-> 0] /\ identity = [w \in Workers |-> 0]
  /\ listening = {}

WorkerGoes(w, from, to) == place[w] = from /\ place' = [place EXCEPT ![w] = to]

\* A connection to the path is accepted, or waits to be.
Answered == \E w \in listening : made[w] = path

\* The end of a worker, in whatever way: its descriptors are closed.
WorkerEnds(w) ==
  /\ place' = [place EXCEPT ![w] = "down"]
  /\ lock' = IF lock = w THEN Nobody ELSE lock
  /\ listening' = listening \ {w}
  /\ made' = [made EXCEPT ![w] = 0] /\ identity' = [identity EXCEPT ![w] = 0]

StartWorker(w) ==
  /\ WorkerGoes(w, "down", "locking")
  /\ UNCHANGED <<lock, path, made, identity, listening, binds>>

\* A wrong form: the lock is not looked at.
ShareLock(w) ==
  /\ WorkerGoes(w, "locking", "probing") /\ lock' = w
  /\ UNCHANGED <<path, made, identity, listening, binds>>
TakeLock(w) ==
  /\ lock = Nobody /\ WorkerGoes(w, "locking", "probing") /\ lock' = w
  /\ UNCHANGED <<path, made, identity, listening, binds>>

\* "worker already owns this socket"
LockIsTaken(w) ==
  place[w] = "locking" /\ lock # Nobody /\ WorkerEnds(w) /\ UNCHANGED <<path, binds>>

FindNothing(w) ==
  /\ path = Nothing /\ WorkerGoes(w, "probing", "binding")
  /\ UNCHANGED <<lock, path, made, identity, listening, binds>>

FindStale(w) ==
  /\ path \notin {Nothing, Foreign} /\ ~Answered /\ WorkerGoes(w, "probing", "removing")
  /\ UNCHANGED <<lock, path, made, identity, listening, binds>>

\* "refusing to replace a non-socket", "socket already has a listener"
FindOther(w) ==
  /\ place[w] = "probing" /\ path # Nothing /\ (path = Foreign \/ Answered)
  /\ WorkerEnds(w) /\ UNCHANGED <<path, binds>>

RemoveStale(w) ==
  /\ path # Nothing /\ WorkerGoes(w, "removing", "binding") /\ path' = Nothing
  /\ UNCHANGED <<lock, made, identity, listening, binds>>

\* bind(2) makes the socket; until listen(2) connections to it are refused.
Bind(w) ==
  /\ path = Nothing /\ binds < MaxBinds /\ WorkerGoes(w, "binding", "bound")
  /\ binds' = binds + 1 /\ path' = binds' /\ made' = [made EXCEPT ![w] = binds']
  /\ UNCHANGED <<lock, identity, listening>>

Listen(w) ==
  /\ WorkerGoes(w, "bound", "identifying") /\ listening' = listening \cup {w}
  /\ UNCHANGED <<lock, path, made, identity, binds>>

\* The identity is that of whatever the path holds now.
Identify(w) ==
  /\ path \notin {Nothing, Foreign} /\ WorkerGoes(w, "identifying", "serving")
  /\ identity' = [identity EXCEPT ![w] = path]
  /\ UNCHANGED <<lock, path, made, listening, binds>>

\* A call of the file system fails: what `bind` has not yet made an endpoint
\* is closed and not removed.
BindFails(w) ==
  /\ place[w] \in {"locking", "probing", "removing", "binding", "bound", "identifying"}
  /\ WorkerEnds(w) /\ UNCHANGED <<path, binds>>

\* `serve` returns, or the mode of the socket cannot be set.
LeaveEndpoint(w) ==
  /\ WorkerGoes(w, "serving", "leaving")
  /\ UNCHANGED <<lock, path, made, identity, listening, binds>>

\* The inode is compared, then the file removed, all under the lock.
Unlink(w) ==
  /\ WorkerGoes(w, "leaving", "closing")
  /\ path' = IF path = identity[w] THEN Nothing ELSE path
  /\ UNCHANGED <<lock, made, identity, listening, binds>>

Close(w) == place[w] = "closing" /\ WorkerEnds(w) /\ UNCHANGED <<path, binds>>

Crash(w) == place[w] # "down" /\ WorkerEnds(w) /\ UNCHANGED <<path, binds>>

WorkerStep(w) ==
  \/ StartWorker(w) \/ TakeLock(w) \/ LockIsTaken(w)
  \/ FindNothing(w) \/ FindStale(w) \/ FindOther(w) \/ RemoveStale(w)
  \/ Bind(w) \/ Listen(w) \/ Identify(w) \/ BindFails(w)
  \/ LeaveEndpoint(w) \/ Unlink(w) \/ Close(w) \/ Crash(w)
EndpointNext == \E w \in Workers : WorkerStep(w)
EndpointSpec == EndpointInit /\ [][EndpointNext]_endpoint_vars

-----------------------------------------------------------------------------
(* Properties.                                                             *)

Places == {"down", "locking", "probing", "removing", "binding", "bound", "identifying",
           "serving", "leaving", "closing"}

\* The type invariant.
EndpointTypeOK ==
  /\ lock \in Workers \cup {Nobody} /\ path \in Nat \cup {Nothing, Foreign}
  /\ place \in [Workers -> Places] /\ listening \subseteq Workers
  /\ made \in [Workers -> Nat] /\ identity \in [Workers -> Nat] /\ binds \in Nat

\* A worker that serves can be reached: what it listens on is what the path
\* holds, whoever probes, removes, binds, dies or leaves beside it.
ServingIsReachable ==
  \A w \in Workers : place[w] = "serving" => w \in listening /\ path = made[w]
=============================================================================
