------------------------------ MODULE External ------------------------------
(***************************************************************************)
(* An external converter under supervision: `run_captured` of              *)
(* extract/external.rs, with `read_limited` of util.rs.                    *)
(*                                                                         *)
(* The caller starts a child as the leader of a new process group, and two *)
(* threads that drain its pipes.  A polling loop waits until the child has *)
(* exited and its complete output has come through a channel; a failure,   *)
(* too much output or disk, or the timeout end the loop.  In every case    *)
(* the process group is killed then, the child is waited for and the       *)
(* threads are joined.  The child may start helpers that inherit its pipes *)
(* and its group, outlive it, or leave the group.                          *)
(***************************************************************************)
EXTENDS Naturals, FiniteSets

CONSTANTS
  Child, Helpers,  \* the process that is started, and those it may start
  Cap,             \* output that is accepted
  PipeSize,        \* what the pipe buffers
  MaxWritten,      \* bound on the output of a behaviour
  Limited          \* the workspace has a limit

ASSUME ExternalAssumption ==
  /\ Child \notin Helpers
  /\ Cap \in Nat /\ PipeSize \in Nat \ {0} /\ MaxWritten \in Nat /\ Limited \in BOOLEAN

Procs == {Child} \cup Helpers

VARIABLES
  alive, group,     \* processes that run; processes of the child's group
  started,          \* the helpers that were started
  out, err,         \* the processes that hold an end of the pipes
  status,           \* exit of the child
  pipe, written,    \* output in the pipe, and all that was written
  got, reader, sent,\* the output thread: what it read, its state, its message
  diagnostics,      \* the thread that drains the diagnostics
  bloated, late,    \* the workspace is over its limit; the timeout has passed
  pc, output, result\* the caller

world   == <<alive, group, started, out, err, status>>
stream  == <<pipe, written>>
threads == <<got, reader, sent, diagnostics>>
caller  == <<pc, output, result>>
vars == <<world, stream, threads, bloated, late, caller>>

Init ==
  /\ alive = {Child} /\ group = {Child} /\ started = {} /\ out = {Child} /\ err = {Child}
  /\ status = "none" /\ pipe = 0 /\ written = 0
  /\ got = 0 /\ reader = "reads" /\ sent = "none" /\ diagnostics = "reads"
  /\ bloated = FALSE /\ late = FALSE
  /\ pc = "disk" /\ output = "none" /\ result = "none"

-----------------------------------------------------------------------------
(* The processes; time.                                                    *)

Start(p, h) ==
  /\ p \in alive /\ h \in Helpers \ started
  /\ started' = started \cup {h} /\ alive' = alive \cup {h}
  /\ group' = IF p \in group THEN group \cup {h} ELSE group
  /\ out' = IF p \in out THEN out \cup {h} ELSE out
  /\ err' = IF p \in err THEN err \cup {h} ELSE err
  /\ UNCHANGED <<status, stream, threads, bloated, late, caller>>

\* A helper becomes a session of its own.
Leave(h) ==
  /\ h \in alive \cap group \cap Helpers /\ group' = group \ {h}
  /\ UNCHANGED <<alive, started, out, err, status, stream, threads, bloated, late, caller>>

\* A process gives its pipes up, as a daemon does.
Detach(p) ==
  /\ p \in out \cup err /\ out' = out \ {p} /\ err' = err \ {p}
  /\ UNCHANGED <<alive, group, started, status, stream, threads, bloated, late, caller>>

Exit(p) ==
  /\ p \in alive
  /\ alive' = alive \ {p} /\ out' = out \ {p} /\ err' = err \ {p}
  /\ IF p = Child THEN status' \in {"success", "failure"} ELSE UNCHANGED status
  /\ UNCHANGED <<group, started, stream, threads, bloated, late, caller>>

Write(p) ==
  /\ p \in out /\ reader = "reads" /\ pipe < PipeSize /\ written < MaxWritten
  /\ pipe' = pipe + 1 /\ written' = written + 1
  /\ UNCHANGED <<world, threads, bloated, late, caller>>

Bloat ==
  /\ Limited /\ alive # {} /\ bloated' = TRUE
  /\ UNCHANGED <<world, stream, threads, late, caller>>

TimePasses ==
  /\ late' = TRUE /\ UNCHANGED <<world, stream, threads, bloated, caller>>

-----------------------------------------------------------------------------
(* The threads.                                                            *)

\* `read_limited` reads one unit more than it accepts.
\* A wrong form: it reads one unit too many.
ReadsBeyond == Cap + 2
ReadsUpTo == Cap + 1

ReadOutput ==
  /\ reader = "reads" /\ pipe > 0 /\ got < ReadsUpTo
  /\ got' = got + 1 /\ pipe' = pipe - 1
  /\ UNCHANGED <<world, written, reader, sent, diagnostics, bloated, late, caller>>

\* The end of the output, or of what is read of it: the thread sends what it has
\* and closes the pipe.
OutputEnds ==
  /\ reader = "reads"
  /\ got = ReadsUpTo \/ (pipe = 0 /\ out = {})
  /\ reader' = "done" /\ sent' = IF got > Cap THEN "error" ELSE "output"
  /\ UNCHANGED <<world, stream, got, diagnostics, bloated, late, caller>>

DiagnosticsEnd ==
  /\ diagnostics = "reads" /\ err = {} /\ diagnostics' = "done"
  /\ UNCHANGED <<world, stream, got, reader, sent, bloated, late, caller>>

-----------------------------------------------------------------------------
(* The polling loop of the caller, and what follows it.                    *)

Steps(next) == pc' = next /\ UNCHANGED <<output, result>>
Ends(r) == result' = r /\ pc' = "kill" /\ UNCHANGED output

\* The workspace is measured every tenth of a second; a file that is deleted
\* meanwhile fails the measurement.
Measured(next) ==
  \/ ~(Limited /\ bloated) /\ next
  \/ Limited /\ (bloated \/ alive # {}) /\ Ends("error")

CheckDisk ==
  /\ pc = "disk" /\ (Steps("receive") \/ Measured(Steps("receive")))
  /\ UNCHANGED <<world, stream, threads, bloated, late>>

Receive ==
  /\ pc = "receive"
  /\ \/ (output # "none" \/ sent = "none") /\ Steps("poll")
     \/ output = "none" /\ sent = "error" /\ Ends("error")
     \/ output = "none" /\ sent = "output" /\ output' = "complete" /\ pc' = "poll" /\ UNCHANGED result
  /\ UNCHANGED <<world, stream, threads, bloated, late>>

\* A wrong form: the exit of the child is enough.
Exited == status = "success"
Finished == status = "success" /\ output # "none"
Poll ==
  /\ pc = "poll"
  /\ \/ status = "failure" /\ Ends("error")
     \/ Finished /\ Measured(Ends("ok"))
     \/ status # "failure" /\ ~Finished /\ Steps("clock")
  /\ UNCHANGED <<world, stream, threads, bloated, late>>

\* A wrong form: a child that is gone has all the time in the world.
WaitsForOutput == late /\ status = "none"
Expired == late
Clock ==
  /\ pc = "clock"
  /\ IF Expired THEN Ends("error") ELSE Steps("disk")
  /\ UNCHANGED <<world, stream, threads, bloated, late>>

Killed == group
\* SIGKILL to the process group, whatever ended the loop.
Kill ==
  /\ pc = "kill" /\ Steps("wait")
  /\ alive' = alive \ Killed /\ out' = out \ Killed /\ err' = err \ Killed
  /\ status' = IF Child \in alive THEN "failure" ELSE status
  /\ UNCHANGED <<group, started, stream, threads, bloated, late>>

Wait ==
  /\ pc = "wait" /\ Child \notin alive /\ Steps("join")
  /\ UNCHANGED <<world, stream, threads, bloated, late>>

Join ==
  /\ pc = "join" /\ reader = "done" /\ diagnostics = "done" /\ Steps("returned")
  /\ UNCHANGED <<world, stream, threads, bloated, late>>

Caller  == CheckDisk \/ Receive \/ Poll \/ Clock \/ Kill \/ Wait \/ Join
Threads == ReadOutput \/ OutputEnds \/ DiagnosticsEnd
World == \/ \E p \in Procs : Detach(p) \/ Exit(p) \/ Write(p) \/ \E h \in Helpers : Start(p, h)
         \/ \E h \in Helpers : Leave(h)
         \/ Bloat \/ TimePasses
Next == Caller \/ Threads \/ World

\* The caller, its threads and the clock go on; the processes need not.
Spec == /\ Init /\ [][Next]_vars
        /\ WF_vars(Caller) /\ WF_vars(ReadOutput) /\ WF_vars(OutputEnds)
        /\ WF_vars(DiagnosticsEnd) /\ WF_vars(TimePasses)

-----------------------------------------------------------------------------
(* Properties.                                                             *)

\* The type invariant.
TypeOK ==
  /\ alive \subseteq {Child} \cup started /\ group \subseteq {Child} \cup started
  /\ started \subseteq Helpers /\ out \subseteq alive /\ err \subseteq alive
  /\ status \in {"none", "success", "failure"} /\ (status = "none" <=> Child \in alive)
  /\ pipe \in 0..PipeSize /\ written \in 0..MaxWritten /\ got \in 0..Cap + 1
  /\ got + pipe = written
  /\ reader \in {"reads", "done"} /\ sent \in {"none", "output", "error"}
  /\ diagnostics \in {"reads", "done"} /\ bloated \in BOOLEAN /\ late \in BOOLEAN
  /\ pc \in {"disk", "receive", "poll", "clock", "kill", "wait", "join", "returned"}
  /\ output \in {"none", "complete"} /\ result \in {"none", "ok", "error"}

\* A success is the complete output of the child and its helpers: nothing they
\* wrote is missing, whoever of them still ran when the child had exited, and
\* output over the limit is never passed off as all of it.
SuccessIsComplete ==
  result = "ok" =>
    status = "success" /\ output = "complete" /\ out = {} /\ got = written /\ written <= Cap

\* No process of the group and no thread outlives the call.
NothingIsLeft ==
  /\ pc \in {"wait", "join", "returned"} => alive \cap group = {}
  /\ pc = "returned" => reader = "done" /\ diagnostics = "done"

\* The call ends by its timeout whatever the processes do, unless one that left
\* the group keeps a pipe open for ever.
EscapedWithPipe == (out \cup err) \ group # {}
CallEnds == <>(pc = "returned") \/ <>[]EscapedWithPipe
=============================================================================
