---------------------------- MODULE MCSupervisor ----------------------------
(* Values of the constants of Supervisor for TLC. *)
EXTENDS Supervisor, TLC

CONSTANTS c1, c2, c3, i1, i2, i3

\* What a read brings: a frame of any kind, a part of one, or two frames, a
\* search and what can go wrong with it at once: its cancellation, its id again,
\* another search, a frame that is not complete.
Lexical == {f \in Searches : f.op = "lexical"}
Pairs == {<<f>> : f \in Frame} \cup {<<f, g>> : f \in Lexical, g \in Lexical \cup Cancels \cup {Partial}}
\* The same for three clients: a search and its cancellation.
CancelledPairs == {<<f>> : f \in Frame}
                    \cup UNION {{<<f, g>> : g \in {c \in Cancels : c.target = f.id} \cup {Partial}} : f \in Lexical}

ConnSymmetry == Permutations(Conns)
IdSymmetry == Permutations(Ids)
=============================================================================
