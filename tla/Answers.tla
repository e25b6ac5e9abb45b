------------------------------ MODULE Answers ------------------------------
(***************************************************************************)
(* What a search over the socket promises to the one who started it: it    *)
(* prints results of its own request, in their order, and succeeds only    *)
(* when all of them are printed.  It may fail at any moment, with some of  *)
(* them printed.                                                           *)
(***************************************************************************)
EXTENDS Naturals

CONSTANTS
  Requests, None,
  Results     \* the number of results a request has

VARIABLES
  request,    \* the request of the search that runs
  printed,    \* for every result that was printed, its request and its rank
  outcome     \* of the last search

vars == <<request, printed, outcome>>

Init == request = None /\ printed = {} /\ outcome = "none"

Ask(r) ==
  request = None /\ request' = r /\ printed' = {} /\ outcome' = "none"

PrintResult ==
  /\ request # None
  /\ \E n \in 1..Results[request] :
       /\ \A m \in 1..(n - 1) : <<request, m>> \in printed
       /\ printed' = printed \cup {<<request, n>>}
  /\ UNCHANGED <<request, outcome>>

Succeed ==
  /\ request # None /\ \A n \in 1..Results[request] : <<request, n>> \in printed
  /\ request' = None /\ outcome' = "success" /\ UNCHANGED printed

Fail ==
  /\ request # None /\ request' = None /\ outcome' = "failure" /\ UNCHANGED printed

Next == PrintResult \/ Succeed \/ Fail \/ \E r \in Requests : Ask(r)
Spec == Init /\ [][Next]_vars
=============================================================================
