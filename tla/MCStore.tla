------------------------------ MODULE MCStore ------------------------------
(* Values of the constants of Store for TLC. *)
EXTENDS Store, TLC

CONSTANTS p1, p2, p3, d1, d2, v1, v2, db, link, rev1, rev2, k1, k2, k3, s1

\* Chunk ids are hashes: the order mixes the documents.  The first chunk of d1
\* has the same text in both versions, and so the same id; d2 can be empty.
Chunked == d1 :> (v1 :> {1, 3} @@ v2 :> {1, 4}) @@ d2 :> (v1 :> {2} @@ v2 :> {})

OneName   == [p \in Procs |-> db]
LinkAndName == [p \in Procs |-> IF p = p2 THEN link ELSE db]
LinkOnly  == [p \in Procs |-> link]
OneBuild  == [p \in Procs |-> k1]
TwoBuilds == p1 :> k1 @@ p2 :> k2
ThreeBuilds == TwoBuilds @@ p3 :> k3
WithSearch == ThreeBuilds @@ s1 :> k1
OneTokenizer  == k1 :> rev1
SameTokenizer == k1 :> rev1 @@ k2 :> rev1
NewTokenizer  == k1 :> rev1 @@ k2 :> rev2
NewestTokenizer == SameTokenizer @@ k3 :> rev2
=============================================================================
