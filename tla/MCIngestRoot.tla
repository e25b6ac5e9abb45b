---------------------------- MODULE MCIngestRoot ----------------------------
(* Values of the constants of IngestRoot for TLC. *)
EXTENDS IngestRoot, TLC

CONSTANTS r1, r2, a, b, c, w1, w2

OneInOne   == (a :> r1)
TwoInOne   == (a :> r1) @@ (b :> r1)
ThreeInOne == (a :> r1) @@ (b :> r1) @@ (c :> r1)
OneEach    == (a :> r1) @@ (b :> r2)

Quiet == {FALSE}
Chatty == BOOLEAN

\* The first run over a directory that has every file.
Fresh == Init /\ docs = [f \in Files |-> NoDoc] /\ \A f \in Files : fs[f] # Absent
FirstRun == Fresh /\ [][Next]_vars /\ Fairness

\* The two workers run the same code, and the files of one directory differ
\* in nothing that is counted or compared.
Symmetric == Permutations(Workers) \cup Permutations(Files)
=============================================================================
