----------------------------- MODULE SearchView -----------------------------
(***************************************************************************)
(* What the store promises to a search (the trait Store of storage/mod.rs  *)
(* and docs/schema.md): the chunks it can rank are those of whole          *)
(* documents.  A document appears, is replaced or goes in one step.        *)
(* Locks, generations, rebuilds and crashes are not visible here.          *)
(***************************************************************************)
CONSTANTS Docs, Versions, ChunksOf, NoDoc

VARIABLES docs,  \* the documents that are stored, and in which version
          view   \* the chunks a search can rank

ViewOf(table) == UNION {ChunksOf[d][table[d]] : d \in {e \in Docs : table[e] # NoDoc}}

Init == docs = [d \in Docs |-> NoDoc] /\ view = {}

Replace == \E d \in Docs, v \in Versions :
             docs' = [docs EXCEPT ![d] = v] /\ view' = ViewOf(docs')

Remove == \E gone \in SUBSET Docs :
            /\ docs' = [d \in Docs |-> IF d \in gone THEN NoDoc ELSE docs[d]]
            /\ view' = ViewOf(docs')

Next == Replace \/ Remove
Spec == Init /\ [][Next]_<<docs, view>>
=============================================================================
