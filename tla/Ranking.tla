------------------------------- MODULE Ranking -------------------------------
(***************************************************************************)
(* How a search ranks: the candidates of the vector index and of the text  *)
(* index (storage/search.rs), their fusion (`rank` of retrieval/mod.rs)    *)
(* and the hydration of the results, within a budget of bytes, that ends   *)
(* `search_bounded`.                                                       *)
(*                                                                         *)
(* A candidate at position i of a list adds 1 / (K + i) to the score of    *)
(* its chunk.  Scores are kept as numerators over a common denominator.    *)
(* Chunk ids are numbers, in their order.                                  *)
(***************************************************************************)
EXTENDS Integers, FiniteSets, Sequences, SequencesExt, FiniteSetsExt

CONSTANTS
  Lists,           \* the lists an index may return, best first, no id twice
  Limits, MaxResults,
  CandidatesMin, CandidatesMax,  \* the clamp of the candidates of a hybrid search
  K, MaxLength,    \* the constant of the fusion; bound on the lists
  Denominator,     \* a multiple of every K + i, and so of all the scores
  Bytes,           \* the bytes of a hydrated chunk
  Budgets          \* what may be hydrated

ASSUME RankingAssumption ==
  /\ \A list \in Lists :
       /\ list \in Seq(Nat) /\ Len(list) <= MaxLength
       /\ \A i, j \in DOMAIN list : list[i] = list[j] => i = j
       /\ \A i \in DOMAIN list : Bytes[list[i]] \in Nat
  /\ Limits \subseteq Nat /\ Budgets \subseteq Nat
  /\ MaxResults \in Nat /\ CandidatesMin \in Nat /\ CandidatesMax \in Nat
  /\ K \in Nat /\ MaxLength \in Nat /\ Denominator \in Nat \ {0}
  /\ \A i \in 1..MaxLength : Denominator % (K + i) = 0

VARIABLES
  mode, limit, budget,
  dense, lexical,  \* what the indexes hold for the query
  union,           \* the score of every chunk that was met
  ranked, results, search_state

ranking_vars == <<mode, limit, budget, dense, lexical, union, ranked, results, search_state>>

RankingInit ==
  /\ mode \in {"semantic", "lexical", "hybrid"} /\ limit \in Limits /\ budget \in Budgets
  /\ dense \in Lists /\ lexical \in Lists
  /\ union = << >> /\ ranked = << >> /\ results = << >> /\ search_state = "validate"

Validate ==
  /\ search_state = "validate"
  /\ search_state' = IF limit \in 1..MaxResults THEN "query" ELSE "failed"
  /\ UNCHANGED <<mode, limit, budget, dense, lexical, union, ranked, results>>

candidate_limit ==
  IF mode = "hybrid" THEN Max({CandidatesMin, Min({limit * 4, CandidatesMax})}) ELSE limit
Taken(list, n) == SubSeq(list, 1, Min({n, Len(list)}))

\* The two queries, each ordered and cut by the database.
Query ==
  /\ search_state = "query" /\ search_state' = IF mode = "hybrid" THEN "dense" ELSE "single"
  /\ dense' = IF mode = "lexical" THEN << >> ELSE Taken(dense, candidate_limit)
  /\ lexical' = IF mode = "semantic" THEN << >> ELSE Taken(lexical, candidate_limit)
  /\ UNCHANGED <<mode, limit, budget, union, ranked, results>>

\* One list is ranked as it is.
Single ==
  /\ search_state = "single" /\ search_state' = "hydrate"
  /\ ranked' = Taken(IF mode = "semantic" THEN dense ELSE lexical, limit)
  /\ UNCHANGED <<mode, limit, budget, dense, lexical, union, results>>

\* 1 / (K + i), over the denominator.
Weight(i) == Denominator \div (K + i)
ScoreOf(c) == IF c \in DOMAIN union THEN union[c] ELSE 0

\* A wrong form: the entry of the other list is replaced.
Replaced(c, i) == Weight(i)
Summed(c, i) == ScoreOf(c) + Weight(i)
Fused(list) ==
  [c \in DOMAIN union \cup ToSet(list) |->
     IF c \in ToSet(list) THEN Summed(c, CHOOSE i \in DOMAIN list : list[i] = c) ELSE union[c]]

FuseDense ==
  /\ search_state = "dense" /\ union' = Fused(dense) /\ search_state' = "lexical"
  /\ UNCHANGED <<mode, limit, budget, dense, lexical, ranked, results>>
FuseLexical ==
  /\ search_state = "lexical" /\ union' = Fused(lexical) /\ search_state' = "sort"
  /\ UNCHANGED <<mode, limit, budget, dense, lexical, ranked, results>>

\* The highest score first; chunks with equal scores in the order of their ids.
Before(a, b) == union[a] > union[b] \/ (union[a] = union[b] /\ a < b)
Sort ==
  /\ search_state = "sort" /\ search_state' = "hydrate"
  /\ \E order \in [1..Cardinality(DOMAIN union) -> DOMAIN union] :
       /\ ToSet(order) = DOMAIN union
       /\ \A i, j \in DOMAIN order : i < j => Before(order[i], order[j])
       /\ ranked' = Taken(order, limit)
  /\ UNCHANGED <<mode, limit, budget, dense, lexical, union, results>>

\* `hydrate_bounded`, in the order of the ranks.
Hydrate ==
  /\ search_state = "hydrate" /\ Len(results) < Len(ranked)
  /\ LET c == ranked[Len(results) + 1]
     IN Bytes[c] <= budget /\ budget' = budget - Bytes[c] /\ results' = Append(results, c)
  /\ UNCHANGED <<mode, limit, dense, lexical, union, ranked, search_state>>

\* "response_limit: narrow the query or reduce --limit"
OverBudget ==
  /\ search_state = "hydrate" /\ Len(results) < Len(ranked)
  /\ Bytes[ranked[Len(results) + 1]] > budget /\ search_state' = "failed" /\ results' = << >>
  /\ UNCHANGED <<mode, limit, budget, dense, lexical, union, ranked>>

Report ==
  /\ search_state = "hydrate" /\ Len(results) = Len(ranked) /\ search_state' = "done"
  /\ UNCHANGED <<mode, limit, budget, dense, lexical, union, ranked, results>>

RankingNext ==
  \/ Validate \/ Query \/ Single \/ FuseDense \/ FuseLexical \/ Sort
  \/ Hydrate \/ OverBudget \/ Report
RankingSpec == RankingInit /\ [][RankingNext]_ranking_vars

-----------------------------------------------------------------------------
(* Properties.                                                             *)

\* The type invariant.
RankingTypeOK ==
  /\ search_state \in {"validate", "query", "single", "dense", "lexical", "sort", "hydrate", "done",
                "failed"}
  /\ Len(results) <= Len(ranked) /\ budget \in Nat

\* What the places of a chunk in the two lists make its score, and which of two
\* chunks is the better one.
Met == ToSet(dense) \cup ToSet(lexical)
PlaceIn(list, c) == SelectInSeq(list, LAMBDA e : e = c)
Share(place) == IF place = 0 THEN 0 ELSE Weight(place)
FusedScore(c) == Share(PlaceIn(dense, c)) + Share(PlaceIn(lexical, c))
Better(a, b) ==
  FusedScore(a) > FusedScore(b) \/ (FusedScore(a) = FusedScore(b) /\ a < b)

\* A search that succeeds returns, in order, the best of all candidates up to
\* its limit: the result at a rank is the one that has as many better than it
\* as there are ranks before it.  None is lost or moved by the fusion, by ties
\* or by the budget, which fails a search rather than shorten its answer.
RanksAreFused ==
  search_state = "done" =>
    /\ Len(results) = Min({limit, Cardinality(Met)})
    /\ \A n \in DOMAIN results :
         results[n] \in Met /\ Cardinality({c \in Met : Better(c, results[n])}) = n - 1
=============================================================================
