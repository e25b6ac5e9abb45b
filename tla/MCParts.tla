------------------------------- MODULE MCParts -------------------------------
(***************************************************************************)
(* The parts of the system that share no state with the others, side by    *)
(* side for TLC: a behaviour chooses one of them and is a behaviour of it. *)
(* The others rest in their initial state.  The names of the modules that  *)
(* are extended here tell them apart.                                      *)
(***************************************************************************)
EXTENDS External, Endpoint, Engine, Checkout, Artifacts, Pdf, Windows, Ranking, TLC

CONSTANTS
  h1, h2,             \* helpers of an external command
  w1, w2, w3,         \* workers at one socket path
  r1, r2, r3,         \* searches over the socket
  p1, p2              \* processes that share a checkout or a cache

VARIABLES part

parts_vars ==
  <<part, vars, endpoint_vars, query_vars, checkout_vars, artifacts_vars, pdf_vars,
    windows_vars, ranking_vars>>

\* The third search has one result too many for a response.
ResultCounts == r1 :> 1 @@ r2 :> 2 @@ r3 :> 3

SmallDocuments == UNION {[1..n -> {"text", "blank", "none"}] : n \in 0..3}

\* Up to four tokens in a text of four bytes, the second character of which
\* has two; a range may cut it.
TokenRanges == {<<0, 0>>, <<0, 1>>, <<1, 3>>, <<3, 3>>, <<3, 4>>, <<1, 2>>}
Tokens == {o \in UNION {[1..n -> TokenRanges] : n \in 0..4} :
             \A i \in 1..Len(o) - 1 : o[i][1] <= o[i + 1][1] /\ o[i][2] <= o[i + 1][2]}
OrderedRanges == {<<4, o>> : o \in Tokens}
WindowSizes == (2..5) \X (0..2)

Hits == {l \in UNION {[1..n -> 1..3] : n \in 0..3} :
           \A i, j \in DOMAIN l : l[i] = l[j] => i = j}
ChunkBytes == <<1, 2, 1>>

Parts == {"external", "socket", "query", "repository", "weights", "document", "chunks", "ranks"}

\* A part that rests does so in one of its initial states.
Rests(name, initial) == part = name \/ initial

PartsInit ==
  /\ part \in Parts
  /\ Rests("socket", path = Nothing)
  /\ Rests("weights", weights = [d \in Devices |-> "absent"])
  /\ Rests("document", document = << >>)
  /\ Rests("chunks", length = 4 /\ offsets = << >> /\ size = 3 /\ overlap = 0)
  /\ Rests("ranks", mode = "hybrid" /\ limit = 1 /\ budget = 9
                    /\ dense = << >> /\ lexical = << >>)
  /\ Init /\ EndpointInit /\ QueryInit /\ CheckoutInit /\ ArtifactsInit
  /\ PdfInit /\ WindowsInit /\ RankingInit

PartsNext ==
  \/ /\ part = "external" /\ Next
     /\ UNCHANGED <<part, endpoint_vars, query_vars, checkout_vars, artifacts_vars,
                    pdf_vars, windows_vars, ranking_vars>>
  \/ /\ part = "socket" /\ EndpointNext
     /\ UNCHANGED <<part, vars, query_vars, checkout_vars, artifacts_vars,
                    pdf_vars, windows_vars, ranking_vars>>
  \/ /\ part = "query" /\ QueryNext
     /\ UNCHANGED <<part, vars, endpoint_vars, checkout_vars, artifacts_vars,
                    pdf_vars, windows_vars, ranking_vars>>
  \/ /\ part = "repository" /\ CheckoutNext
     /\ UNCHANGED <<part, vars, endpoint_vars, query_vars, artifacts_vars,
                    pdf_vars, windows_vars, ranking_vars>>
  \/ /\ part = "weights" /\ ArtifactsNext
     /\ UNCHANGED <<part, vars, endpoint_vars, query_vars, checkout_vars,
                    pdf_vars, windows_vars, ranking_vars>>
  \/ /\ part = "document" /\ PdfNext
     /\ UNCHANGED <<part, vars, endpoint_vars, query_vars, checkout_vars,
                    artifacts_vars, windows_vars, ranking_vars>>
  \/ /\ part = "chunks" /\ WindowsNext
     /\ UNCHANGED <<part, vars, endpoint_vars, query_vars, checkout_vars,
                    artifacts_vars, pdf_vars, ranking_vars>>
  \/ /\ part = "ranks" /\ RankingNext
     /\ UNCHANGED <<part, vars, endpoint_vars, query_vars, checkout_vars,
                    artifacts_vars, pdf_vars, windows_vars>>

\* The fairness of External, where it is the part that runs.
IfExternal(action) == part = "external" /\ action
PartsSpec ==
  /\ PartsInit
  /\ [][PartsNext]_parts_vars
  /\ WF_vars(IfExternal(Caller)) /\ WF_vars(IfExternal(ReadOutput)) /\ WF_vars(IfExternal(OutputEnds))
  /\ WF_vars(IfExternal(DiagnosticsEnd)) /\ WF_vars(IfExternal(TimePasses))

-----------------------------------------------------------------------------
(* The properties of the parts.                                            *)

\* The state of every part is of its type.
TypesOK ==
  /\ TypeOK /\ EndpointTypeOK /\ QueryTypeOK /\ CheckoutTypeOK /\ ArtifactsTypeOK
  /\ PdfTypeOK /\ WindowsTypeOK /\ RankingTypeOK

\* An external call ends, by its timeout at the latest.
ExternalCallEnds == part = "external" => CallEnds

\* No process of a converter and no thread outlives the call, and no engine
\* outlives its worker.
NoProcessOutlives == NothingIsLeft /\ NoOrphanEngine
=============================================================================
