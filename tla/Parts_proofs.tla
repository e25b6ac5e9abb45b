---------------------------- MODULE Parts_proofs -----------------------------
(***************************************************************************)
(* The parts side by side: a behaviour of MCParts is, for every part, a    *)
(* behaviour of its specification, so what is proved of the parts holds    *)
(* beside the others too.                                                  *)
(***************************************************************************)
EXTENDS MCParts, Sharing_proofs, Content_proofs, Processes_proofs

\* A step of one part leaves the state of the others alone.
LEMMA StepOfAPart ==
  ASSUME [PartsNext]_parts_vars
  PROVE  /\ [Next]_vars /\ [EndpointNext]_endpoint_vars /\ [QueryNext]_query_vars
         /\ [CheckoutNext]_checkout_vars /\ [ArtifactsNext]_artifacts_vars
         /\ [PdfNext]_pdf_vars /\ [WindowsNext]_windows_vars /\ [RankingNext]_ranking_vars
<1>1. CASE PartsNext
  BY <1>1, Zenon DEF PartsNext
<1>2. CASE UNCHANGED parts_vars
  BY <1>2, Zenon DEF parts_vars
<1> QED
  BY <1>1, <1>2

\* Every part behaves as its module says.
THEOREM PartsBehave ==
  PartsSpec => /\ Init /\ [][Next]_vars
               /\ EndpointSpec /\ QuerySpec /\ CheckoutSpec /\ ArtifactsSpec
               /\ PdfSpec /\ WindowsSpec /\ RankingSpec
<1>1. PartsInit => /\ Init /\ EndpointInit /\ QueryInit /\ CheckoutInit /\ ArtifactsInit
                   /\ PdfInit /\ WindowsInit /\ RankingInit
  BY DEF PartsInit
<1>2. PartsSpec => PartsInit /\ [][PartsNext]_parts_vars
  BY PTL DEF PartsSpec
<1> QED
  BY <1>1, <1>2, StepOfAPart, PTL
     DEF EndpointSpec, QuerySpec, CheckoutSpec, ArtifactsSpec, PdfSpec, WindowsSpec, RankingSpec

\* The state of every part is of its type and within its bounds.
THEOREM PartsTypes == PartsSpec => []TypesOK
<1>1. CallInv => TypeOK
  BY DEF CallInv
<1>2. EngineInv => QueryTypeOK
  BY DEF EngineInv, EngineTyped
<1>3. TypeOK /\ EndpointTypeOK /\ QueryTypeOK /\ CheckoutTypeOK /\ ArtifactsTypeOK
        /\ PdfTypeOK /\ WindowsTypeOK /\ RankingTypeOK => TypesOK
  BY DEF TypesOK
<1> QED
  BY <1>1, <1>2, <1>3, PartsBehave, CallSafety, EndpointTypes, EngineInvariant, CheckoutTypes,
     ArtifactsTypes, PdfTypes, WindowsTypes, RankingTypes, PTL

\* No process of a converter and no thread outlives the call that started it
\* (the end of run_captured in extract/external.rs), and no engine its worker
\* (`pre_exec` in retrieval/transport.rs).
THEOREM NothingStays == PartsSpec => []NoProcessOutlives
<1>1. CallInv => NothingIsLeft
  BY DEF CallInv
<1>2. EngineInv => NoOrphanEngine
  BY DEF EngineInv
<1>3. NothingIsLeft /\ NoOrphanEngine => NoProcessOutlives
  BY DEF NoProcessOutlives
<1> QED
  BY <1>1, <1>2, <1>3, PartsBehave, CallSafety, EngineInvariant, PTL
=============================================================================
