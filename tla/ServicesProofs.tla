--------------------------- MODULE ServicesProofs ---------------------------
(***************************************************************************)
(* Every behaviour of MCServices is a behaviour of each of its parts, so   *)
(* that what the other modules prove of a part holds of the composition,   *)
(* for every value of the constants and not only those of the run.         *)
(***************************************************************************)
EXTENDS MCServices, GraphBudgetProofs, GraphReadingProofs, WebAppProofs, ContentOverlapProofs

\* A part that is not the one that moves stands still.
LEMMA PartsMoveAlone ==
  ASSUME [ServicesNext]_ServicesVars
  PROVE  /\ [BudgetNext]_budgetVars /\ [PagingNext]_pagingVars /\ [SnippetNext]_snippetVars
         /\ [LoginNext]_loginVars /\ [TokenNext]_tokenVars /\ [McpNext]_mcpVars
         /\ [DashboardNext]_dashboardVars /\ [PageNext]_pageVars /\ [OverlapNext]_overlapVars
<1>1. CASE UNCHANGED ServicesVars
  BY <1>1 DEF ServicesVars
<1>2. CASE ServicesNext
  BY <1>2, Zenon DEF ServicesNext, Moves
<1> QED BY <1>1, <1>2

(* The services share nothing: a behaviour of them all is a behaviour of each, *)
(* with its initial state and only its steps.                                  *)
THEOREM PartsKeepTheirSpecs ==
  ServicesSpec => /\ BudgetSpec /\ PagingSpec /\ SnippetSpec /\ LoginSpec /\ TokenSpec
                  /\ McpSpec /\ DashboardSpec /\ PageSpec /\ OverlapSpec
<1>1. ServicesInit => /\ BudgetInit /\ PagingInit /\ SnippetInit /\ LoginInit /\ TokenInit
                      /\ McpInit /\ DashboardInit /\ PageInit /\ OverlapInit
  BY Zenon DEF ServicesInit
<1>2. [ServicesNext]_ServicesVars =>
         /\ [BudgetNext]_budgetVars /\ [PagingNext]_pagingVars /\ [SnippetNext]_snippetVars
         /\ [LoginNext]_loginVars /\ [TokenNext]_tokenVars /\ [McpNext]_mcpVars
         /\ [DashboardNext]_dashboardVars /\ [PageNext]_pageVars /\ [OverlapNext]_overlapVars
  BY PartsMoveAlone
<1> QED BY <1>1, <1>2, PTL
        DEF ServicesSpec, BudgetSpec, PagingSpec, SnippetSpec, LoginSpec, TokenSpec, McpSpec,
            DashboardSpec, PageSpec, OverlapSpec

(* Every variable of the services holds what the code can store there. *)
THEOREM ServicesTypes == ServicesSpec => []ServicesTypeOK
<1>1. ServicesInit => part \in Parts
  BY Zenon DEF ServicesInit
<1>2. part \in Parts /\ [ServicesNext]_ServicesVars => (part \in Parts)'
  BY DEF ServicesNext, ServicesVars
<1>3. ServicesSpec => [](part \in Parts)
  BY <1>1, <1>2, PTL DEF ServicesSpec
<1>4. ServicesSpec => /\ []BudgetTypeOK /\ []PagingTypeOK /\ []SnippetTypeOK /\ []LoginTypeOK
                      /\ []TokenTypeOK /\ []McpTypeOK /\ []DashboardTypeOK /\ []PageTypeOK
                      /\ []OverlapTypeOK
  BY PartsKeepTheirSpecs, BudgetTypes, PagingTypes, SnippetTypeCorrect, LoginTypeCorrect,
     TokenTypeCorrect, McpTypeCorrect, DashboardTypes, PageTypeCorrect, OverlapTypes, PTL
<1>5. /\ part \in Parts /\ BudgetTypeOK /\ PagingTypeOK /\ SnippetTypeOK /\ LoginTypeOK
      /\ TokenTypeOK /\ McpTypeOK /\ DashboardTypeOK /\ PageTypeOK /\ OverlapTypeOK
      => ServicesTypeOK
  BY DEF ServicesTypeOK
<1> QED BY <1>3, <1>4, <1>5, PTL
=============================================================================
