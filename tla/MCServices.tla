----------------------------- MODULE MCServices -----------------------------
(***************************************************************************)
(* Instances of the modules of the services around the sync queue.  They   *)
(* share no state, so a behaviour is a behaviour of one of them, `part`,   *)
(* while the others stand still: one run has the sum of their state        *)
(* spaces, where interleaving them would give the product.                 *)
(***************************************************************************)
EXTENDS TLC, GraphBudget, GraphPaging, SnippetSelection, LoginFlow, MicrosoftToken, McpServer, Dashboard,
        PageContent, ContentOverlap

MCConnectionOf == [c \in Calls |-> "ms"]
MCListed == <<1, 2, 3, 4>>
MCContentLength == [p \in Pages |-> IF p = "p" THEN 18 ELSE 9]
MCLoweredLength == [p \in Pages |-> IF p = "p" THEN 18 ELSE 12]
MCPathLength == [p \in Pages |-> IF p = "p" THEN 1 ELSE 3]
MCNotebookOf == [p \in NotePages |-> IF p = "a" THEN 1 ELSE 2]
MCCuts == {<<3, 5>>}
MCSectionOf == [p \in SyncPages |-> "s"]

(* Calls, callbacks, rows and so on are interchangeable.  A behaviour is one of a
   single module, so it is enough to permute none of them, or all at once. *)
Symmetry ==
  {f \in {c @@ r @@ s @@ k @@ p @@ w @@ m @@ o :
          c \in Permutations(Calls), r \in Permutations(Callbacks), s \in Permutations(OAuthStates),
          k \in Permutations(AuthCodes), p \in Permutations(People), w \in Permutations(Rows),
          m \in Permutations(Posts), o \in Permutations(SyncRuns)} :
     (\A x \in DOMAIN f : f[x] # x) \/ (\A x \in DOMAIN f : f[x] = x)}

VARIABLE part  (* the module the behaviour is one of *)

Parts == {"budget", "paging", "snippet", "login", "token", "mcp", "dashboard", "page", "overlap"}

(* One initial state for the modules that stand still *)
ServicesInit ==
  /\ part \in Parts
  /\ BudgetInit /\ PagingInit /\ SnippetInit /\ LoginInit /\ TokenInit /\ McpInit
  /\ DashboardInit /\ PageInit /\ OverlapInit
  /\ part = "mcp" \/ enabled = {}
  /\ part = "dashboard" \/ \A r \in Rows : served[r].enabled
  /\ part = "page" \/
       /\ body = [b \in Blocks |-> [typed |-> TRUE, picture |-> "none", inked |-> FALSE]]
       /\ pdfs = [d \in Attachments |-> [embedded |-> TRUE, scanned |-> FALSE]]
       /\ vision

Moves(p, next, vars) == IF part = p THEN next ELSE UNCHANGED vars

ServicesNext ==
  /\ UNCHANGED part
  /\ Moves("budget", BudgetNext, budgetVars)
  /\ Moves("paging", PagingNext, pagingVars)
  /\ Moves("snippet", SnippetNext, snippetVars)
  /\ Moves("login", LoginNext, loginVars)
  /\ Moves("token", TokenNext, tokenVars)
  /\ Moves("mcp", McpNext, mcpVars)
  /\ Moves("dashboard", DashboardNext, dashboardVars)
  /\ Moves("page", PageNext, pageVars)
  /\ Moves("overlap", OverlapNext, overlapVars)

ServicesVars ==
  <<part, budgetVars, pagingVars, snippetVars, loginVars, tokenVars, mcpVars, dashboardVars, pageVars,
    overlapVars>>

ServicesSpec == ServicesInit /\ [][ServicesNext]_ServicesVars

(* Every variable of every module holds what the code can store there. *)
ServicesTypeOK ==
  /\ part \in Parts
  /\ BudgetTypeOK /\ PagingTypeOK /\ SnippetTypeOK /\ LoginTypeOK /\ TokenTypeOK
  /\ McpTypeOK /\ DashboardTypeOK /\ PageTypeOK /\ OverlapTypeOK
=============================================================================
