------------------------------ MODULE McpServer ------------------------------
(***************************************************************************)
(* The MCP server: a request is authenticated by a connection key or by a  *)
(* WorkOS token, which gives it the notebooks it may see; then a tool      *)
(* searches their pages, or widens snippets of an earlier search by their  *)
(* handles (services/mcp_connection_service.py, app/mcp/,                  *)
(* services/search_service.py).  Meanwhile the user revokes the key and    *)
(* turns notebooks on and off, and the sync rewrites and deletes pages.    *)
(*                                                                         *)
(* A page's content is named by its revision, so a checksum is the         *)
(* revision; equal checksums of different contents are left out.  Which    *)
(* pages and windows a query finds is left open: SnippetSelection says     *)
(* which windows are returned.                                             *)
(***************************************************************************)
EXTENDS Integers

CONSTANTS
  Keys,         (* raw tokens; only their hashes are stored                    *)
  Notebooks,    (* the notebooks of the user, by id                            *)
  NotebookOf,   (* the notebook of each page id                                *)
  NotePages,    (* page ids; none is ever given again                          *)
  TextLength,   (* the length of a page's content                              *)
  Cuts,         (* the windows a search cuts, as <<start, end>>                *)
  ExpandStep,   (* EXPAND_STEP_CHARS                                           *)
  MaxRevision   (* bound: how often the content of a page changes              *)

ASSUME McpAssumption ==
  /\ NotebookOf \in [NotePages -> Notebooks]
  /\ {TextLength, ExpandStep, MaxRevision} \subseteq Nat
  /\ \A cut \in Cuts : cut[1] \in Nat /\ cut[2] \in Nat /\ cut[1] < cut[2] /\ cut[2] =< TextLength

VARIABLES
  keys,      (* mcp_connections                                                *)
  enabled,   (* the notebooks whose sync_enabled is true                       *)
  revision,  (* the content of each page: 0 is none yet, Gone is no row        *)
  request,   (* the request being served                                       *)
  held,      (* a snippet_id the client has kept, any of those it was given    *)
  answer     (* the last answer, until the next request, and what it answered  *)

mcpVars == <<keys, enabled, revision, request, held, answer>>

Gone == -1
NoHandle == [page |-> "none", revision |-> 0, start |-> 0, end |-> 0]
NoKey == [issued |-> FALSE, all |-> FALSE, requested |-> {}, revoked |-> FALSE]
WebToken == "WorkOS"
NoRequest == [stage |-> "idle", key |-> WebToken, row |-> NoKey,
              allowed |-> {}, hits |-> {}, seen |-> {}]
NoAnswer == [key |-> WebToken, seen |-> {}, snippets |-> {}]

----------------------------------------------------------------------------
(* The user in the web app, and the sync *)

(* MCPConnectionService.create: a scoped key names notebooks of its owner *)
CreateKey(k, all, requested) ==
  /\ ~ keys[k].issued
  /\ all = (requested = {}) /\ requested \subseteq Notebooks
  /\ keys' = [keys EXCEPT ![k] = [issued |-> TRUE, all |-> all, requested |-> requested,
                                  revoked |-> FALSE]]
  /\ UNCHANGED <<enabled, revision, request, held, answer>>

(* MCPConnectionService.revoke *)
RevokeKey(k) ==
  /\ keys[k].issued
  /\ keys' = [keys EXCEPT ![k].revoked = TRUE]
  /\ UNCHANGED <<enabled, revision, request, held, answer>>

ToggleNotebook(n) ==
  /\ enabled' = IF n \in enabled THEN enabled \ {n} ELSE enabled \cup {n}
  /\ request' = IF request.stage = "idle" THEN request
                ELSE [request EXCEPT !.seen = @ \cup enabled']
  /\ UNCHANGED <<keys, revision, held, answer>>

RewritePage(p) ==
  /\ revision[p] \in 0..(MaxRevision - 1)
  /\ revision' = [revision EXCEPT ![p] = @ + 1]
  /\ UNCHANGED <<keys, enabled, request, held, answer>>

RemovePage(p) ==
  /\ revision' = [revision EXCEPT ![p] = Gone]
  /\ UNCHANGED <<keys, enabled, request, held, answer>>

----------------------------------------------------------------------------
(* Authentication, in a transaction of its own *)

(* resolve_token looks the key up *)
LookUpKey(k) ==
  /\ request.stage = "idle"
  /\ keys[k].issued /\ ~ keys[k].revoked
  /\ request' = [NoRequest EXCEPT !.stage = "lookedUp", !.key = k, !.row = keys[k],
                                  !.seen = enabled]
  /\ answer' = NoAnswer
  /\ UNCHANGED <<keys, enabled, revision, held>>

Scope(row) == IF row.all THEN enabled ELSE row.requested \cap enabled

(* Mutant: last_used_at is written with the rest of the row *)
TouchedWhole(k) == request.row

(* MCPConnectionRepository.update writes last_used_at and nothing else *)
Touched(k) == keys[k]

(* ... reads the user's notebooks, touches the row, and commits *)
ResolveScope ==
  /\ request.stage = "lookedUp"
  /\ request' = [request EXCEPT !.stage = "verified", !.allowed = Scope(request.row)]
  /\ keys' = [keys EXCEPT ![request.key] = Touched(request.key)]
  /\ UNCHANGED <<enabled, revision, held, answer>>

(* A WorkOS token: resolve_jwt_identity finds the user and gives every synced notebook *)
ResolveJwtIdentity ==
  /\ request.stage = "idle"
  /\ request' = [NoRequest EXCEPT !.stage = "verified", !.allowed = enabled, !.seen = enabled]
  /\ answer' = NoAnswer
  /\ UNCHANGED <<keys, enabled, revision, held>>

----------------------------------------------------------------------------
(* The tools, in the request's transaction; each statement of it sees what is
   committed by then *)

HasContent(p) == revision[p] > 0

(* What search_fts and search_trgm look at, whatever the name filters leave *)
Searchable == {p \in NotePages : HasContent(p) /\ NotebookOf[p] \in request.allowed}

(* The best of the pages that match, if any does *)
RankPages(hits) ==
  /\ request.stage = "verified"
  /\ hits \subseteq Searchable /\ hits # {}
  /\ request' = [request EXCEPT !.stage = "ranked", !.hits = hits]
  /\ UNCHANGED <<keys, enabled, revision, held, answer>>

(* encode_handle *)
EncodeHandle(p, cut) ==
  [page |-> p, revision |-> revision[p], start |-> cut[1], end |-> cut[2]]

Snippet(p, asked, given) ==
  [notebook |-> NotebookOf[p], asked |-> asked, given |-> given, content |-> revision[p]]

(* The response; the client keeps a handle of it, or the one it had *)
Respond(snippets) ==
  /\ answer' = [key |-> request.key, seen |-> request.seen, snippets |-> snippets]
  /\ held' \in {held} \cup {snippet.given : snippet \in snippets}
  /\ request' = NoRequest
  /\ UNCHANGED <<keys, enabled, revision>>

(* No query, no notebook, no match; or no handle that can be decoded *)
AnswerNothing ==
  /\ request.stage = "verified"
  /\ Respond({})

(* get_pages_with_path, by id alone: pages that are gone by now drop out, and
   the windows are cut from the content as it is now *)
AnswerSearch ==
  /\ request.stage = "ranked"
  /\ \E cuts \in [{p \in request.hits : HasContent(p)} -> Cuts] :
       Respond({Snippet(p, NoHandle, EncodeHandle(p, cuts[p])) : p \in DOMAIN cuts})

(* Mutant: the page is expanded for whoever holds a handle of it *)
ExpandableByAnybody(h) == HasContent(h.page) /\ revision[h.page] = h.revision

(* Mutant: the checksum is not compared *)
ExpandableUnchecked(h) == HasContent(h.page) /\ NotebookOf[h.page] \in request.allowed

(* What get_pages_with_path must show of the page of a handle *)
Expandable(h) ==
  /\ HasContent(h.page)
  /\ NotebookOf[h.page] \in request.allowed
  /\ revision[h.page] = h.revision

Wider(h) ==
  [h EXCEPT !.start = IF @ > ExpandStep THEN @ - ExpandStep ELSE 0,
            !.end = IF @ + ExpandStep < TextLength THEN @ + ExpandStep ELSE TextLength]

(* expand_snippets: the handles of a call are answered each on its own, an
   error for those that are malformed, out of scope or stale *)
AnswerExpand ==
  /\ request.stage = "verified" /\ held # NoHandle
  /\ Respond({Snippet(h.page, h, Wider(h)) : h \in {g \in {held} : Expandable(g)}})

----------------------------------------------------------------------------
McpInit ==
  /\ keys = [k \in Keys |-> NoKey]
  /\ enabled \in SUBSET Notebooks
  /\ revision = [p \in NotePages |-> 0]
  /\ request = NoRequest
  /\ held = NoHandle /\ answer = NoAnswer

McpNext ==
  \/ \E k \in Keys :
       \/ \E all \in BOOLEAN, requested \in SUBSET Notebooks : CreateKey(k, all, requested)
       \/ RevokeKey(k) \/ LookUpKey(k)
  \/ \E n \in Notebooks : ToggleNotebook(n)
  \/ \E p \in NotePages : RewritePage(p) \/ RemovePage(p)
  \/ ResolveScope \/ ResolveJwtIdentity
  \/ \E hits \in SUBSET NotePages : RankPages(hits)
  \/ AnswerNothing \/ AnswerSearch \/ AnswerExpand

McpSpec == McpInit /\ [][McpNext]_mcpVars

----------------------------------------------------------------------------
Key == [issued : BOOLEAN, all : BOOLEAN, requested : SUBSET Notebooks, revoked : BOOLEAN]
Handles == {NoHandle} \cup
  [page : NotePages, revision : 1..MaxRevision, start : 0..TextLength, end : 0..TextLength]

(* Every variable holds what the code can store there. *)
McpTypeOK ==
  /\ keys \in [Keys -> Key]
  /\ enabled \subseteq Notebooks
  /\ revision \in [NotePages -> 0..MaxRevision \cup {Gone}]
  /\ request \in [stage : {"idle", "lookedUp", "verified", "ranked"}, key : Keys \cup {WebToken},
                 row : Key, allowed : SUBSET Notebooks, hits : SUBSET NotePages,
                 seen : SUBSET Notebooks]
  /\ held \in Handles
  /\ answer.key \in Keys \cup {WebToken} /\ answer.seen \subseteq Notebooks
  /\ answer.snippets \subseteq [notebook : Notebooks, asked : Handles, given : Handles,
                              content : 1..MaxRevision]

(* A key that was revoked stays revoked: the request that was using it at that
   moment touches its row afterwards, and does not bring it back. *)
RevocationIsFinal ==
  [][\A k \in Keys : keys[k].revoked => keys'[k].revoked]_mcpVars

(* Whatever a tool shows is from a notebook that the key was made for, and that
   was switched on at some moment of the request: a handle got through another
   key, or before the notebook was switched off, opens nothing more. *)
AnswersStayInScope ==
  \A snippet \in answer.snippets :
    /\ snippet.notebook \in answer.seen
    /\ answer.key # WebToken =>
         keys[answer.key].all \/ snippet.notebook \in keys[answer.key].requested

(* The text behind a handle is cut from the very content the handle was made
   for, although the sync may rewrite the page between any two statements; and
   an expansion shows all of the passage it expands. *)
HandlesNameTheirText ==
  \A snippet \in answer.snippets :
    /\ snippet.given.revision = snippet.content
    /\ snippet.asked # NoHandle =>
         /\ snippet.asked.revision = snippet.content
         /\ snippet.asked.page = snippet.given.page
         /\ snippet.given.start =< snippet.asked.start /\ snippet.asked.end =< snippet.given.end
=============================================================================
