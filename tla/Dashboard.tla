----------------------------- MODULE Dashboard -----------------------------
(***************************************************************************)
(* The notebook page of the web application (frontend/src/features/        *)
(* notebooks): one cached list, at most one GET in flight for it, the      *)
(* optimistic flip of the Sync button with its rollback, the toggle, and   *)
(* polling for as long as a cached row says SYNCING.  The cache and the    *)
(* cancelling of GETs are TanStack Query's; the rows are the server's.     *)
(*                                                                         *)
(* A toggle commits after its response has left (the session dependency    *)
(* ends after the response), a sync request commits before.                *)
(***************************************************************************)
EXTENDS Naturals

CONSTANTS
  Rows,        (* the notebooks of the page                                    *)
  Posts,       (* POSTs of /sync that may be under way together                *)
  MaxClicks,   (* bound: clicks on Sync and on the toggles                     *)
  MaxOutside   (* bound: syncs the page did not ask for (the scheduler's)      *)

ASSUME DashboardAssumption == {MaxClicks, MaxOutside} \subseteq Nat

VARIABLES
  served,      (* the rows as committed: sync_status and sync_enabled          *)
  tentative,   (* what a PATCH wrote as sync_enabled and has not committed     *)
  cached,      (* the rows on the screen                                       *)
  fetch,       (* the GET in flight                                            *)
  syncing,     (* each POST: its row and the cache it was clicked on           *)
  toggling,    (* the PATCH of each row: pendingNotebookIds                    *)
  late,        (* requests the server has yet to serve, whose client gave up   *)
  readFailed,  (* history: the last GET failed, and its retry                  *)
  missed,      (* history: rows changed from outside since the last read       *)
  clicks,
  outside

dashboardVars ==
  <<served, tentative, cached, fetch, syncing, toggling, late, readFailed, missed, clicks, outside>>

Unsent == [stage |-> "idle"]
NoFetch == [stage |-> "none"]
Asked == [stage |-> "asked"]

RowFree(r) == tentative[r] = {}                 \* else the PATCH holds its lock
Clicked == clicks < MaxClicks /\ clicks' = clicks + 1

----------------------------------------------------------------------------
(* use-notebooks: the GET and the timer that repeats it *)

Polls == \E r \in Rows : cached[r].status = "SYNCING"

(* The timer of a page that polls, or the window that gets the focus back
   with rows that are stale by then; a GET in flight serves both *)
Refetch ==
  /\ fetch = NoFetch
  /\ fetch' = Asked
  /\ UNCHANGED <<served, tentative, cached, syncing, toggling, late, readFailed, missed, clicks, outside>>

ListNotebooks ==
  /\ fetch = Asked
  /\ fetch' = [stage |-> "read", rows |-> served]
  /\ missed' = {}
  /\ UNCHANGED <<served, tentative, cached, syncing, toggling, late, readFailed, clicks, outside>>

FetchArrives ==
  /\ fetch.stage = "read"
  /\ cached' = fetch.rows
  /\ fetch' = NoFetch
  /\ readFailed' = FALSE
  /\ UNCHANGED <<served, tentative, syncing, toggling, late, missed, clicks, outside>>

(* The GET and its one retry fail: the rows stay as they were *)
FetchFails ==
  /\ fetch # NoFetch
  /\ fetch' = NoFetch
  /\ readFailed' = TRUE
  /\ UNCHANGED <<served, tentative, cached, syncing, toggling, late, missed, clicks, outside>>

(* Mutant: invalidating leaves the GET that is in flight alone *)
InvalidatedUnlessFetching == IF fetch = NoFetch THEN Asked ELSE fetch

(* invalidateQueries: a GET in flight is cancelled for a new one *)
Invalidated == Asked

----------------------------------------------------------------------------
(* use-sync-notebook *)

LateSync(r) == [row |-> r, sets |-> {}]

Flipped(r) == [cached EXCEPT ![r].status = "SYNCING"]

(* onMutate, behind a button that a SYNCING or a disabled row does not have *)
ClickSync(m, r) ==
  /\ syncing[m] = Unsent
  /\ cached[r].enabled /\ cached[r].status # "SYNCING"
  /\ Clicked
  /\ fetch' = NoFetch
  /\ cached' = Flipped(r)
  /\ syncing' = [syncing EXCEPT ![m] = [stage |-> "sent", row |-> r, previous |-> cached]]
  /\ UNCHANGED <<served, tentative, toggling, late, readFailed, missed, outside>>

(* start_notebook_sync: enqueued and marked SYNCING, or a conflict; or the page
   gives up on a request that the server may serve later *)
ServeSync(m) ==
  /\ syncing[m].stage = "sent"
  /\ LET r == syncing[m].row IN
     \/ /\ served[r].enabled /\ RowFree(r)
        /\ served' = [served EXCEPT ![r].status = "SYNCING"]
        /\ \E reply \in {"accepted", "failed"} :       \* the 202 may be lost
             syncing' = [syncing EXCEPT ![m].stage = reply]
        /\ UNCHANGED late
     \/ /\ syncing' = [syncing EXCEPT ![m].stage = "failed"]
        /\ late' \in {late, late \cup {LateSync(r)}}
        /\ UNCHANGED served
  /\ UNCHANGED <<tentative, cached, fetch, toggling, readFailed, missed, clicks, outside>>

(* onError puts the old rows back; onSettled invalidates *)
SettleSync(m) ==
  /\ syncing[m].stage \in {"accepted", "failed"}
  /\ cached' = IF syncing[m].stage = "failed" THEN syncing[m].previous ELSE cached
  /\ fetch' = Invalidated
  /\ syncing' = [syncing EXCEPT ![m] = Unsent]
  /\ UNCHANGED <<served, tentative, toggling, late, readFailed, missed, clicks, outside>>

----------------------------------------------------------------------------
(* use-toggle-sync: no optimism, a row that is pending cannot be clicked *)

ClickToggle(r) ==
  /\ toggling[r] = Unsent
  /\ Clicked
  /\ toggling' = [toggling EXCEPT ![r] = [stage |-> "sent", enabled |-> ~cached[r].enabled]]
  /\ UNCHANGED <<served, tentative, cached, fetch, syncing, late, readFailed, missed, outside>>

LateToggle(r) == [row |-> r, sets |-> {toggling[r].enabled}]

(* set_sync_enabled answers with the row it has not committed, or fails; or,
   again, the page gives up first *)
ServeToggle(r) ==
  /\ toggling[r].stage = "sent"
  /\ \/ /\ RowFree(r)
        /\ tentative' = [tentative EXCEPT ![r] = {toggling[r].enabled}]
        /\ \E reply \in {"replied", "failed"} :        \* the answer may be lost
             toggling' = [toggling EXCEPT ![r].stage = reply]
        /\ UNCHANGED late
     \/ /\ toggling' = [toggling EXCEPT ![r].stage = "failed"]
        /\ late' \in {late, late \cup {LateToggle(r)}}
        /\ UNCHANGED tentative
  /\ UNCHANGED <<served, cached, fetch, syncing, readFailed, missed, clicks, outside>>

SettleToggle(r) ==
  /\ toggling[r].stage \in {"replied", "failed"}
  /\ fetch' = IF toggling[r].stage = "replied" THEN Invalidated ELSE fetch
  /\ toggling' = [toggling EXCEPT ![r] = Unsent]
  /\ UNCHANGED <<served, tentative, cached, syncing, late, readFailed, missed, clicks, outside>>

(* get_session, after the response: commit, or roll back what was answered *)
EndToggle(r) ==
  /\ ~RowFree(r)
  /\ tentative' = [tentative EXCEPT ![r] = {}]
  /\ \/ /\ \E enabled \in tentative[r] : served' = [served EXCEPT ![r].enabled = enabled]
        /\ missed' = IF toggling[r].stage = "replied" THEN missed ELSE missed \cup {r}
     \/ UNCHANGED <<served, missed>>
  /\ UNCHANGED <<cached, fetch, syncing, toggling, late, readFailed, clicks, outside>>

(* The server gets to a request whose client gave up: nobody waits for its
   answer, and nobody reads the list because of it *)
ServeLate(q) ==
  /\ RowFree(q.row)
  /\ late' = late \ {q}
  /\ \/ /\ q.sets = {} /\ served[q.row].enabled
        /\ served' = [served EXCEPT ![q.row].status = "SYNCING"]
        /\ missed' = missed \cup {q.row}
        /\ UNCHANGED tentative
     \/ /\ q.sets # {}
        /\ tentative' = [tentative EXCEPT ![q.row] = q.sets]
        /\ UNCHANGED <<served, missed>>
  /\ UNCHANGED <<cached, fetch, syncing, toggling, readFailed, clicks, outside>>

----------------------------------------------------------------------------
(* The worker: it finishes what runs, and starts what the schedule asks *)

WorkerFinishes(r) ==
  /\ served[r].status = "SYNCING" /\ RowFree(r)
  /\ \E status \in {"FRESH", "FAILED"} : served' = [served EXCEPT ![r].status = status]
  /\ UNCHANGED <<tentative, cached, fetch, syncing, toggling, late, readFailed, missed, clicks, outside>>

WorkerStarts(r) ==
  /\ outside < MaxOutside /\ served[r].enabled /\ RowFree(r)
  /\ served' = [served EXCEPT ![r].status = "SYNCING"]
  /\ missed' = missed \cup {r}
  /\ outside' = outside + 1
  /\ UNCHANGED <<tentative, cached, fetch, syncing, toggling, late, readFailed, clicks>>

DashboardInit ==
  /\ served \in [Rows -> [status : {"FRESH"}, enabled : BOOLEAN]]
  /\ tentative = [r \in Rows |-> {}]
  /\ cached = served
  /\ fetch = NoFetch
  /\ syncing = [m \in Posts |-> Unsent]
  /\ toggling = [r \in Rows |-> Unsent]
  /\ late = {}
  /\ readFailed = FALSE
  /\ missed = {}
  /\ clicks = 0 /\ outside = 0

DashboardNext ==
  \/ Refetch \/ ListNotebooks \/ FetchArrives \/ FetchFails
  \/ \E m \in Posts : (\E r \in Rows : ClickSync(m, r)) \/ ServeSync(m) \/ SettleSync(m)
  \/ \E r \in Rows :
       \/ ClickToggle(r) \/ ServeToggle(r) \/ SettleToggle(r) \/ EndToggle(r)
       \/ WorkerFinishes(r) \/ WorkerStarts(r)
  \/ \E q \in late : ServeLate(q)

DashboardSpec == DashboardInit /\ [][DashboardNext]_dashboardVars

----------------------------------------------------------------------------
RowStates == [status : {"FRESH", "SYNCING", "FAILED"}, enabled : BOOLEAN]

(* Every variable holds what the code can store there. *)
DashboardTypeOK ==
  /\ served \in [Rows -> RowStates] /\ cached \in [Rows -> RowStates]
  /\ tentative \in [Rows -> {{}, {TRUE}, {FALSE}}]
  /\ fetch \in {NoFetch, Asked} \cup [stage : {"read"}, rows : [Rows -> RowStates]]
  /\ syncing \in [Posts -> {Unsent} \cup
       [stage : {"sent", "accepted", "failed"}, row : Rows, previous : [Rows -> RowStates]]]
  /\ toggling \in [Rows -> {Unsent} \cup
       [stage : {"sent", "replied", "failed"}, enabled : BOOLEAN]]
  /\ late \subseteq [row : Rows, sets : {{}, {TRUE}, {FALSE}}]
  /\ readFailed \in BOOLEAN /\ missed \subseteq Rows
  /\ clicks \in 0..MaxClicks /\ outside \in 0..MaxOutside

AtRest ==
  /\ fetch = NoFetch /\ ~Polls
  /\ \A m \in Posts : syncing[m] = Unsent
  /\ \A r \in Rows : toggling[r] = Unsent

(* A page that has nothing more to wait for shows the server's rows: neither
   the optimistic flip, nor the rollback to a snapshot that other clicks have
   outdated, nor a GET overtaken by a click leaves a wrong badge behind.  What
   it may miss is a change from outside since its last read, and the toggle
   that committed after the list had been read again; or the read failed. *)
PageAtRestIsCurrent ==
  AtRest /\ ~readFailed => \A r \in Rows \ missed : cached[r] = served[r]
=============================================================================
