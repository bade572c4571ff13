--------------------------- MODULE ContentOverlap ---------------------------
(***************************************************************************)
(* Content syncs of one notebook that are in progress together, which the  *)
(* queue rules out only while no lease lapses (SyncQueue, LeaseMayLapse)   *)
(* and `sync.run --run-inline` never does: what becomes of the rows that   *)
(* ContentSync shows a single run to keep.                                 *)
(*                                                                         *)
(* A run is that of ContentSync, with the steps apart that another run may *)
(* come between.  The sections themselves stay as they are here, so the    *)
(* list of sections is left out; that Graph omits a page, or a call fails, *)
(* may happen any number of times.                                         *)
(***************************************************************************)
EXTENDS Integers

CONSTANTS
  SyncRuns,                 (* runs that may be in progress together           *)
  SyncSections, SyncPages,  (* OneNote ids; a deleted id never returns         *)
  SectionOf,                (* the section each page is in                     *)
  MaxEdit,                  (* bound: how many edits the user makes            *)
  MayOmit                   (* may a list that Graph cannot vouch for omit     *)
                            (* something?                                      *)

ASSUME OverlapAssumption ==
  /\ SectionOf \in [SyncPages -> SyncSections]
  /\ MaxEdit \in Nat
  /\ MayOmit \in BOOLEAN

VARIABLES
  editClock,     (* the time of the last edit                                  *)
  modified,      (* OneNote: lastModifiedDateTime of the pages                 *)
  rows,          (* their rows of `pages`                                      *)
  lastSyncedAt,  (* notebooks.last_synced_at                                   *)
  syncRun,       (* the runs                                                   *)
  overtaken,     (* history: the runs in progress when another began           *)
  harmed         (* history: what an overtaken run or a short list did harm to *)

overlapVars == <<editClock, modified, rows, lastSyncedAt, syncRun, overtaken, harmed>>

----------------------------------------------------------------------------
(* OneNote and the tables *)

Removed == -1
InOneNote(p) == modified[p] > 0

EditPage(p) ==
  /\ modified[p] # Removed
  /\ editClock < MaxEdit
  /\ editClock' = editClock + 1
  /\ modified' = [modified EXCEPT ![p] = editClock + 1]
  /\ harmed' = harmed \ {p}
  /\ UNCHANGED <<rows, lastSyncedAt, syncRun, overtaken>>

RemovePageInOneNote(p) ==
  /\ InOneNote(p)
  /\ modified' = [modified EXCEPT ![p] = Removed]
  /\ UNCHANGED <<editClock, rows, lastSyncedAt, syncRun, overtaken, harmed>>

RowStatus == {"absent", "PENDING", "FRESH", "FAILED"}
NoRow == [status |-> "absent", content |-> 0]
PendingRow == [status |-> "PENDING", content |-> 0]
HasRow(p) == rows[p].status # "absent"
CurrentRow(p) == rows[p].status = "FRESH" /\ rows[p].content = modified[p]

\* Served as it stands, or fetched by every run that lists it.
Safe(p) == CurrentRow(p) \/ rows[p].status = "FAILED"

----------------------------------------------------------------------------
(* A run *)

Unlisted == 0
FetchError == 0
NothingBuilt == -1

NoSync ==
  [pc |-> "idle", started |-> 0, since |-> 0, toList |-> {}, toPlan |-> {}, whole |-> {},
   queue |-> {}, seen |-> [p \in SyncPages |-> Unlisted],
   built |-> [p \in SyncPages |-> NothingBuilt]]

InProgress(r) == syncRun[r].pc # "idle"

BeginSync(r) ==
  /\ ~InProgress(r)
  /\ syncRun' = [syncRun EXCEPT ![r] = [NoSync EXCEPT !.pc = "begun", !.started = editClock]]
  /\ overtaken' = overtaken \cup {q \in SyncRuns : InProgress(q)}
  /\ UNCHANGED <<editClock, modified, rows, lastSyncedAt, harmed>>

\* sync_notebook_content reads the notebook again after the worker has committed SYNCING
\* (nothing keeps the row the worker read in the session), so another run may have written
\* last_synced_at since this one took its time.
ReadNotebook(r) ==
  /\ syncRun[r].pc = "begun"
  /\ syncRun' = [syncRun EXCEPT ![r] = [@ EXCEPT !.pc = "read", !.since = lastSyncedAt]]
  /\ UNCHANGED <<editClock, modified, rows, lastSyncedAt, overtaken, harmed>>

\* The section upsert updates every section's row, and its transaction stays open until
\* the first section's pages are committed: another run waits here for as long.
LocksSections(q) ==
  \/ syncRun[q].pc = "listing"
  \/ syncRun[q].pc = "planning" /\ syncRun[q].toPlan = SyncSections

StoreSections(r) ==
  /\ syncRun[r].pc = "read"
  /\ \A q \in SyncRuns : ~LocksSections(q)
  /\ syncRun' = [syncRun EXCEPT ![r] =
       [@ EXCEPT !.pc = "listing", !.toList = SyncSections, !.toPlan = SyncSections]]
  /\ UNCHANGED <<editClock, modified, rows, lastSyncedAt, overtaken, harmed>>

\* What the list leaves out is harmed if this run will call it synced and nobody else
\* has stored it.
ListSectionPages(r, s) ==
  LET mine == syncRun[r]
      there == {p \in SyncPages : SectionOf[p] = s /\ InOneNote(p)}
  IN
  /\ mine.pc = "listing"
  /\ s \in mine.toList
  /\ \E listed \in SUBSET there, complete \in BOOLEAN :
       /\ complete \/ ~MayOmit => listed = there
       /\ syncRun' = [syncRun EXCEPT ![r] =
            [mine EXCEPT !.toList = @ \ {s},
                         !.pc = IF mine.toList = {s} THEN "planning" ELSE @,
                         !.whole = IF complete THEN @ \cup {s} ELSE @,
                         !.seen = [p \in SyncPages |->
                                     IF p \in listed THEN modified[p] ELSE @[p]]]]
       /\ harmed' = harmed \cup
            {p \in there \ listed : modified[p] =< mine.started /\ ~Safe(p)}
  /\ UNCHANGED <<editClock, modified, rows, lastSyncedAt, overtaken>>

NeedsFetch(run, p) ==
  run.since = 0 \/ run.seen[p] > run.since \/ rows[p].status = "FAILED"

\* A result is applied by the id of the row, so once the row is deleted what another run
\* still fetches for it reaches no row, not even a new one of the same page.
WithoutRows(run, gone) ==
  [run EXCEPT !.queue = @ \ gone,
              !.built = [p \in SyncPages |-> IF p \in gone THEN NothingBuilt ELSE @[p]]]

PlanSectionPages(r, s) ==
  LET mine == syncRun[r]
      listed == {p \in SyncPages : SectionOf[p] = s /\ mine.seen[p] # Unlisted}
      stale == {p \in SyncPages : /\ SectionOf[p] = s /\ s \in mine.whole
                                  /\ mine.seen[p] = Unlisted /\ HasRow(p)}
  IN
  /\ mine.pc = "planning"
  /\ s \in mine.toPlan
  /\ rows' = [p \in SyncPages |-> IF p \in stale THEN NoRow
                                  ELSE IF p \in listed /\ ~HasRow(p) THEN PendingRow
                                  ELSE rows[p]]
  /\ syncRun' = [q \in SyncRuns |->
       IF q = r
       THEN [mine EXCEPT !.toPlan = @ \ {s},
                         !.pc = IF mine.toPlan = {s} THEN "fetching" ELSE @,
                         !.queue = @ \cup {p \in listed : NeedsFetch(mine, p)}]
       ELSE WithoutRows(syncRun[q], stale)]
  /\ harmed' = IF r \in overtaken THEN harmed \cup {p \in stale : InOneNote(p)} ELSE harmed
  /\ UNCHANGED <<editClock, modified, lastSyncedAt, overtaken>>

BuildPage(r, p) ==
  /\ syncRun[r].pc = "fetching"
  /\ p \in syncRun[r].queue
  /\ \E content \in {modified[p], FetchError} :
       /\ content = FetchError \/ InOneNote(p)
       /\ syncRun' = [syncRun EXCEPT ![r] =
            [syncRun[r] EXCEPT !.queue = @ \ {p}, !.built[p] = content]]
  /\ UNCHANGED <<editClock, modified, rows, lastSyncedAt, overtaken, harmed>>

AppliedRow(p, content) ==
  IF content = FetchError THEN [rows[p] EXCEPT !.status = "FAILED"]
  ELSE [status |-> "FRESH", content |-> content]

ApplyPage(r, p) ==
  LET content == syncRun[r].built[p] IN
  /\ syncRun[r].pc = "fetching"
  /\ content # NothingBuilt
  /\ rows' = [rows EXCEPT ![p] = AppliedRow(p, content)]
  /\ syncRun' = [syncRun EXCEPT ![r] = [@ EXCEPT !.built[p] = NothingBuilt]]
  /\ harmed' = IF content = modified[p] THEN harmed \ {p}
               ELSE IF r \in overtaken /\ content # FetchError THEN harmed \cup {p}
               ELSE harmed
  /\ UNCHANGED <<editClock, modified, lastSyncedAt, overtaken>>

\* What a run calls synced: everything up to the time it began, also if a later run has
\* made the notebook FRESH as of a later time.
SyncedAtEnd(r) == editClock
SyncedAt(r) == syncRun[r].started

FinishSync(r) ==
  /\ syncRun[r].pc = "fetching"
  /\ syncRun[r].queue = {}
  /\ \A p \in SyncPages : syncRun[r].built[p] = NothingBuilt
  /\ lastSyncedAt' = SyncedAt(r)
  /\ syncRun' = [syncRun EXCEPT ![r] = NoSync]
  /\ overtaken' = overtaken \ {r}
  /\ UNCHANGED <<editClock, modified, rows, harmed>>

AbortSync(r) ==
  /\ InProgress(r)
  /\ syncRun' = [syncRun EXCEPT ![r] = NoSync]
  /\ overtaken' = overtaken \ {r}
  /\ UNCHANGED <<editClock, modified, rows, lastSyncedAt, harmed>>

OverlapNext ==
  \/ \E p \in SyncPages : EditPage(p) \/ RemovePageInOneNote(p)
  \/ \E r \in SyncRuns :
       \/ BeginSync(r) \/ ReadNotebook(r) \/ StoreSections(r) \/ FinishSync(r) \/ AbortSync(r)
       \/ \E s \in SyncSections : ListSectionPages(r, s) \/ PlanSectionPages(r, s)
       \/ \E p \in SyncPages : BuildPage(r, p) \/ ApplyPage(r, p)

OverlapInit ==
  /\ editClock = 0
  /\ modified = [p \in SyncPages |-> 0]
  /\ rows = [p \in SyncPages |-> NoRow]
  /\ lastSyncedAt = 0
  /\ syncRun = [r \in SyncRuns |-> NoSync]
  /\ overtaken = {}
  /\ harmed = {}

OverlapSpec == OverlapInit /\ [][OverlapNext]_overlapVars

----------------------------------------------------------------------------
(* Properties *)

SyncRun ==
  [pc : {"idle", "begun", "read", "listing", "planning", "fetching"},
   started : Nat, since : Nat, toList : SUBSET SyncSections, toPlan : SUBSET SyncSections,
   whole : SUBSET SyncSections, queue : SUBSET SyncPages, seen : [SyncPages -> Nat],
   built : [SyncPages -> Nat \cup {NothingBuilt}]]

OverlapTypeOK ==
  /\ editClock \in 0 .. MaxEdit
  /\ modified \in [SyncPages -> Nat \cup {Removed}]
  /\ rows \in [SyncPages -> [status : RowStatus, content : Nat]]
  /\ lastSyncedAt \in Nat
  /\ syncRun \in [SyncRuns -> SyncRun]
  /\ overtaken \subseteq SyncRuns
  /\ harmed \subseteq SyncPages

\* However many runs of a notebook overlap, an edit is missed only where a run that
\* another had overtaken deleted the page's row or put an older version in it, or where
\* a short list left the page out, and then until the page is edited, or is applied as
\* it stands.  That last_synced_at goes back and forth, that a run compares with another
\* run's time, or that runs fetch, fail and insert the same pages, loses nothing.
MissedOnlyIfHarmed ==
  \A p \in SyncPages :
    InOneNote(p) => Safe(p) \/ modified[p] > lastSyncedAt \/ p \in harmed
=============================================================================
