----------------------------- MODULE ContentSync -----------------------------
(***************************************************************************)
(* The content sync of one notebook (SyncService._sync_notebook, driven by *)
(* SyncWorker._run_notebook_content): list the sections, list the pages of *)
(* each, commit the metadata section by section, then fetch the pages that *)
(* need it and commit them one by one.  Meanwhile the user goes on editing *)
(* the notebook in OneNote, any call may fail, and the process may die; a  *)
(* run that fails keeps what it has committed and another run follows.     *)
(*                                                                         *)
(* Runs of one notebook exclude each other here: that is what SyncQueue    *)
(* establishes (ExecutionIsExclusive) while no lease lapses.               *)
(*                                                                         *)
(* Time counts edits: a page's lastModifiedDateTime is the number its last *)
(* edit got, and it also names the content that edit left.  Microsoft's    *)
(* clock and the worker's are taken to agree.                              *)
(***************************************************************************)
EXTENDS Integers

CONSTANTS
  Sections, Pages,  (* OneNote ids; a deleted id never returns                 *)
  Home,             (* the section each page is in                             *)
  MaxTime,          (* bound: how many edits the user makes                    *)
  MaxFaults,        (* bound: how many calls, processes or responses fail      *)
  ShortLists        (* may a list that Graph cannot vouch for miss something?  *)

ASSUME ContentAssumption ==
  /\ Home \in [Pages -> Sections]
  /\ MaxTime \in Nat
  /\ MaxFaults \in Nat
  /\ ShortLists \in BOOLEAN

VARIABLES
  clock,          (* the time of the last edit                                 *)
  remoteSection,  (* OneNote: the sections                                     *)
  remote,         (* OneNote: lastModifiedDateTime of the pages                *)
  sections,       (* the notebook's rows of `sections`                         *)
  pages,          (* their rows of `pages`                                     *)
  lastSynced,     (* notebooks.last_synced_at                                  *)
  lastModified,   (* notebooks.last_modified_datetime                          *)
  run,            (* the run in progress                                       *)
  faults          (* how many faults there have been                           *)

remoteVars == <<clock, remoteSection, remote>>
tableVars == <<sections, pages, lastSynced, lastModified>>
vars == <<remoteVars, tableVars, run, faults>>

----------------------------------------------------------------------------
(* OneNote, and the user who edits there *)

Unborn == 0
Deleted == -1
SectionLive(s) == remoteSection[s] = "live"
Live(p) == remote[p] > 0

CreateSection(s) ==
  /\ remoteSection[s] = "unborn"
  /\ remoteSection' = [remoteSection EXCEPT ![s] = "live"]
  /\ UNCHANGED <<clock, remote, tableVars, run, faults>>

DeleteSection(s) ==
  /\ SectionLive(s)
  /\ remoteSection' = [remoteSection EXCEPT ![s] = "deleted"]
  /\ remote' = [p \in Pages |-> IF Home[p] = s THEN Deleted ELSE remote[p]]
  /\ UNCHANGED <<clock, tableVars, run, faults>>

\* A page is created, or edited, at a time of its own.
WritePage(p) ==
  /\ SectionLive(Home[p])
  /\ remote[p] # Deleted
  /\ clock < MaxTime
  /\ clock' = clock + 1
  /\ remote' = [remote EXCEPT ![p] = clock + 1]
  /\ UNCHANGED <<remoteSection, tableVars, run, faults>>

DeletePage(p) ==
  /\ Live(p)
  /\ remote' = [remote EXCEPT ![p] = Deleted]
  /\ UNCHANGED <<clock, remoteSection, tableVars, run, faults>>

UserEdits ==
  \/ \E s \in Sections : CreateSection(s) \/ DeleteSection(s)
  \/ \E p \in Pages : WritePage(p) \/ DeletePage(p)

----------------------------------------------------------------------------
(* The tables *)

PageSyncStatus == {"PENDING", "FRESH", "FAILED"}
NoContent == 0
Page == [status : PageSyncStatus \cup {"absent"}, content : Nat]
Absent == [status |-> "absent", content |-> NoContent]
LowercasePage == [status |-> "pending", content |-> NoContent]
NewPage == [status |-> "PENDING", content |-> NoContent]
Stored(p) == pages[p].status # "absent"
Never == 0   \* a NULL last_synced_at or last_modified_datetime

----------------------------------------------------------------------------
(* The run *)

NotListed == 0
NotBuilt == -1
Error == 0

Idle ==
  [pc |-> "idle", since |-> Never, started |-> 0, sections |-> {}, gone |-> {},
   toList |-> {}, toPlan |-> {}, whole |-> {}, queue |-> {},
   seen |-> [p \in Pages |-> NotListed], built |-> [p \in Pages |-> NotBuilt]]

Fault == faults < MaxFaults /\ faults' = faults + 1

\* What _get_all returns of a collection: `complete` says the items match the count
\* Graph gave; without a count, or with fewer items, the list is not complete.
Enumerates(collection, listed, complete) ==
  \/ complete /\ listed = collection /\ UNCHANGED faults
  \/ ~complete /\ (ShortLists \/ listed = collection) /\ Fault

Begin ==
  /\ run.pc = "idle"
  /\ run' = [Idle EXCEPT !.pc = "begun", !.since = lastSynced, !.started = clock]
  /\ UNCHANGED <<remoteVars, tableVars, faults>>

StaleSections(listed, complete) == IF complete THEN sections \ listed ELSE {}

\* get_sections, and the section rows to add and to delete; nothing is committed yet.
\* An upsert of no rows is an INSERT the table rejects, so an empty list ends the run.
ListSections ==
  /\ run.pc = "begun"
  /\ \E listed \in SUBSET {s \in Sections : SectionLive(s)}, complete \in BOOLEAN :
       /\ Enumerates({s \in Sections : SectionLive(s)}, listed, complete)
       /\ run' = IF listed = {} THEN Idle
                 ELSE [run EXCEPT !.pc = "listing", !.sections = listed,
                                  !.gone = StaleSections(listed, complete),
                                  !.toList = listed, !.toPlan = listed]
  /\ UNCHANGED <<remoteVars, tableVars>>

\* get_pages for one of the sections, all requested at once.  A section that is gone by
\* now is a 404, which ends the run.
ListPages(s) ==
  LET there == {p \in Pages : Home[p] = s /\ Live(p)} IN
  /\ run.pc = "listing"
  /\ s \in run.toList
  /\ IF ~SectionLive(s)
     THEN run' = Idle /\ UNCHANGED faults
     ELSE \E listed \in SUBSET there, complete \in BOOLEAN :
            /\ Enumerates(there, listed, complete)
            /\ run' = [run EXCEPT
                 !.toList = @ \ {s},
                 !.pc = IF run.toList = {s} THEN "planning" ELSE @,
                 !.whole = IF complete THEN @ \cup {s} ELSE @,
                 !.seen = [p \in Pages |-> IF p \in listed THEN remote[p] ELSE @[p]]]
  /\ UNCHANGED <<remoteVars, tableVars>>

Listed(p) == run.seen[p] # NotListed
AlwaysStale(p) == ~Listed(p)
StalePage(p) == ~Listed(p) /\ Home[p] \in run.whole

\* The test for fetching a listed page, against the time the last run began.
NeedsContentIfNew(p) ==
  run.since = Never \/ run.seen[p] > run.since
NeedsContent(p) ==
  run.since = Never \/ run.seen[p] > run.since \/ pages[p].status = "FAILED"

\* _sync_section_metadata, committed per section; the first commit of the run also
\* carries what was done to the section rows, whose delete cascades to their pages.
PlanSection(s) ==
  LET first == run.toPlan = run.sections
      dropped == IF first THEN run.gone ELSE {}
  IN
  /\ run.pc = "planning"
  /\ s \in run.toPlan
  /\ sections' = IF first THEN (sections \cup run.sections) \ run.gone ELSE sections
  /\ pages' = [p \in Pages |->
       IF Home[p] \in dropped \/ (Home[p] = s /\ StalePage(p)) THEN Absent
       ELSE IF Home[p] = s /\ Listed(p) /\ ~Stored(p) THEN NewPage
       ELSE pages[p]]
  /\ run' = [run EXCEPT
       !.toPlan = @ \ {s},
       !.pc = IF run.toPlan = {s} THEN "fetching" ELSE @,
       !.queue = @ \cup {p \in Pages : Home[p] = s /\ Listed(p) /\ NeedsContent(p)}]
  /\ UNCHANGED <<remoteVars, lastSynced, lastModified, faults>>

\* _build_page_content_result, in any order and several at once: the page as it is when
\* fetched, or an error (it is gone, or a call fails), which stays with the page.
BuildContent(p) ==
  /\ run.pc = "fetching"
  /\ p \in run.queue
  /\ \/ /\ Live(p)
        /\ run' = [run EXCEPT !.queue = @ \ {p}, !.built[p] = remote[p]]
        /\ UNCHANGED faults
     \/ /\ run' = [run EXCEPT !.queue = @ \ {p}, !.built[p] = Error]
        /\ IF Live(p) THEN Fault ELSE UNCHANGED faults
  /\ UNCHANGED <<remoteVars, tableVars>>

WipedByError(p) ==
  IF run.built[p] = Error THEN [status |-> "FAILED", content |-> NoContent]
  ELSE [status |-> "FRESH", content |-> run.built[p]]
Applied(p) ==
  IF run.built[p] = Error THEN [pages[p] EXCEPT !.status = "FAILED"]
  ELSE [status |-> "FRESH", content |-> run.built[p]]

\* _apply_page_content_result: an UPDATE by id, which touches nothing if the row is gone.
ApplyContent(p) ==
  /\ run.pc = "fetching"
  /\ run.built[p] # NotBuilt
  /\ pages' = IF Stored(p) THEN [pages EXCEPT ![p] = Applied(p)] ELSE pages
  /\ run' = [run EXCEPT !.built[p] = NotBuilt]
  /\ UNCHANGED <<remoteVars, sections, lastSynced, lastModified, faults>>

\* latest_page_modified, which is left alone when no page was listed.
SetLastModified ==
  LET times == {run.seen[p] : p \in {q \in Pages : Listed(q)}} IN
  \/ times = {} /\ UNCHANGED lastModified
  \/ \E t \in times : (\A u \in times : u <= t) /\ lastModified' = t

SyncedNow == clock
SyncedAt == run.started

\* The run has returned to the worker, which makes the notebook FRESH.
Finish ==
  /\ run.pc = "fetching"
  /\ run.queue = {}
  /\ \A p \in Pages : run.built[p] = NotBuilt
  /\ lastSynced' = SyncedAt
  /\ SetLastModified
  /\ run' = Idle
  /\ UNCHANGED <<remoteVars, sections, pages, faults>>

\* A call raises or the process dies: what was committed stays, the rest is lost.
Abort ==
  /\ run.pc # "idle"
  /\ Fault
  /\ run' = Idle
  /\ UNCHANGED <<remoteVars, tableVars>>

RunStep ==
  \/ Begin \/ ListSections \/ Finish
  \/ \E s \in Sections : ListPages(s) \/ PlanSection(s)
  \/ \E p \in Pages : BuildContent(p) \/ ApplyContent(p)

Next == UserEdits \/ RunStep \/ Abort

Init ==
  /\ clock = 0
  /\ remoteSection \in [Sections -> {"unborn", "live"}]
  /\ remote = [p \in Pages |-> Unborn]
  /\ sections = {}
  /\ pages = [p \in Pages |-> Absent]
  /\ lastSynced = Never
  /\ lastModified = Never
  /\ run = Idle
  /\ faults = 0

Spec == Init /\ [][Next]_vars

\* A run that can go on does, and once it has ended another follows: cron enqueues
\* a discovery for as long as the account is connected, which enqueues the notebook.
LiveSpec == Spec /\ WF_vars(RunStep)

----------------------------------------------------------------------------
(* Properties *)

Run ==
  [pc : {"idle", "begun", "listing", "planning", "fetching"},
   since : Nat, started : Nat, sections : SUBSET Sections, gone : SUBSET Sections,
   toList : SUBSET Sections, toPlan : SUBSET Sections, whole : SUBSET Sections,
   queue : SUBSET Pages, seen : [Pages -> Nat], built : [Pages -> Nat \cup {NotBuilt}]]

TypeOK ==
  /\ clock \in 0 .. MaxTime
  /\ remoteSection \in [Sections -> {"unborn", "live", "deleted"}]
  /\ remote \in [Pages -> Nat \cup {Deleted}]
  /\ sections \subseteq Sections
  /\ pages \in [Pages -> Page]
  /\ lastSynced \in Nat
  /\ lastModified \in Nat
  /\ run \in Run
  /\ faults \in 0 .. MaxFaults

Current(p) == pages[p].status = "FRESH" /\ pages[p].content = remote[p]
WillFetch(p) == remote[p] > lastSynced \/ pages[p].status = "FAILED"

\* No edit is missed for good: every page of the notebook is stored as it stands, or
\* the test of the next run will select it (its edit is later than last_synced_at, or
\* its row is FAILED), whatever was edited while a run was listing or fetching and
\* wherever the runs before it broke off.
NothingMissed == \A p \in Pages : Live(p) => Current(p) \/ WillFetch(p)

\* What a search returns as FRESH is always a version of that page that was really
\* fetched, and no run replaces the content of a page by an older version or by none: an
\* error leaves the content to be served, marked FAILED.
ContentOnlyAdvances ==
  [][\A p \in Pages : Stored(p) /\ pages'[p].status # "absent"
       => /\ pages'[p].content >= pages[p].content
          /\ pages'[p].status = "FRESH" => pages'[p].content > NoContent]_vars

\* A run deletes no page that is still in OneNote, whatever its lists left out: a list
\* Graph does not vouch for is not a reason to delete, of a page or of its section.
KeepsLivePages ==
  [][\A p \in Pages : Stored(p) /\ pages'[p].status = "absent" => ~Live(p)]_vars

InSync ==
  /\ sections = {s \in Sections : SectionLive(s)}
  /\ \A p \in Pages : IF Live(p) THEN Current(p) ELSE ~Stored(p)
  /\ \A p \in Pages : Live(p) => lastModified >= remote[p]

\* A section the user has deleted from OneNote leaves the tables, with its pages.
DeletionsApplied ==
  \A s \in Sections : remoteSection[s] = "deleted" ~> s \notin sections

\* Once the user stops editing and faults cease, the tables come to equal the notebook
\* and stay so, unless no section is left: that list is empty and ends every run.
Converges == <>[](InSync \/ \A s \in Sections : ~SectionLive(s))
=============================================================================
