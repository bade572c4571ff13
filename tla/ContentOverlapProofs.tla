------------------------ MODULE ContentOverlapProofs ------------------------
(***************************************************************************)
(* What overlapping runs of a notebook may lose, for every number of runs, *)
(* sections, pages and edits.                                              *)
(***************************************************************************)
EXTENDS ContentOverlap, TLAPS

----------------------------------------------------------------------------
(* The inductive invariant *)

\* A run plans no section before it has listed all, and has no time to compare with
\* before it has read the notebook.
OverlapStages(r) ==
  /\ syncRun[r].pc = "listing" => syncRun[r].toPlan = SyncSections
  /\ syncRun[r].pc \in {"idle", "begun"} => syncRun[r].since = 0

\* No time is ahead of the last edit.
OverlapTimes ==
  /\ lastSyncedAt =< editClock
  /\ \A p \in SyncPages : modified[p] =< editClock
  /\ \A r \in SyncRuns : syncRun[r].started =< editClock /\ syncRun[r].since =< editClock

\* A run that no other has overtaken began last, and nothing was called synced as of a
\* later time: what has been edited since is due to every run.
LastBegun ==
  \A r \in SyncRuns : InProgress(r) /\ r \notin overtaken =>
    /\ lastSyncedAt =< syncRun[r].started
    /\ \A q \in SyncRuns : InProgress(q) =>
         syncRun[q].started =< syncRun[r].started /\ syncRun[q].since =< syncRun[r].started

\* What a run found missing, or holds in another version, has been edited since it began.
HoldsCurrent(r, p) ==
  InOneNote(p) /\ modified[p] =< syncRun[r].started =>
    /\ SectionOf[p] \in syncRun[r].whole => syncRun[r].seen[p] # Unlisted
    /\ syncRun[r].built[p] \in {NothingBuilt, FetchError, modified[p]}

\* The run will write the page as it is, or mark it FAILED, before it ends well.
OnTheWay(r, p) ==
  LET mine == syncRun[r] IN
  \/ mine.pc \in {"begun", "read"}
  \/ mine.pc = "listing" /\ (SectionOf[p] \in mine.toList \/ mine.seen[p] = modified[p])
  \/ mine.pc = "planning" /\ SectionOf[p] \in mine.toPlan /\ mine.seen[p] = modified[p]
  \/ mine.pc \in {"planning", "fetching"} /\ (p \in mine.queue \/ mine.built[p] # NothingBuilt)

\* A page whose last edit is in nobody's past is safe, or the run that will call it
\* synced has it on the way.
Covered(r, p) ==
  /\ modified[p] =< syncRun[r].since => Safe(p)
  /\ InProgress(r) /\ modified[p] =< syncRun[r].started => Safe(p) \/ OnTheWay(r, p)

AllCovered(p) ==
  InOneNote(p) /\ p \notin harmed =>
    /\ modified[p] =< lastSyncedAt => Safe(p)
    /\ \A r \in SyncRuns : Covered(r, p)

OverlapInv ==
  /\ OverlapTypeOK
  /\ OverlapTimes
  /\ LastBegun
  /\ \A r \in SyncRuns : OverlapStages(r)
  /\ \A r \in SyncRuns : \A p \in SyncPages : HoldsCurrent(r, p)
  /\ \A p \in SyncPages : AllCovered(p)

----------------------------------------------------------------------------
(* Type correctness *)

LEMMA NoSyncTyped == NoSync \in SyncRun
  BY DEF NoSync, SyncRun, Unlisted, NothingBuilt

LEMMA OverlapTypeInit == OverlapInit => OverlapTypeOK
  BY NoSyncTyped, OverlapAssumption
  DEF OverlapInit, OverlapTypeOK, NoRow, RowStatus, Removed

\* The runs and the rows stay what the code can store of them.
LEMMA OverlapTypeStep == OverlapTypeOK /\ [OverlapNext]_overlapVars => OverlapTypeOK'
<1> SUFFICES ASSUME OverlapTypeOK, [OverlapNext]_overlapVars PROVE OverlapTypeOK'
  OBVIOUS
<1> USE OverlapAssumption
<1>1. CASE UNCHANGED overlapVars
  BY <1>1 DEF OverlapTypeOK, overlapVars
<1>2. ASSUME NEW p \in SyncPages, EditPage(p) PROVE OverlapTypeOK'
  BY <1>2 DEF OverlapTypeOK, EditPage
<1>3. ASSUME NEW p \in SyncPages, RemovePageInOneNote(p) PROVE OverlapTypeOK'
  BY <1>3 DEF OverlapTypeOK, RemovePageInOneNote, Removed
<1>4. ASSUME NEW r \in SyncRuns, BeginSync(r) PROVE OverlapTypeOK'
  <2>1. editClock \in Nat
    BY DEF OverlapTypeOK
  <2>2. [NoSync EXCEPT !.pc = "begun", !.started = editClock] \in SyncRun
    BY <2>1, NoSyncTyped DEF SyncRun
  <2> QED BY <1>4, <2>2 DEF OverlapTypeOK, BeginSync
<1>5. ASSUME NEW r \in SyncRuns, ReadNotebook(r) PROVE OverlapTypeOK'
  <2>1. [syncRun[r] EXCEPT !.pc = "read", !.since = lastSyncedAt] \in SyncRun
    BY DEF OverlapTypeOK, SyncRun
  <2> QED BY <1>5, <2>1 DEF OverlapTypeOK, ReadNotebook
<1>6. ASSUME NEW r \in SyncRuns, StoreSections(r) PROVE OverlapTypeOK'
  <2>1. [syncRun[r] EXCEPT !.pc = "listing", !.toList = SyncSections, !.toPlan = SyncSections]
          \in SyncRun
    BY DEF OverlapTypeOK, SyncRun
  <2> QED BY <1>6, <2>1 DEF OverlapTypeOK, StoreSections
<1>7. ASSUME NEW r \in SyncRuns, NEW s \in SyncSections, ListSectionPages(r, s)
      PROVE  OverlapTypeOK'
  <2> DEFINE there == {p \in SyncPages : SectionOf[p] = s /\ InOneNote(p)}
             listing(listed, complete) ==
               [syncRun[r] EXCEPT !.toList = @ \ {s},
                                  !.pc = IF syncRun[r].toList = {s} THEN "planning" ELSE @,
                                  !.whole = IF complete THEN @ \cup {s} ELSE @,
                                  !.seen = [p \in SyncPages |->
                                              IF p \in listed THEN modified[p] ELSE @[p]]]
  <2>1. PICK listed \in SUBSET there, complete \in BOOLEAN :
          /\ syncRun' = [syncRun EXCEPT ![r] = listing(listed, complete)]
          /\ harmed' = harmed \cup
               {p \in there \ listed : modified[p] =< syncRun[r].started /\ ~Safe(p)}
    BY <1>7 DEF ListSectionPages
  <2>2. \A p \in there : modified[p] \in Nat
    BY DEF OverlapTypeOK, InOneNote, Removed
  <2>3. [p \in SyncPages |-> IF p \in listed THEN modified[p] ELSE syncRun[r].seen[p]]
          \in [SyncPages -> Nat]
    BY <2>2 DEF OverlapTypeOK, SyncRun
  <2>4. listing(listed, complete) \in SyncRun
    <3>1. syncRun[r] \in SyncRun
      BY DEF OverlapTypeOK
    <3>2. PICK seen \in [SyncPages -> Nat] :
            seen = [p \in SyncPages |-> IF p \in listed THEN modified[p] ELSE syncRun[r].seen[p]]
      BY <2>3
    <3>3. PICK whole \in SUBSET SyncSections :
            whole = IF complete THEN syncRun[r].whole \cup {s} ELSE syncRun[r].whole
      BY <3>1 DEF SyncRun
    <3>4. PICK pc \in {"listing", "planning"} :
            pc = IF syncRun[r].toList = {s} THEN "planning" ELSE syncRun[r].pc
      BY <1>7 DEF ListSectionPages
    <3>5. PICK toList \in SUBSET SyncSections : toList = syncRun[r].toList \ {s}
      BY <3>1 DEF SyncRun
    <3>6. listing(listed, complete) =
            [syncRun[r] EXCEPT !.toList = toList, !.pc = pc, !.whole = whole, !.seen = seen]
      BY <3>2, <3>3, <3>4, <3>5
    <3> HIDE DEF listing
    <3>7. [syncRun[r] EXCEPT !.toList = toList, !.pc = pc, !.whole = whole, !.seen = seen]
            \in SyncRun
      BY <3>1, <3>2, <3>3, <3>4, <3>5 DEF SyncRun
    <3> QED BY <3>6, <3>7
  <2>5. harmed' \subseteq SyncPages
    BY <2>1 DEF OverlapTypeOK
  <2> HIDE DEF listing
  <2> QED BY <1>7, <2>1, <2>4, <2>5 DEF OverlapTypeOK, ListSectionPages
<1>8. ASSUME NEW r \in SyncRuns, NEW s \in SyncSections, PlanSectionPages(r, s)
      PROVE  OverlapTypeOK'
  <2> DEFINE stale == {p \in SyncPages : /\ SectionOf[p] = s /\ s \in syncRun[r].whole
                                         /\ syncRun[r].seen[p] = Unlisted /\ HasRow(p)}
             listed == {p \in SyncPages : SectionOf[p] = s /\ syncRun[r].seen[p] # Unlisted}
             planned == [syncRun[r] EXCEPT
                           !.toPlan = @ \ {s},
                           !.pc = IF syncRun[r].toPlan = {s} THEN "fetching" ELSE @,
                           !.queue = @ \cup {p \in listed : NeedsFetch(syncRun[r], p)}]
  <2>1. planned \in SyncRun
    BY DEF OverlapTypeOK, SyncRun
  <2>2. ASSUME NEW q \in SyncRuns PROVE WithoutRows(syncRun[q], stale) \in SyncRun
    <3>1. syncRun[q] \in SyncRun
      BY DEF OverlapTypeOK
    <3>2. [p \in SyncPages |-> IF p \in stale THEN NothingBuilt ELSE syncRun[q].built[p]]
            \in [SyncPages -> Nat \cup {NothingBuilt}]
      BY <3>1 DEF SyncRun
    <3> QED BY <3>1, <3>2 DEF WithoutRows, SyncRun
  <2>3. rows' \in [SyncPages -> [status : RowStatus, content : Nat]]
    BY <1>8 DEF OverlapTypeOK, PlanSectionPages, NoRow, PendingRow, RowStatus
  <2>4. syncRun' = [q \in SyncRuns |-> IF q = r THEN planned ELSE WithoutRows(syncRun[q], stale)]
    BY <1>8 DEF PlanSectionPages
  <2>5. syncRun' \in [SyncRuns -> SyncRun]
    <3> HIDE DEF planned, stale
    <3> QED BY <2>1, <2>2, <2>4
  <2>6. harmed' \subseteq SyncPages
    BY <1>8 DEF OverlapTypeOK, PlanSectionPages
  <2> QED BY <1>8, <2>3, <2>5, <2>6 DEF OverlapTypeOK, PlanSectionPages
<1>9. ASSUME NEW r \in SyncRuns, NEW p \in SyncPages, BuildPage(r, p) PROVE OverlapTypeOK'
  <2>1. PICK content \in {modified[p], FetchError} :
          /\ content = FetchError \/ InOneNote(p)
          /\ syncRun' = [syncRun EXCEPT ![r] =
                           [syncRun[r] EXCEPT !.queue = @ \ {p}, !.built[p] = content]]
    BY <1>9 DEF BuildPage
  <2>2. content \in Nat
    BY <2>1 DEF OverlapTypeOK, InOneNote, FetchError, Removed
  <2>3. [syncRun[r] EXCEPT !.queue = @ \ {p}, !.built[p] = content] \in SyncRun
    BY <2>2 DEF OverlapTypeOK, SyncRun
  <2> QED BY <1>9, <2>1, <2>3 DEF OverlapTypeOK, BuildPage
<1>10. ASSUME NEW r \in SyncRuns, NEW p \in SyncPages, ApplyPage(r, p) PROVE OverlapTypeOK'
  <2>1. syncRun[r].built[p] \in Nat
    BY <1>10 DEF OverlapTypeOK, ApplyPage, SyncRun
  <2>2. AppliedRow(p, syncRun[r].built[p]) \in [status : RowStatus, content : Nat]
    BY <2>1 DEF OverlapTypeOK, AppliedRow, RowStatus
  <2>3. [syncRun[r] EXCEPT !.built[p] = NothingBuilt] \in SyncRun
    BY DEF OverlapTypeOK, SyncRun
  <2>4. harmed' \subseteq SyncPages
    BY <1>10 DEF OverlapTypeOK, ApplyPage
  <2> QED BY <1>10, <2>2, <2>3, <2>4 DEF OverlapTypeOK, ApplyPage
<1>11. ASSUME NEW r \in SyncRuns, FinishSync(r) PROVE OverlapTypeOK'
  BY <1>11, NoSyncTyped DEF OverlapTypeOK, FinishSync, SyncedAt, SyncRun
<1>12. ASSUME NEW r \in SyncRuns, AbortSync(r) PROVE OverlapTypeOK'
  BY <1>12, NoSyncTyped DEF OverlapTypeOK, AbortSync
<1> QED BY <1>1, <1>2, <1>3, <1>4, <1>5, <1>6, <1>7, <1>8, <1>9, <1>10, <1>11, <1>12
        DEF OverlapNext

(* Every variable of ContentOverlap holds what the code can store there. *)
THEOREM OverlapTypes == OverlapSpec => []OverlapTypeOK
<1>1. OverlapInit => OverlapTypeOK
  BY OverlapTypeInit
<1>2. OverlapTypeOK /\ [OverlapNext]_overlapVars => OverlapTypeOK'
  BY OverlapTypeStep
<1> QED BY <1>1, <1>2, PTL DEF OverlapSpec

----------------------------------------------------------------------------
(* The times of the runs *)

SameTimes(q) ==
  /\ syncRun'[q].started = syncRun[q].started
  /\ syncRun'[q].since = syncRun[q].since
  /\ syncRun'[q].pc = "idle" <=> syncRun[q].pc = "idle"

\* What run r does between reading the notebook and finishing
Works(r) ==
  \/ StoreSections(r)
  \/ \E s \in SyncSections : ListSectionPages(r, s) \/ PlanSectionPages(r, s)
  \/ \E p \in SyncPages : BuildPage(r, p) \/ ApplyPage(r, p)

LEMMA WorkKeepsTimes ==
  ASSUME OverlapTypeOK, NEW r \in SyncRuns, Works(r)
  PROVE  /\ UNCHANGED <<editClock, modified, lastSyncedAt, overtaken>>
         /\ \A q \in SyncRuns : SameTimes(q)
<1> USE DEF SameTimes
<1>1. CASE StoreSections(r)
  BY <1>1 DEF OverlapTypeOK, StoreSections, SyncRun
<1>2. ASSUME NEW s \in SyncSections, ListSectionPages(r, s)
      PROVE  /\ UNCHANGED <<editClock, modified, lastSyncedAt, overtaken>>
             /\ \A q \in SyncRuns : SameTimes(q)
  BY <1>2 DEF OverlapTypeOK, ListSectionPages, SyncRun
<1>3. ASSUME NEW s \in SyncSections, PlanSectionPages(r, s)
      PROVE  /\ UNCHANGED <<editClock, modified, lastSyncedAt, overtaken>>
             /\ \A q \in SyncRuns : SameTimes(q)
  BY <1>3 DEF OverlapTypeOK, PlanSectionPages, WithoutRows, SyncRun
<1>4. ASSUME NEW p \in SyncPages, BuildPage(r, p)
      PROVE  /\ UNCHANGED <<editClock, modified, lastSyncedAt, overtaken>>
             /\ \A q \in SyncRuns : SameTimes(q)
  BY <1>4 DEF OverlapTypeOK, BuildPage, SyncRun
<1>5. ASSUME NEW p \in SyncPages, ApplyPage(r, p)
      PROVE  /\ UNCHANGED <<editClock, modified, lastSyncedAt, overtaken>>
             /\ \A q \in SyncRuns : SameTimes(q)
  BY <1>5 DEF OverlapTypeOK, ApplyPage, SyncRun
<1> QED BY <1>1, <1>2, <1>3, <1>4, <1>5 DEF Works

\* The actions of OneNote and of the runs, the working ones taken together
LEMMA OverlapSteps ==
  ASSUME OverlapNext
  PROVE  \/ \E p \in SyncPages : EditPage(p) \/ RemovePageInOneNote(p)
         \/ \E r \in SyncRuns : \/ BeginSync(r) \/ ReadNotebook(r) \/ Works(r)
                                \/ FinishSync(r) \/ AbortSync(r)
  BY DEF OverlapNext, Works

LEMMA OverlapTimesStep ==
  ASSUME OverlapTypeOK, OverlapTimes, OverlapNext
  PROVE  OverlapTimes'
<1> USE DEF OverlapTimes
<1>0. /\ editClock \in Nat /\ lastSyncedAt \in Nat
      /\ \A p \in SyncPages : modified[p] \in Int
      /\ \A r \in SyncRuns : syncRun[r].started \in Nat /\ syncRun[r].since \in Nat
  BY OverlapAssumption DEF OverlapTypeOK, Removed, SyncRun
<1>1. ASSUME NEW p \in SyncPages, EditPage(p) PROVE OverlapTimes'
  BY <1>0, <1>1 DEF EditPage, OverlapTypeOK
<1>2. ASSUME NEW p \in SyncPages, RemovePageInOneNote(p) PROVE OverlapTimes'
  BY <1>0, <1>2 DEF RemovePageInOneNote, OverlapTypeOK, Removed
<1>3. ASSUME NEW r \in SyncRuns, BeginSync(r) PROVE OverlapTimes'
  BY <1>0, <1>3 DEF BeginSync, OverlapTypeOK, NoSync
<1>4. ASSUME NEW r \in SyncRuns, ReadNotebook(r) PROVE OverlapTimes'
  BY <1>0, <1>4 DEF ReadNotebook, OverlapTypeOK
<1>5. ASSUME NEW r \in SyncRuns, Works(r) PROVE OverlapTimes'
  BY <1>5, WorkKeepsTimes DEF SameTimes
<1>6. ASSUME NEW r \in SyncRuns, FinishSync(r) PROVE OverlapTimes'
  BY <1>0, <1>6 DEF FinishSync, SyncedAt, OverlapTypeOK, NoSync
<1>7. ASSUME NEW r \in SyncRuns, AbortSync(r) PROVE OverlapTimes'
  BY <1>0, <1>7 DEF AbortSync, OverlapTypeOK, NoSync
<1> QED BY <1>1, <1>2, <1>3, <1>4, <1>5, <1>6, <1>7, OverlapSteps

LEMMA LastBegunStep ==
  ASSUME OverlapTypeOK, OverlapTimes, LastBegun, OverlapNext
  PROVE  LastBegun'
<1> USE DEF LastBegun, InProgress
<1>0. /\ editClock \in Nat /\ lastSyncedAt \in Nat
      /\ \A r \in SyncRuns : syncRun[r].started \in Nat /\ syncRun[r].since \in Nat
      /\ lastSyncedAt =< editClock
      /\ \A r \in SyncRuns : syncRun[r].started =< editClock /\ syncRun[r].since =< editClock
  BY OverlapAssumption DEF OverlapTypeOK, OverlapTimes, SyncRun
<1>1. ASSUME NEW p \in SyncPages, EditPage(p) \/ RemovePageInOneNote(p) PROVE LastBegun'
  BY <1>1 DEF EditPage, RemovePageInOneNote
<1>3. ASSUME NEW r \in SyncRuns, BeginSync(r) PROVE LastBegun'
  <2>1. /\ syncRun'[r].started = editClock /\ syncRun'[r].since = 0
        /\ \A q \in SyncRuns : q # r => syncRun'[q] = syncRun[q]
        /\ \A q \in SyncRuns : q # r /\ InProgress(q) => q \in overtaken'
        /\ lastSyncedAt' = lastSyncedAt
    BY <1>3 DEF BeginSync, OverlapTypeOK, NoSync
  <2> QED BY <1>0, <2>1
<1>4. ASSUME NEW r \in SyncRuns, ReadNotebook(r) PROVE LastBegun'
  <2>1. /\ syncRun'[r].started = syncRun[r].started /\ syncRun'[r].since = lastSyncedAt
        /\ InProgress(r)
        /\ \A q \in SyncRuns : q # r => syncRun'[q] = syncRun[q]
        /\ lastSyncedAt' = lastSyncedAt /\ overtaken' = overtaken
    BY <1>4 DEF ReadNotebook, OverlapTypeOK, SyncRun
  <2> QED BY <1>0, <2>1
<1>5. ASSUME NEW r \in SyncRuns, Works(r) PROVE LastBegun'
  <2>1. /\ lastSyncedAt' = lastSyncedAt /\ overtaken' = overtaken
        /\ \A q \in SyncRuns : SameTimes(q)
    BY <1>5, WorkKeepsTimes
  <2> QED BY <2>1 DEF SameTimes
<1>6. ASSUME NEW r \in SyncRuns, FinishSync(r) PROVE LastBegun'
  <2>1. /\ InProgress(r) /\ syncRun'[r].pc = "idle"
        /\ \A q \in SyncRuns : q # r => syncRun'[q] = syncRun[q]
        /\ lastSyncedAt' = syncRun[r].started /\ overtaken' = overtaken \ {r}
    BY <1>6 DEF FinishSync, SyncedAt, OverlapTypeOK, NoSync
  <2> QED BY <1>0, <2>1
<1>7. ASSUME NEW r \in SyncRuns, AbortSync(r) PROVE LastBegun'
  <2>1. /\ syncRun'[r].pc = "idle"
        /\ \A q \in SyncRuns : q # r => syncRun'[q] = syncRun[q]
        /\ lastSyncedAt' = lastSyncedAt /\ overtaken' = overtaken \ {r}
    BY <1>7 DEF AbortSync, OverlapTypeOK, NoSync
  <2> QED BY <1>0, <2>1
<1> QED BY <1>1, <1>3, <1>4, <1>5, <1>6, <1>7, OverlapSteps

LEMMA OverlapStagesStep ==
  ASSUME OverlapTypeOK, NEW q \in SyncRuns, OverlapStages(q), OverlapNext
  PROVE  OverlapStages(q)'
<1> USE DEF OverlapStages
<1>1. ASSUME NEW p \in SyncPages, EditPage(p) \/ RemovePageInOneNote(p) PROVE OverlapStages(q)'
  BY <1>1 DEF EditPage, RemovePageInOneNote
<1>2. ASSUME NEW r \in SyncRuns, BeginSync(r) PROVE OverlapStages(q)'
  BY <1>2 DEF BeginSync, OverlapTypeOK, NoSync
<1>3. ASSUME NEW r \in SyncRuns, ReadNotebook(r) PROVE OverlapStages(q)'
  BY <1>3 DEF ReadNotebook, OverlapTypeOK, SyncRun
<1>4. ASSUME NEW r \in SyncRuns, StoreSections(r) PROVE OverlapStages(q)'
  BY <1>4 DEF StoreSections, OverlapTypeOK, SyncRun
<1>5. ASSUME NEW r \in SyncRuns, NEW s \in SyncSections, ListSectionPages(r, s)
      PROVE  OverlapStages(q)'
  BY <1>5 DEF ListSectionPages, OverlapTypeOK, SyncRun
<1>6. ASSUME NEW r \in SyncRuns, NEW s \in SyncSections, PlanSectionPages(r, s)
      PROVE  OverlapStages(q)'
  BY <1>6 DEF PlanSectionPages, WithoutRows, OverlapTypeOK, SyncRun
<1>7. ASSUME NEW r \in SyncRuns, NEW p \in SyncPages, BuildPage(r, p) PROVE OverlapStages(q)'
  BY <1>7 DEF BuildPage, OverlapTypeOK, SyncRun
<1>8. ASSUME NEW r \in SyncRuns, NEW p \in SyncPages, ApplyPage(r, p) PROVE OverlapStages(q)'
  BY <1>8 DEF ApplyPage, OverlapTypeOK, SyncRun
<1>9. ASSUME NEW r \in SyncRuns, FinishSync(r) \/ AbortSync(r) PROVE OverlapStages(q)'
  BY <1>9 DEF FinishSync, AbortSync, OverlapTypeOK, NoSync
<1> QED BY <1>1, <1>2, <1>3, <1>4, <1>5, <1>6, <1>7, <1>8, <1>9 DEF OverlapNext

----------------------------------------------------------------------------
(* The pages *)

\* A list of section s as Graph may answer it, and what run r remembers of it
ListAnswered(r, s, listed, complete) ==
  LET there == {p \in SyncPages : SectionOf[p] = s /\ InOneNote(p)}
      old == syncRun[r]
      new == syncRun'[r]
  IN
  /\ listed \subseteq there
  /\ complete \/ ~MayOmit => listed = there
  /\ new.started = old.started /\ new.since = old.since
  /\ new.toPlan = old.toPlan /\ new.queue = old.queue /\ new.built = old.built
  /\ new.toList = old.toList \ {s}
  /\ new.pc = IF old.toList = {s} THEN "planning" ELSE "listing"
  /\ new.whole = IF complete THEN old.whole \cup {s} ELSE old.whole
  /\ new.seen = [p \in SyncPages |-> IF p \in listed THEN modified[p] ELSE old.seen[p]]
  /\ harmed' = harmed \cup {p \in there \ listed : modified[p] =< old.started /\ ~Safe(p)}

LEMMA ListIsAnswered ==
  ASSUME OverlapTypeOK, NEW r \in SyncRuns, NEW s \in SyncSections, ListSectionPages(r, s)
  PROVE  /\ \E listed \in SUBSET SyncPages : \E complete \in BOOLEAN :
              ListAnswered(r, s, listed, complete)
         /\ \A q \in SyncRuns : q # r => syncRun'[q] = syncRun[q]
<1> DEFINE there == {p \in SyncPages : SectionOf[p] = s /\ InOneNote(p)}
           new(listed, complete) ==
             [syncRun[r] EXCEPT !.toList = @ \ {s},
                                !.pc = IF syncRun[r].toList = {s} THEN "planning" ELSE @,
                                !.whole = IF complete THEN @ \cup {s} ELSE @,
                                !.seen = [p \in SyncPages |->
                                            IF p \in listed THEN modified[p] ELSE @[p]]]
<1>1. PICK listed \in SUBSET there, complete \in BOOLEAN :
        /\ complete \/ ~MayOmit => listed = there
        /\ syncRun' = [syncRun EXCEPT ![r] = new(listed, complete)]
        /\ harmed' = harmed \cup
             {p \in there \ listed : modified[p] =< syncRun[r].started /\ ~Safe(p)}
  BY DEF ListSectionPages
<1>2. syncRun[r] \in SyncRun /\ syncRun[r].pc = "listing"
  BY DEF OverlapTypeOK, ListSectionPages
<1>3. syncRun'[r] = new(listed, complete)
  <2> HIDE DEF new
  <2> QED BY <1>1 DEF OverlapTypeOK
<1>4. /\ syncRun'[r].started = syncRun[r].started /\ syncRun'[r].since = syncRun[r].since
      /\ syncRun'[r].toPlan = syncRun[r].toPlan /\ syncRun'[r].queue = syncRun[r].queue
      /\ syncRun'[r].built = syncRun[r].built
      /\ syncRun'[r].toList = syncRun[r].toList \ {s}
      /\ syncRun'[r].pc = IF syncRun[r].toList = {s} THEN "planning" ELSE "listing"
      /\ syncRun'[r].whole =
           IF complete THEN syncRun[r].whole \cup {s} ELSE syncRun[r].whole
  BY <1>2, <1>3 DEF SyncRun
<1>5. syncRun'[r].seen =
        [p \in SyncPages |-> IF p \in listed THEN modified[p] ELSE syncRun[r].seen[p]]
  BY <1>2, <1>3 DEF SyncRun
<1>6. ListAnswered(r, s, listed, complete)
  <2> HIDE DEF new
  <2> QED BY <1>1, <1>4, <1>5, Zenon DEF ListAnswered
<1>7. \A q \in SyncRuns : q # r => syncRun'[q] = syncRun[q]
  <2> HIDE DEF new
  <2> QED BY <1>1 DEF OverlapTypeOK
<1> QED BY <1>7, <1>6

LEMMA HoldsCurrentStep ==
  ASSUME OverlapTypeOK, OverlapTimes, NEW q \in SyncRuns, NEW u \in SyncPages,
         HoldsCurrent(q, u), OverlapNext
  PROVE  HoldsCurrent(q, u)'
<1> USE DEF HoldsCurrent
<1>0. /\ modified[u] \in Int /\ editClock \in Nat /\ syncRun[q].started \in Nat
      /\ syncRun[q].started =< editClock /\ syncRun[q] \in SyncRun
      /\ SectionOf[u] \in SyncSections
  BY OverlapAssumption DEF OverlapTypeOK, OverlapTimes, Removed, SyncRun
<1>1. ASSUME NEW p \in SyncPages, EditPage(p) PROVE HoldsCurrent(q, u)'
  <2>1. CASE p = u
    BY <1>0, <1>1, <2>1 DEF EditPage, OverlapTypeOK
  <2>2. CASE p # u
    BY <1>0, <1>1, <2>2 DEF EditPage, OverlapTypeOK, InOneNote
  <2> QED BY <2>1, <2>2
<1>2. ASSUME NEW p \in SyncPages, RemovePageInOneNote(p) PROVE HoldsCurrent(q, u)'
  BY <1>0, <1>2 DEF RemovePageInOneNote, OverlapTypeOK, InOneNote, Removed
<1>3. ASSUME NEW r \in SyncRuns, UNCHANGED modified, syncRun'[q] = syncRun[q]
      PROVE  HoldsCurrent(q, u)'
  BY <1>3 DEF InOneNote
<1>4. ASSUME UNCHANGED modified, syncRun'[q].whole = {},
             syncRun'[q].built = [p \in SyncPages |-> NothingBuilt]
      PROVE  HoldsCurrent(q, u)'
  BY <1>4
<1>5. ASSUME NEW r \in SyncRuns, BeginSync(r) \/ FinishSync(r) \/ AbortSync(r)
      PROVE  HoldsCurrent(q, u)'
  <2>1. CASE r = q
    <3>1. UNCHANGED modified
      BY <1>5 DEF BeginSync, FinishSync, AbortSync
    <3>2. CASE BeginSync(r)
      BY <1>4, <2>1, <3>1, <3>2 DEF BeginSync, NoSync, OverlapTypeOK
    <3>3. CASE FinishSync(r) \/ AbortSync(r)
      <4>1. syncRun'[q] = NoSync
        BY <2>1, <3>3 DEF FinishSync, AbortSync, OverlapTypeOK
      <4> QED BY <1>4, <3>1, <4>1 DEF NoSync
    <3> QED BY <1>5, <3>2, <3>3
  <2>2. CASE r # q
    BY <1>3, <1>5, <2>2 DEF BeginSync, FinishSync, AbortSync, OverlapTypeOK
  <2> QED BY <2>1, <2>2
<1>6. ASSUME NEW r \in SyncRuns, ReadNotebook(r) \/ StoreSections(r)
      PROVE  HoldsCurrent(q, u)'
  <2>1. /\ modified' = modified
        /\ syncRun'[q].started = syncRun[q].started /\ syncRun'[q].whole = syncRun[q].whole
        /\ syncRun'[q].seen = syncRun[q].seen /\ syncRun'[q].built = syncRun[q].built
    <3>1. CASE ReadNotebook(r)
      BY <3>1 DEF ReadNotebook, OverlapTypeOK, SyncRun
    <3>2. CASE StoreSections(r)
      BY <3>2 DEF StoreSections, OverlapTypeOK, SyncRun
    <3> QED BY <1>6, <3>1, <3>2
  <2> QED BY <2>1 DEF InOneNote
<1>7. ASSUME NEW r \in SyncRuns, NEW s \in SyncSections, ListSectionPages(r, s)
      PROVE  HoldsCurrent(q, u)'
  <2>1. CASE r # q
    BY <1>3, <1>7, <2>1 DEF ListSectionPages, OverlapTypeOK
  <2>2. CASE r = q
    <3> DEFINE there == {p \in SyncPages : SectionOf[p] = s /\ InOneNote(p)}
    <3>1. PICK listed \in SUBSET SyncPages : \E complete \in BOOLEAN :
            ListAnswered(q, s, listed, complete)
      BY <1>7, <2>2, ListIsAnswered
    <3> PICK complete \in BOOLEAN : ListAnswered(q, s, listed, complete)
      BY <3>1
    <3>2. /\ complete => listed = there
          /\ listed \subseteq there
          /\ syncRun'[q].started = syncRun[q].started
          /\ syncRun'[q].built = syncRun[q].built
          /\ syncRun'[q].whole =
               IF complete THEN syncRun[q].whole \cup {s} ELSE syncRun[q].whole
          /\ syncRun'[q].seen =
               [p \in SyncPages |-> IF p \in listed THEN modified[p] ELSE syncRun[q].seen[p]]
      BY DEF ListAnswered
    <3>3. modified' = modified
      BY <1>7 DEF ListSectionPages
    <3> SUFFICES ASSUME InOneNote(u), modified[u] =< syncRun[q].started
                 PROVE  /\ SectionOf[u] \in syncRun'[q].whole => syncRun'[q].seen[u] # Unlisted
                        /\ syncRun'[q].built[u] \in {NothingBuilt, FetchError, modified[u]}
      BY <3>3, <3>2 DEF InOneNote
    <3>4. syncRun'[q].built[u] \in {NothingBuilt, FetchError, modified[u]}
      BY <3>2
    <3>5. CASE u \in listed
      BY <1>0, <3>4, <3>5, <3>2 DEF InOneNote, Unlisted
    <3>6. CASE u \notin listed
      <4>1. SectionOf[u] \in syncRun'[q].whole => SectionOf[u] \in syncRun[q].whole
        BY <3>6, <3>2
      <4> QED BY <3>4, <3>6, <3>2, <4>1
    <3> QED BY <3>5, <3>6
  <2> QED BY <2>1, <2>2
<1>8. ASSUME NEW r \in SyncRuns, NEW s \in SyncSections, PlanSectionPages(r, s)
      PROVE  HoldsCurrent(q, u)'
  <2>1. /\ modified' = modified
        /\ syncRun'[q].started = syncRun[q].started /\ syncRun'[q].whole = syncRun[q].whole
        /\ syncRun'[q].seen = syncRun[q].seen
        /\ syncRun'[q].built[u] \in {syncRun[q].built[u], NothingBuilt}
    BY <1>0, <1>8 DEF PlanSectionPages, WithoutRows, SyncRun
  <2> QED BY <2>1 DEF InOneNote
<1>9. ASSUME NEW r \in SyncRuns, NEW p \in SyncPages, BuildPage(r, p) \/ ApplyPage(r, p)
      PROVE  HoldsCurrent(q, u)'
  <2>1. /\ modified' = modified
        /\ syncRun'[q].started = syncRun[q].started /\ syncRun'[q].whole = syncRun[q].whole
        /\ syncRun'[q].seen = syncRun[q].seen
        /\ syncRun'[q].built[u] \in {syncRun[q].built[u], NothingBuilt, FetchError, modified[u]}
    <3>1. CASE BuildPage(r, p)
      BY <1>0, <3>1 DEF BuildPage, OverlapTypeOK, SyncRun
    <3>2. CASE ApplyPage(r, p)
      BY <1>0, <3>2 DEF ApplyPage, OverlapTypeOK, SyncRun
    <3> QED BY <1>9, <3>1, <3>2
  <2> QED BY <2>1 DEF InOneNote
<1> QED BY <1>1, <1>2, <1>5, <1>6, <1>7, <1>8, <1>9 DEF OverlapNext

\* What leaves a page and a run alone leaves the page covered.
LEMMA RestIsCovered ==
  ASSUME NEW q \in SyncRuns, NEW u \in SyncPages, Covered(q, u),
         modified'[u] = modified[u], Safe(u) => Safe(u)', syncRun'[q] = syncRun[q]
  PROVE  Covered(q, u)'
BY DEF Covered, OnTheWay, InProgress

\* A page edited after the last run began is due to every run.
DueToAll(u) ==
  /\ modified[u] > lastSyncedAt
  /\ \A q \in SyncRuns : /\ modified[u] > syncRun[q].since
                         /\ InProgress(q) => modified[u] > syncRun[q].started

LEMMA EditedSinceLastBegun ==
  ASSUME OverlapInv, NEW r \in SyncRuns, NEW u \in SyncPages,
         InProgress(r), r \notin overtaken, modified[u] > syncRun[r].started
  PROVE  DueToAll(u)
<1>1. /\ modified[u] \in Int /\ lastSyncedAt \in Nat
      /\ \A q \in SyncRuns : syncRun[q].started \in Nat /\ syncRun[q].since \in Nat
  BY DEF OverlapInv, OverlapTypeOK, Removed, SyncRun
<1>2. /\ lastSyncedAt =< syncRun[r].started
      /\ \A q \in SyncRuns : InProgress(q) =>
           syncRun[q].started =< syncRun[r].started /\ syncRun[q].since =< syncRun[r].started
  BY DEF OverlapInv, LastBegun
<1>3. \A q \in SyncRuns : ~InProgress(q) => syncRun[q].since = 0
  BY DEF OverlapInv, OverlapStages, InProgress
<1> QED BY <1>1, <1>2, <1>3 DEF DueToAll

LEMMA DueStaysCovered ==
  ASSUME OverlapTypeOK, NEW r \in SyncRuns, Works(r), NEW u \in SyncPages, DueToAll(u)
  PROVE  AllCovered(u)'
<1>1. /\ lastSyncedAt' = lastSyncedAt /\ modified' = modified
      /\ \A q \in SyncRuns : SameTimes(q)
  BY WorkKeepsTimes
<1>2. /\ modified[u] \in Int /\ lastSyncedAt \in Nat
      /\ \A q \in SyncRuns : syncRun[q].started \in Nat /\ syncRun[q].since \in Nat
  BY DEF OverlapTypeOK, Removed, SyncRun
<1> QED BY <1>1, <1>2 DEF DueToAll, AllCovered, Covered, SameTimes, InProgress

\* A step that leaves a page, and what is known of it, alone
LEMMA OthersStayCovered ==
  ASSUME NEW u \in SyncPages, AllCovered(u), u \notin harmed, InOneNote(u),
         modified'[u] = modified[u], Safe(u) => Safe(u)',
         modified[u] =< lastSyncedAt' => modified[u] =< lastSyncedAt,
         NEW r, \A q \in SyncRuns : q # r => syncRun'[q] = syncRun[q],
         r \in SyncRuns => Covered(r, u)'
  PROVE  AllCovered(u)'
<1>1. ASSUME NEW q \in SyncRuns PROVE Covered(q, u)'
  <2>1. CASE q = r
    BY <2>1
  <2>2. CASE q # r
    BY <2>2, RestIsCovered DEF AllCovered
  <2> QED BY <2>1, <2>2
<1>2. modified'[u] =< lastSyncedAt' => Safe(u)'
  BY DEF AllCovered
<1> QED BY <1>1, <1>2 DEF AllCovered

LEMMA EditStaysCovered ==
  ASSUME OverlapInv, NEW p \in SyncPages, EditPage(p) \/ RemovePageInOneNote(p),
         NEW u \in SyncPages
  PROVE  AllCovered(u)'
<1> SUFFICES ASSUME InOneNote(u)', u \notin harmed'
             PROVE  AllCovered(u)'
  BY DEF AllCovered
<1>1. /\ UNCHANGED <<rows, lastSyncedAt, syncRun>>
      /\ \A q \in SyncPages : q # p => modified'[q] = modified[q]
      /\ harmed \subseteq harmed' \cup {p}
  BY DEF EditPage, RemovePageInOneNote, OverlapInv, OverlapTypeOK
<1>2. CASE u = p
  <2>1. EditPage(p) /\ modified'[u] = editClock + 1
    BY <1>2 DEF EditPage, RemovePageInOneNote, OverlapInv, OverlapTypeOK, InOneNote, Removed
  <2>2. /\ editClock \in Nat /\ lastSyncedAt \in Nat /\ lastSyncedAt =< editClock
        /\ \A q \in SyncRuns : /\ syncRun[q].started \in Nat /\ syncRun[q].since \in Nat
                               /\ syncRun[q].started =< editClock /\ syncRun[q].since =< editClock
    BY OverlapAssumption DEF OverlapInv, OverlapTypeOK, OverlapTimes, SyncRun
  <2> QED BY <1>1, <2>1, <2>2 DEF AllCovered, Covered
<1>3. CASE u # p
  <2>1. InOneNote(u) /\ u \notin harmed /\ modified'[u] = modified[u]
    BY <1>1, <1>3 DEF InOneNote
  <2>2. Safe(u) => Safe(u)'
    BY <1>1, <2>1 DEF Safe, CurrentRow
  <2>3. AllCovered(u)
    BY DEF OverlapInv
  <2>4. ASSUME NEW q \in SyncRuns PROVE Covered(q, u)'
    BY <1>1, <2>1, <2>2, <2>3, RestIsCovered DEF AllCovered
  <2> QED BY <1>1, <2>1, <2>2, <2>3, <2>4 DEF AllCovered
<1> QED BY <1>2, <1>3

\* The steps of a run that write no row
LEMMA QuietStaysCovered ==
  ASSUME OverlapInv, NEW r \in SyncRuns, NEW u \in SyncPages,
         BeginSync(r) \/ ReadNotebook(r) \/ StoreSections(r) \/ AbortSync(r)
  PROVE  AllCovered(u)'
<1> SUFFICES ASSUME InOneNote(u)', u \notin harmed'
             PROVE  AllCovered(u)'
  BY DEF AllCovered
<1>1. /\ UNCHANGED <<modified, rows, lastSyncedAt, harmed>>
      /\ \A q \in SyncRuns : q # r => syncRun'[q] = syncRun[q]
  BY DEF BeginSync, ReadNotebook, StoreSections, AbortSync, OverlapInv, OverlapTypeOK
<1>2. /\ InOneNote(u) /\ u \notin harmed /\ AllCovered(u)
      /\ Safe(u) => Safe(u)'
      /\ modified[u] \in Int /\ modified[u] > 0 /\ syncRun[r] \in SyncRun
      /\ SectionOf[u] \in SyncSections
  BY <1>1, OverlapAssumption
  DEF InOneNote, OverlapInv, OverlapTypeOK, Removed, Safe, CurrentRow
<1>3. Covered(r, u)'
  <2>1. CASE BeginSync(r)
    <3>1. syncRun'[r].since = 0 /\ syncRun'[r].pc = "begun"
      BY <2>1 DEF BeginSync, NoSync, OverlapInv, OverlapTypeOK
    <3> QED BY <1>1, <1>2, <3>1 DEF Covered, OnTheWay
  <2>2. CASE ReadNotebook(r)
    <3>1. syncRun'[r].since = lastSyncedAt /\ syncRun'[r].pc = "read"
      BY <1>2, <2>2 DEF ReadNotebook, OverlapInv, OverlapTypeOK, SyncRun
    <3> QED BY <1>1, <1>2, <3>1 DEF Covered, OnTheWay, AllCovered
  <2>3. CASE StoreSections(r)
    <3>1. /\ syncRun'[r].since = syncRun[r].since /\ syncRun'[r].pc = "listing"
          /\ syncRun'[r].toList = SyncSections
      BY <1>2, <2>3 DEF StoreSections, OverlapInv, OverlapTypeOK, SyncRun
    <3> QED BY <1>1, <1>2, <3>1 DEF Covered, OnTheWay, AllCovered
  <2>4. CASE AbortSync(r)
    <3>1. syncRun'[r].since = 0 /\ syncRun'[r].pc = "idle"
      BY <2>4 DEF AbortSync, NoSync, OverlapInv, OverlapTypeOK
    <3> QED BY <1>1, <1>2, <3>1 DEF Covered, InProgress
  <2> QED BY <2>1, <2>2, <2>3, <2>4
<1> QED BY <1>1, <1>2, <1>3, OthersStayCovered

\* What the list leaves out is safe, or harmed.
LEMMA ListStaysCovered ==
  ASSUME OverlapInv, NEW r \in SyncRuns, NEW s \in SyncSections, ListSectionPages(r, s),
         NEW u \in SyncPages
  PROVE  AllCovered(u)'
<1> SUFFICES ASSUME InOneNote(u)', u \notin harmed'
             PROVE  AllCovered(u)'
  BY DEF AllCovered
<1>1. PICK listed \in SUBSET SyncPages : \E complete \in BOOLEAN :
        ListAnswered(r, s, listed, complete)
  BY ListIsAnswered DEF OverlapInv
<1> PICK complete \in BOOLEAN : ListAnswered(r, s, listed, complete)
  BY <1>1
<1>2. UNCHANGED <<modified, rows, lastSyncedAt>> /\ syncRun[r].pc = "listing"
  BY DEF ListSectionPages
<1>3. \A q \in SyncRuns : q # r => syncRun'[q] = syncRun[q]
  BY ListIsAnswered DEF OverlapInv
<1>4. /\ InOneNote(u) /\ AllCovered(u) /\ SectionOf[u] \in SyncSections
      /\ Safe(u)' <=> Safe(u)
      /\ syncRun[r].toPlan = SyncSections
  BY <1>2, OverlapAssumption DEF InOneNote, OverlapInv, Safe, CurrentRow, OverlapStages
<1>5. u \notin harmed /\ Covered(r, u)
  BY <1>4 DEF ListAnswered, AllCovered
<1>6. syncRun'[r].since = syncRun[r].since /\ syncRun'[r].started = syncRun[r].started
  BY DEF ListAnswered
<1>7. ASSUME modified[u] =< syncRun[r].started, ~Safe(u)
      PROVE  OnTheWay(r, u)'
  <2>1. SectionOf[u] \in syncRun[r].toList \/ syncRun[r].seen[u] = modified[u]
    BY <1>2, <1>5, <1>7 DEF Covered, OnTheWay, InProgress
  <2>2. CASE u \in listed
    <3>1. syncRun'[r].seen[u] = modified[u] /\ syncRun'[r].toPlan = SyncSections
      BY <1>4, <2>2 DEF ListAnswered
    <3>2. syncRun'[r].pc \in {"listing", "planning"}
      BY DEF ListAnswered
    <3> QED BY <1>2, <1>4, <3>1, <3>2 DEF OnTheWay
  <2>3. CASE u \notin listed
    <3>1. SectionOf[u] # s
      BY <1>4, <1>7, <2>3 DEF ListAnswered
    <3>2. /\ syncRun'[r].seen[u] = syncRun[r].seen[u] /\ syncRun'[r].toPlan = SyncSections
          /\ syncRun'[r].toList = syncRun[r].toList \ {s}
      BY <1>4, <2>3 DEF ListAnswered
    <3>3. CASE syncRun[r].toList = {s}
      <4>1. syncRun'[r].pc = "planning"
        BY <3>3 DEF ListAnswered
      <4> QED BY <1>2, <1>4, <2>1, <3>1, <3>2, <3>3, <4>1 DEF OnTheWay
    <3>4. CASE syncRun[r].toList # {s}
      <4>1. syncRun'[r].pc = "listing"
        BY <3>4 DEF ListAnswered
      <4> QED BY <1>2, <2>1, <3>1, <3>2, <4>1 DEF OnTheWay
    <3> QED BY <3>3, <3>4
  <2> QED BY <2>2, <2>3
<1>8. Covered(r, u)'
  BY <1>2, <1>4, <1>5, <1>6, <1>7 DEF Covered
<1> QED BY <1>2, <1>3, <1>4, <1>5, <1>8, OthersStayCovered

\* What planning section s does to the rows and to the runs
Stale(r, s) ==
  {p \in SyncPages : /\ SectionOf[p] = s /\ s \in syncRun[r].whole
                     /\ syncRun[r].seen[p] = Unlisted /\ HasRow(p)}

LEMMA PlannedRun ==
  ASSUME OverlapTypeOK, NEW r \in SyncRuns, NEW s \in SyncSections, PlanSectionPages(r, s)
  PROVE  LET mine == syncRun[r]
             listed == {p \in SyncPages : SectionOf[p] = s /\ mine.seen[p] # Unlisted}
         IN
         /\ syncRun'[r].pc = IF mine.toPlan = {s} THEN "fetching" ELSE "planning"
         /\ syncRun'[r].toPlan = mine.toPlan \ {s}
         /\ syncRun'[r].queue = mine.queue \cup {p \in listed : NeedsFetch(mine, p)}
         /\ syncRun'[r].seen = mine.seen /\ syncRun'[r].built = mine.built
<1>1. syncRun[r] \in SyncRun /\ syncRun[r].pc = "planning"
  BY DEF OverlapTypeOK, PlanSectionPages
<1> DEFINE listed == {p \in SyncPages : SectionOf[p] = s /\ syncRun[r].seen[p] # Unlisted}
<1>2. syncRun'[r] = [syncRun[r] EXCEPT
                       !.toPlan = @ \ {s},
                       !.pc = IF syncRun[r].toPlan = {s} THEN "fetching" ELSE @,
                       !.queue = @ \cup {p \in listed : NeedsFetch(syncRun[r], p)}]
  BY DEF PlanSectionPages
<1> QED BY <1>1, <1>2 DEF SyncRun

LEMMA PlannedOthers ==
  ASSUME OverlapTypeOK, NEW r \in SyncRuns, NEW s \in SyncSections, PlanSectionPages(r, s),
         NEW q \in SyncRuns, q # r
  PROVE  /\ syncRun'[q].pc = syncRun[q].pc /\ syncRun'[q].toList = syncRun[q].toList
         /\ syncRun'[q].toPlan = syncRun[q].toPlan /\ syncRun'[q].seen = syncRun[q].seen
         /\ \A p \in SyncPages \ Stale(r, s) :
              /\ p \in syncRun[q].queue => p \in syncRun'[q].queue
              /\ syncRun'[q].built[p] = syncRun[q].built[p]
<1>1. syncRun[q] \in SyncRun
  BY DEF OverlapTypeOK
<1>2. syncRun'[q] = WithoutRows(syncRun[q], Stale(r, s))
  BY DEF PlanSectionPages, Stale
<1> QED BY <1>1, <1>2 DEF WithoutRows, SyncRun

\* What the plan deletes was not in a whole list: it is gone from OneNote, due to every
\* run, or harmed.  What it does not queue is safe.
LEMMA PlanStaysCovered ==
  ASSUME OverlapInv, NEW r \in SyncRuns, NEW s \in SyncSections, PlanSectionPages(r, s),
         NEW u \in SyncPages
  PROVE  AllCovered(u)'
<1> SUFFICES ASSUME InOneNote(u)', u \notin harmed'
             PROVE  AllCovered(u)'
  BY DEF AllCovered
<1>1. Works(r)
  BY DEF Works
<1>2. /\ modified' = modified /\ lastSyncedAt' = lastSyncedAt
      /\ \A q \in SyncRuns : SameTimes(q)
  BY <1>1, WorkKeepsTimes DEF OverlapInv
<1>3. InOneNote(u) /\ u \notin harmed /\ AllCovered(u) /\ syncRun[r].pc = "planning"
  BY <1>2 DEF InOneNote, OverlapInv, PlanSectionPages
<1>4. CASE u \in Stale(r, s)
  <2>1. r \notin overtaken
    BY <1>3, <1>4 DEF PlanSectionPages, Stale
  <2>2. HoldsCurrent(r, u)
    BY DEF OverlapInv
  <2>3. modified[u] \in Int /\ syncRun[r].started \in Nat
    BY DEF OverlapInv, OverlapTypeOK, Removed, SyncRun
  <2>4. modified[u] > syncRun[r].started
    BY <1>3, <1>4, <2>2, <2>3 DEF HoldsCurrent, Stale
  <2>5. DueToAll(u)
    BY <1>3, <2>1, <2>4, EditedSinceLastBegun DEF InProgress
  <2> QED BY <1>1, <2>5, DueStaysCovered DEF OverlapInv
<1>5. CASE u \notin Stale(r, s)
  <2>1. rows'[u] = rows[u] \/ ~HasRow(u)
    BY <1>5 DEF PlanSectionPages, Stale
  <2>2. Safe(u) => Safe(u)'
    BY <1>2, <2>1 DEF Safe, CurrentRow, HasRow
  <2>3. ASSUME NEW q \in SyncRuns, ~Safe(u), InProgress(q), modified[u] =< syncRun[q].started,
               q # r
        PROVE  OnTheWay(q, u)'
    <3>1. OnTheWay(q, u)
      BY <1>3, <2>3 DEF AllCovered, Covered
    <3>2. /\ syncRun'[q].pc = syncRun[q].pc /\ syncRun'[q].toList = syncRun[q].toList
          /\ syncRun'[q].toPlan = syncRun[q].toPlan /\ syncRun'[q].seen = syncRun[q].seen
          /\ u \in syncRun[q].queue => u \in syncRun'[q].queue
          /\ syncRun'[q].built[u] = syncRun[q].built[u]
      BY <1>5, <2>3, PlannedOthers DEF OverlapInv
    <3> QED BY <1>2, <3>1, <3>2 DEF OnTheWay
  <2>4. ASSUME ~Safe(u), modified[u] =< syncRun[r].started
        PROVE  OnTheWay(r, u)'
    <3>1. OnTheWay(r, u) /\ ~(modified[u] =< syncRun[r].since)
      BY <1>3, <2>4 DEF AllCovered, Covered, InProgress
    <3>2. /\ syncRun'[r].pc = IF syncRun[r].toPlan = {s} THEN "fetching" ELSE "planning"
          /\ syncRun'[r].toPlan = syncRun[r].toPlan \ {s}
          /\ syncRun'[r].seen = syncRun[r].seen /\ syncRun'[r].built = syncRun[r].built
          /\ syncRun[r].queue \subseteq syncRun'[r].queue
          /\ SectionOf[u] = s /\ syncRun[r].seen[u] # Unlisted /\ NeedsFetch(syncRun[r], u)
               => u \in syncRun'[r].queue
      BY PlannedRun DEF OverlapInv
    <3>3. syncRun'[r].pc \in {"planning", "fetching"}
      BY <3>2
    <3>4. CASE u \in syncRun[r].queue \/ syncRun[r].built[u] # NothingBuilt
      BY <3>2, <3>3, <3>4 DEF OnTheWay
    <3>5. CASE SectionOf[u] \in syncRun[r].toPlan /\ syncRun[r].seen[u] = modified[u]
      <4>1. CASE SectionOf[u] = s
        <5>1. modified[u] \in Int /\ modified[u] > 0 /\ syncRun[r].since \in Nat
          BY <1>3 DEF InOneNote, OverlapInv, OverlapTypeOK, Removed, SyncRun
        <5>2. NeedsFetch(syncRun[r], u) /\ syncRun[r].seen[u] # Unlisted
          BY <3>1, <3>5, <5>1 DEF NeedsFetch, Unlisted
        <5> QED BY <3>2, <3>3, <4>1, <5>2 DEF OnTheWay
      <4>2. CASE SectionOf[u] # s
        BY <1>2, <3>2, <3>5, <4>2 DEF OnTheWay
      <4> QED BY <4>1, <4>2
    <3> QED BY <1>3, <3>1, <3>4, <3>5 DEF OnTheWay
  <2>5. ASSUME NEW q \in SyncRuns PROVE Covered(q, u)'
    BY <1>2, <1>3, <2>2, <2>3, <2>4 DEF AllCovered, Covered, SameTimes, InProgress
  <2> QED BY <1>2, <1>3, <2>2, <2>5 DEF AllCovered
<1> QED BY <1>4, <1>5

LEMMA BuildStaysCovered ==
  ASSUME OverlapInv, NEW r \in SyncRuns, NEW p \in SyncPages, BuildPage(r, p),
         NEW u \in SyncPages
  PROVE  AllCovered(u)'
<1> SUFFICES ASSUME InOneNote(u)', u \notin harmed'
             PROVE  AllCovered(u)'
  BY DEF AllCovered
<1>1. /\ UNCHANGED <<modified, rows, lastSyncedAt, harmed>>
      /\ \A q \in SyncRuns : q # r => syncRun'[q] = syncRun[q]
      /\ syncRun[r].pc = "fetching" /\ syncRun[r] \in SyncRun
  BY DEF BuildPage, OverlapInv, OverlapTypeOK
<1>2. InOneNote(u) /\ u \notin harmed /\ AllCovered(u)
  BY <1>1 DEF InOneNote, OverlapInv
<1>3. Safe(u)' <=> Safe(u)
  BY <1>1 DEF Safe, CurrentRow
<1>4. PICK content \in {modified[p], FetchError} :
        /\ content = FetchError \/ InOneNote(p)
        /\ syncRun' = [syncRun EXCEPT ![r] =
                         [syncRun[r] EXCEPT !.queue = @ \ {p}, !.built[p] = content]]
  BY DEF BuildPage
<1>5. content # NothingBuilt
  BY <1>4 DEF OverlapInv, OverlapTypeOK, InOneNote, NothingBuilt, FetchError, Removed
<1>6. /\ syncRun'[r].pc = "fetching"
      /\ syncRun'[r].since = syncRun[r].since /\ syncRun'[r].started = syncRun[r].started
      /\ u # p => syncRun'[r].built[u] = syncRun[r].built[u]
      /\ u = p => syncRun'[r].built[u] = content
      /\ u \in syncRun[r].queue /\ u # p => u \in syncRun'[r].queue
  BY <1>1, <1>4 DEF OverlapInv, OverlapTypeOK, SyncRun
<1>7. Covered(r, u)'
  BY <1>1, <1>2, <1>3, <1>5, <1>6 DEF AllCovered, Covered, OnTheWay, InProgress
<1> QED BY <1>1, <1>2, <1>3, <1>7, OthersStayCovered

\* A write that is not the page as it stands, nor an error, is one of content that was
\* fetched before the last edit: the edit is due to every run, or the page is harmed.
LEMMA ApplyStaysCovered ==
  ASSUME OverlapInv, NEW r \in SyncRuns, NEW p \in SyncPages, ApplyPage(r, p),
         NEW u \in SyncPages
  PROVE  AllCovered(u)'
<1> SUFFICES ASSUME InOneNote(u)', u \notin harmed'
             PROVE  AllCovered(u)'
  BY DEF AllCovered
<1> DEFINE content == syncRun[r].built[p]
<1>1. Works(r)
  BY DEF Works
<1>2. /\ modified' = modified /\ lastSyncedAt' = lastSyncedAt
      /\ \A q \in SyncRuns : SameTimes(q)
  BY <1>1, WorkKeepsTimes DEF OverlapInv
<1>3. InOneNote(u) /\ syncRun[r].pc = "fetching" /\ content # NothingBuilt
  BY <1>2 DEF InOneNote, ApplyPage
<1>4. /\ \A q \in SyncRuns : q # r => syncRun'[q] = syncRun[q]
      /\ syncRun'[r].pc = "fetching"
      /\ syncRun'[r].queue = syncRun[r].queue
      /\ u # p => syncRun'[r].built[u] = syncRun[r].built[u]
  BY <1>3 DEF ApplyPage, OverlapInv, OverlapTypeOK, SyncRun
<1>5. CASE u # p
  <2>1. u \notin harmed /\ AllCovered(u) /\ rows'[u] = rows[u]
    BY <1>5 DEF ApplyPage, OverlapInv, OverlapTypeOK
  <2>2. Safe(u)' <=> Safe(u)
    BY <1>2, <2>1 DEF Safe, CurrentRow
  <2>3. Covered(r, u)'
    BY <1>2, <1>3, <1>4, <1>5, <2>1, <2>2
    DEF AllCovered, Covered, OnTheWay, SameTimes, InProgress
  <2> QED BY <1>2, <1>3, <1>4, <2>1, <2>2, <2>3, OthersStayCovered
<1>6. CASE u = p /\ content \in {FetchError, modified[u]}
  <2>1. rows'[u] = AppliedRow(u, content) /\ rows[u] \in [status : RowStatus, content : Nat]
    BY <1>6 DEF ApplyPage, OverlapInv, OverlapTypeOK
  <2>2. Safe(u)'
    BY <1>2, <1>6, <2>1 DEF AppliedRow, Safe, CurrentRow
  <2> QED BY <2>2 DEF AllCovered, Covered
<1>7. CASE u = p /\ content \notin {FetchError, modified[u]}
  <2>1. r \notin overtaken
    BY <1>7 DEF ApplyPage
  <2>2. modified[u] \in Int /\ syncRun[r].started \in Nat
    BY DEF OverlapInv, OverlapTypeOK, Removed, SyncRun
  <2>3. modified[u] > syncRun[r].started
    BY <1>3, <1>7, <2>2 DEF OverlapInv, HoldsCurrent
  <2>4. DueToAll(u)
    BY <1>3, <2>1, <2>3, EditedSinceLastBegun DEF InProgress
  <2> QED BY <1>1, <2>4, DueStaysCovered DEF OverlapInv
<1> QED BY <1>5, <1>6, <1>7

LEMMA FinishStaysCovered ==
  ASSUME OverlapInv, NEW r \in SyncRuns, FinishSync(r), NEW u \in SyncPages
  PROVE  AllCovered(u)'
<1> SUFFICES ASSUME InOneNote(u)', u \notin harmed'
             PROVE  AllCovered(u)'
  BY DEF AllCovered
<1>1. /\ UNCHANGED <<modified, rows, harmed>>
      /\ \A q \in SyncRuns : q # r => syncRun'[q] = syncRun[q]
      /\ syncRun'[r] = NoSync
      /\ lastSyncedAt' = syncRun[r].started
  BY DEF FinishSync, SyncedAt, OverlapInv, OverlapTypeOK
<1>2. InOneNote(u) /\ u \notin harmed /\ AllCovered(u) /\ modified[u] \in Int /\ modified[u] > 0
  BY <1>1 DEF InOneNote, OverlapInv, OverlapTypeOK, Removed
<1>3. Safe(u)' <=> Safe(u)
  BY <1>1 DEF Safe, CurrentRow
<1>4. ~OnTheWay(r, u) /\ InProgress(r)
  BY DEF FinishSync, OnTheWay, InProgress
<1>5. modified'[u] =< lastSyncedAt' => Safe(u)'
  BY <1>1, <1>2, <1>3, <1>4 DEF AllCovered, Covered
<1>6. ASSUME NEW q \in SyncRuns PROVE Covered(q, u)'
  <2>1. CASE q = r
    BY <1>1, <1>2, <2>1 DEF Covered, InProgress, NoSync
  <2>2. CASE q # r
    BY <1>1, <1>2, <1>3, <2>2, RestIsCovered DEF AllCovered
  <2> QED BY <2>1, <2>2
<1> QED BY <1>5, <1>6 DEF AllCovered

----------------------------------------------------------------------------
(* The theorems *)

LEMMA OverlapInvInit == OverlapInit => OverlapInv
<1> SUFFICES ASSUME OverlapInit PROVE OverlapInv
  OBVIOUS
<1>1. OverlapTypeOK
  BY OverlapTypeInit
<1>2. \A r \in SyncRuns : /\ syncRun[r].pc = "idle"
                            /\ syncRun[r].started = 0 /\ syncRun[r].since = 0
  BY DEF OverlapInit, NoSync
<1>3. OverlapTimes /\ LastBegun
  BY <1>2 DEF OverlapInit, OverlapTimes, LastBegun, InProgress
<1>4. \A r \in SyncRuns : OverlapStages(r)
  BY <1>2 DEF OverlapStages
<1>5. \A p \in SyncPages : ~InOneNote(p)
  BY DEF OverlapInit, InOneNote
<1> QED BY <1>1, <1>3, <1>4, <1>5 DEF OverlapInv, HoldsCurrent, AllCovered

LEMMA OverlapInvStep == OverlapInv /\ [OverlapNext]_overlapVars => OverlapInv'
<1>1. ASSUME OverlapInv, UNCHANGED overlapVars PROVE OverlapInv'
  <2>1. OverlapTypeOK'
    BY <1>1, OverlapTypeStep DEF OverlapInv
  <2>2. OverlapTimes' /\ LastBegun'
    BY <1>1 DEF OverlapInv, OverlapTimes, LastBegun, InProgress, overlapVars
  <2>3. ASSUME NEW r \in SyncRuns PROVE OverlapStages(r)'
    BY <1>1 DEF OverlapInv, OverlapStages, overlapVars
  <2>4. ASSUME NEW r \in SyncRuns, NEW p \in SyncPages PROVE HoldsCurrent(r, p)'
    BY <1>1 DEF OverlapInv, HoldsCurrent, InOneNote, overlapVars
  <2>5. ASSUME NEW p \in SyncPages PROVE AllCovered(p)'
    <3>1. AllCovered(p)
      BY <1>1 DEF OverlapInv
    <3> QED BY <1>1, <3>1 DEF AllCovered, Covered, OnTheWay, InProgress, InOneNote, Safe,
            CurrentRow, overlapVars
  <2> QED BY <2>2, <2>3, <2>4, <2>5, <2>1 DEF OverlapInv
<1>2. ASSUME OverlapInv, OverlapNext PROVE OverlapInv'
  <2>1. OverlapTypeOK'
    BY <1>2, OverlapTypeStep DEF OverlapInv
  <2>2. OverlapTimes'
    BY <1>2, OverlapTimesStep DEF OverlapInv
  <2>3. LastBegun'
    BY <1>2, LastBegunStep DEF OverlapInv
  <2>4. ASSUME NEW r \in SyncRuns PROVE OverlapStages(r)'
    BY <1>2, OverlapStagesStep DEF OverlapInv
  <2>5. ASSUME NEW r \in SyncRuns, NEW p \in SyncPages PROVE HoldsCurrent(r, p)'
    BY <1>2, HoldsCurrentStep DEF OverlapInv
  <2>6. ASSUME NEW u \in SyncPages PROVE AllCovered(u)'
    BY <1>2, EditStaysCovered, QuietStaysCovered, ListStaysCovered, PlanStaysCovered,
       BuildStaysCovered, ApplyStaysCovered, FinishStaysCovered
    DEF OverlapNext
  <2> QED BY <2>1, <2>2, <2>3, <2>4, <2>5, <2>6 DEF OverlapInv
<1> QED BY <1>1, <1>2

(* However many runs of a notebook overlap, an edit is missed only on a page that an *)
(* overtaken run, or a list that left it out, has harmed since.                      *)
THEOREM MissedEditsHarmed == OverlapSpec => []MissedOnlyIfHarmed
<1>1. OverlapInit => OverlapInv
  BY OverlapInvInit
<1>2. OverlapInv /\ [OverlapNext]_overlapVars => OverlapInv'
  BY OverlapInvStep
<1>3. OverlapInv => MissedOnlyIfHarmed
  BY DEF OverlapInv, OverlapTypeOK, AllCovered, MissedOnlyIfHarmed, Removed
<1> QED BY <1>1, <1>2, <1>3, PTL DEF OverlapSpec

NoneOvertaken == overtaken = {}
NothingHarmed == harmed = {}
NothingOverlooked ==
  \A p \in SyncPages : InOneNote(p) => Safe(p) \/ modified[p] > lastSyncedAt

(* With no run overtaken and every list whole, no edit is missed. *)
THEOREM AloneMissesNothing ==
  ASSUME ~MayOmit
  PROVE  OverlapSpec /\ []NoneOvertaken => []NothingOverlooked
<1>1. OverlapInit => OverlapInv /\ NothingHarmed
  BY OverlapInvInit DEF OverlapInit, NothingHarmed
<1>2. NoneOvertaken /\ NothingHarmed /\ [OverlapNext]_overlapVars => NothingHarmed'
  <2>1. ASSUME harmed = {}, NEW r \in SyncRuns, NEW s \in SyncSections, ListSectionPages(r, s)
        PROVE  harmed' = {}
    BY <2>1 DEF ListSectionPages
  <2>2. ASSUME overtaken = {}, harmed = {}, NEW r \in SyncRuns, NEW s \in SyncSections,
               PlanSectionPages(r, s)
        PROVE  harmed' = {}
    BY <2>2 DEF PlanSectionPages
  <2>3. ASSUME overtaken = {}, harmed = {}, NEW r \in SyncRuns, NEW p \in SyncPages,
               ApplyPage(r, p)
        PROVE  harmed' = {}
    BY <2>3 DEF ApplyPage
  <2>4. ASSUME harmed = {}, NEW p \in SyncPages, EditPage(p) \/ RemovePageInOneNote(p)
        PROVE  harmed' = {}
    BY <2>4 DEF EditPage, RemovePageInOneNote
  <2>5. ASSUME harmed = {}, NEW r \in SyncRuns,
               \/ BeginSync(r) \/ ReadNotebook(r) \/ StoreSections(r)
               \/ FinishSync(r) \/ AbortSync(r)
        PROVE  harmed' = {}
    BY <2>5 DEF BeginSync, ReadNotebook, StoreSections, FinishSync, AbortSync
  <2>6. ASSUME harmed = {}, NEW r \in SyncRuns, NEW p \in SyncPages, BuildPage(r, p)
        PROVE  harmed' = {}
    BY <2>6 DEF BuildPage
  <2>7. ASSUME overtaken = {}, harmed = {}, OverlapNext PROVE harmed' = {}
    BY <2>1, <2>2, <2>3, <2>4, <2>5, <2>6, <2>7 DEF OverlapNext
  <2>8. ASSUME harmed = {}, UNCHANGED overlapVars PROVE harmed' = {}
    BY <2>8 DEF overlapVars
  <2> QED BY <2>7, <2>8 DEF NoneOvertaken, NothingHarmed
<1>3. OverlapInv /\ [OverlapNext]_overlapVars => OverlapInv'
  BY OverlapInvStep
<1>4. OverlapInv /\ NothingHarmed => NothingOverlooked
  BY DEF OverlapInv, OverlapTypeOK, AllCovered, Removed, NothingHarmed, NothingOverlooked
<1> QED BY <1>1, <1>2, <1>3, <1>4, PTL DEF OverlapSpec
=============================================================================
