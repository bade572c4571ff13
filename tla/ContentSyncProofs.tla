-------------------------- MODULE ContentSyncProofs --------------------------
(***************************************************************************)
(* What ContentSync promises, for any sections, pages and bounds.          *)
(***************************************************************************)
EXTENDS ContentSync, TLAPS

----------------------------------------------------------------------------
(* Types *)

\* The run that has not begun has the type of a run.
LEMMA IdleTyped == Idle \in Run
BY DEF Idle, Run, NotListed, NotBuilt, Never

\* A page of the notebook has a time.
LEMMA LiveTyped == TypeOK => \A p \in Pages : Live(p) => remote[p] \in Nat
BY DEF TypeOK, Live, Deleted

\* The updates the steps make to the record of the run.
LEMMA UpdatedRunTyped ==
  ASSUME NEW r \in Run, NEW t \in Nat, NEW u \in Nat,
         NEW S \in SUBSET Sections, NEW T \in SUBSET Sections
  PROVE  /\ [r EXCEPT !.pc = "begun", !.since = t, !.started = u] \in Run
         /\ [r EXCEPT !.pc = "listing", !.sections = S, !.gone = T,
                      !.toList = S, !.toPlan = S] \in Run
BY DEF Run

\* The user's actions keep every variable in its type.
LEMMA UserEditsTyped == TypeOK /\ UserEdits => TypeOK'
<1> SUFFICES ASSUME TypeOK, UserEdits PROVE TypeOK'
    OBVIOUS
<1> USE ContentAssumption
<1>1. ASSUME NEW s \in Sections, CreateSection(s) PROVE TypeOK'
      BY <1>1 DEF TypeOK, CreateSection, tableVars
<1>2. ASSUME NEW s \in Sections, DeleteSection(s) PROVE TypeOK'
      BY <1>2 DEF TypeOK, DeleteSection, tableVars, Deleted
<1>3. ASSUME NEW p \in Pages, WritePage(p) PROVE TypeOK'
      BY <1>3 DEF TypeOK, WritePage, tableVars
<1>4. ASSUME NEW p \in Pages, DeletePage(p) PROVE TypeOK'
      BY <1>4 DEF TypeOK, DeletePage, tableVars, Deleted
<1> QED BY <1>1, <1>2, <1>3, <1>4 DEF UserEdits

\* The steps of a run keep every variable in its type.
LEMMA RunStepTyped == TypeOK /\ (RunStep \/ Abort) => TypeOK'
<1> SUFFICES ASSUME TypeOK, RunStep \/ Abort PROVE TypeOK'
    OBVIOUS
<1> USE ContentAssumption, IdleTyped
<1>1. CASE Begin
  <2>1. run' \in Run
    <3>1. lastSynced \in Nat /\ clock \in Nat
          BY DEF TypeOK
    <3> QED BY <1>1, <3>1, UpdatedRunTyped DEF Begin
  <2> QED BY <1>1, <2>1 DEF Begin, TypeOK, remoteVars, tableVars
<1>2. CASE ListSections
  <2>1. run' \in Run
    <3>1. PICK listed \in SUBSET {s \in Sections : SectionLive(s)}, complete \in BOOLEAN :
            run' = IF listed = {} THEN Idle
                   ELSE [run EXCEPT !.pc = "listing", !.sections = listed,
                                    !.gone = StaleSections(listed, complete),
                                    !.toList = listed, !.toPlan = listed]
          BY <1>2 DEF ListSections
    <3>2. listed \in SUBSET Sections /\ StaleSections(listed, complete) \in SUBSET Sections
          BY DEF TypeOK, StaleSections
    <3>3. run \in Run
          BY DEF TypeOK
    <3> QED BY <3>1, <3>2, <3>3, UpdatedRunTyped
  <2>2. faults' \in 0 .. MaxFaults
        BY <1>2 DEF ListSections, Enumerates, Fault, TypeOK
  <2> QED BY <1>2, <2>1, <2>2 DEF ListSections, TypeOK, remoteVars, tableVars
<1>3. ASSUME NEW s \in Sections, ListPages(s) PROVE TypeOK'
  <2>1. CASE SectionLive(s)
    <3>1. PICK listed \in SUBSET {p \in Pages : Home[p] = s /\ Live(p)}, complete \in BOOLEAN :
            /\ Enumerates({p \in Pages : Home[p] = s /\ Live(p)}, listed, complete)
            /\ run' = [run EXCEPT
                 !.toList = @ \ {s},
                 !.pc = IF run.toList = {s} THEN "planning" ELSE @,
                 !.whole = IF complete THEN @ \cup {s} ELSE @,
                 !.seen = [p \in Pages |-> IF p \in listed THEN remote[p] ELSE @[p]]]
          BY <1>3, <2>1 DEF ListPages
    <3>2. [p \in Pages |-> IF p \in listed THEN remote[p] ELSE run.seen[p]]
             \in [Pages -> Nat]
          BY LiveTyped DEF TypeOK, Run
    <3>3. run' \in Run
          BY <3>1, <3>2 DEF TypeOK, Run
    <3>4. faults' \in 0 .. MaxFaults
          BY <3>1 DEF Enumerates, Fault, TypeOK
    <3> QED BY <1>3, <3>3, <3>4 DEF ListPages, TypeOK, remoteVars, tableVars
  <2>2. CASE ~SectionLive(s)
        BY <1>3, <2>2 DEF ListPages, TypeOK, remoteVars, tableVars
  <2> QED BY <2>1, <2>2
<1>4. ASSUME NEW s \in Sections, PlanSection(s) PROVE TypeOK'
  <2>1. run' \in Run
        BY <1>4 DEF PlanSection, TypeOK, Run
  <2>2. pages' \in [Pages -> Page]
        BY <1>4 DEF PlanSection, TypeOK, Page, Absent, NewPage, NoContent, PageSyncStatus
  <2>3. sections' \subseteq Sections
        BY <1>4 DEF PlanSection, TypeOK, Run
  <2> QED BY <1>4, <2>1, <2>2, <2>3 DEF PlanSection, TypeOK, remoteVars
<1>5. ASSUME NEW p \in Pages, BuildContent(p) PROVE TypeOK'
  <2>1. run' \in Run
    <3>1. PICK content \in Nat :
            run' = [run EXCEPT !.queue = @ \ {p}, !.built[p] = content]
          BY <1>5, LiveTyped DEF BuildContent, Error
    <3> QED BY <3>1 DEF TypeOK, Run
  <2>2. faults' \in 0 .. MaxFaults
        BY <1>5 DEF BuildContent, Fault, TypeOK
  <2> QED BY <1>5, <2>1, <2>2 DEF BuildContent, TypeOK, remoteVars, tableVars
<1>6. ASSUME NEW p \in Pages, ApplyContent(p) PROVE TypeOK'
  <2>1. run' \in Run
        BY <1>6 DEF ApplyContent, TypeOK, Run
  <2>2. pages[p] \in Page /\ run.built[p] \in Nat
        BY <1>6 DEF ApplyContent, TypeOK, Run
  <2>3. Applied(p) \in Page
        BY <2>2 DEF Applied, Page, PageSyncStatus
  <2>4. pages' \in [Pages -> Page]
        BY <1>6, <2>3 DEF ApplyContent, TypeOK
  <2> QED BY <1>6, <2>1, <2>4 DEF ApplyContent, TypeOK, remoteVars
<1>7. CASE Finish
  <2>1. lastSynced' \in Nat /\ lastModified' \in Nat
        BY <1>7 DEF Finish, SyncedAt, SetLastModified, TypeOK, Run
  <2> QED BY <1>7, <2>1 DEF Finish, TypeOK, remoteVars
<1>8. CASE Abort
      BY <1>8 DEF Abort, Fault, TypeOK, remoteVars, tableVars
<1> QED BY <1>1, <1>2, <1>3, <1>4, <1>5, <1>6, <1>7, <1>8 DEF RunStep

LEMMA TypeInit == Init => TypeOK
BY ContentAssumption, IdleTyped
DEF Init, TypeOK, Unborn, Absent, NoContent, Page, PageSyncStatus, Never

LEMMA TypeStep == TypeOK /\ [Next]_vars => TypeOK'
<1>1. TypeOK /\ UNCHANGED vars => TypeOK'
      BY DEF TypeOK, vars, remoteVars, tableVars
<1> QED BY <1>1, UserEditsTyped, RunStepTyped DEF Next

\* Every variable of the notebook, of the tables and of the run keeps its type.
THEOREM ContentTypeCorrect == Spec => []TypeOK
BY TypeInit, TypeStep, PTL DEF Spec

----------------------------------------------------------------------------
(* What is deleted *)

\* What the tables and the run know of OneNote has existed there, and what a run takes
\* for deleted has been deleted: ids are never reused, so a section or a page that a
\* complete list leaves out, and that has a row, can only be gone.
GoneInv ==
  /\ \A p \in Pages : Live(p) => SectionLive(Home[p])
  /\ \A s \in sections \cup run.sections : remoteSection[s] # "unborn"
  /\ \A s \in run.gone : remoteSection[s] = "deleted"
  /\ \A p \in Pages : Stored(p) \/ Listed(p) => remote[p] # Unborn
  /\ \A p \in Pages : Stored(p) /\ StalePage(p) => remote[p] = Deleted

LEMMA GoneInit == Init => GoneInv
BY ContentAssumption
DEF Init, GoneInv, Live, SectionLive, Stored, Listed, StalePage, Absent, Idle, Unborn,
    NotListed

LEMMA GoneUser == TypeOK /\ GoneInv /\ UserEdits => GoneInv'
<1> SUFFICES ASSUME TypeOK, GoneInv, UserEdits PROVE GoneInv'
    OBVIOUS
<1> USE ContentAssumption DEF GoneInv, Live, SectionLive, Stored, Listed, StalePage,
    Unborn, Deleted, tableVars
<1>1. ASSUME NEW s \in Sections, CreateSection(s) PROVE GoneInv'
      BY <1>1 DEF CreateSection, TypeOK, Run
<1>2. ASSUME NEW s \in Sections, DeleteSection(s) PROVE GoneInv'
      BY <1>2 DEF DeleteSection, TypeOK, Run
<1>3. ASSUME NEW p \in Pages, WritePage(p) PROVE GoneInv'
      BY <1>3 DEF WritePage, TypeOK, Run
<1>4. ASSUME NEW p \in Pages, DeletePage(p) PROVE GoneInv'
      BY <1>4 DEF DeletePage, TypeOK, Run
<1> QED BY <1>1, <1>2, <1>3, <1>4 DEF UserEdits

\* When a run ends, what it knew of OneNote goes with it.
LEMMA GoneIdle ==
  GoneInv /\ run' = Idle /\ UNCHANGED <<remoteVars, sections, pages>> => GoneInv'
BY DEF GoneInv, Live, SectionLive, Stored, Listed, StalePage, Idle, NotListed, remoteVars

LEMMA GoneRun == TypeOK /\ GoneInv /\ (RunStep \/ Abort) => GoneInv'
<1> SUFFICES ASSUME TypeOK, GoneInv, RunStep \/ Abort PROVE GoneInv'
    OBVIOUS
<1> USE ContentAssumption
<1>1. CASE Begin
      BY <1>1 DEF Begin, GoneInv, Live, SectionLive, Stored, Listed, StalePage, Idle,
                  NotListed, remoteVars, tableVars
<1>2. CASE ListSections
  <2>1. CASE run' = Idle
        BY <1>2, <2>1, GoneIdle DEF ListSections, tableVars
  <2>2. CASE run' # Idle
    <3>1. PICK listed \in SUBSET {s \in Sections : SectionLive(s)}, complete \in BOOLEAN :
            /\ Enumerates({s \in Sections : SectionLive(s)}, listed, complete)
            /\ run' = [run EXCEPT !.pc = "listing", !.sections = listed,
                                  !.gone = StaleSections(listed, complete),
                                  !.toList = listed, !.toPlan = listed]
          BY <1>2, <2>2 DEF ListSections
    <3>2. /\ run'.sections = listed /\ run'.gone = StaleSections(listed, complete)
          /\ run'.seen = run.seen /\ run'.whole = run.whole
          BY <3>1 DEF TypeOK, Run
    <3>3. \A s \in StaleSections(listed, complete) : remoteSection[s] = "deleted"
          BY <3>1 DEF StaleSections, Enumerates, GoneInv, TypeOK, SectionLive
    <3> QED BY <1>2, <3>2, <3>3 DEF ListSections, GoneInv, Live, SectionLive, Stored,
                Listed, StalePage, remoteVars, tableVars
  <2> QED BY <2>1, <2>2
<1>3. ASSUME NEW s \in Sections, ListPages(s) PROVE GoneInv'
  <2>1. CASE ~SectionLive(s)
        BY <1>3, <2>1, GoneIdle DEF ListPages, tableVars
  <2>2. CASE SectionLive(s)
    <3>1. PICK listed \in SUBSET {p \in Pages : Home[p] = s /\ Live(p)}, complete \in BOOLEAN :
            /\ Enumerates({p \in Pages : Home[p] = s /\ Live(p)}, listed, complete)
            /\ run' = [run EXCEPT
                 !.toList = @ \ {s},
                 !.pc = IF run.toList = {s} THEN "planning" ELSE @,
                 !.whole = IF complete THEN @ \cup {s} ELSE @,
                 !.seen = [p \in Pages |-> IF p \in listed THEN remote[p] ELSE @[p]]]
          BY <1>3, <2>2 DEF ListPages
    <3>2. /\ run'.sections = run.sections /\ run'.gone = run.gone
          /\ run'.whole = IF complete THEN run.whole \cup {s} ELSE run.whole
          /\ run'.seen = [p \in Pages |-> IF p \in listed THEN remote[p] ELSE run.seen[p]]
          BY <3>1 DEF TypeOK, Run
    <3>3. /\ UNCHANGED <<remote, remoteSection, sections, pages>>
          BY <1>3 DEF ListPages, remoteVars, tableVars
    <3>4. \A p \in Pages : Stored(p)' \/ Listed(p)' => remote'[p] # Unborn
          BY <3>1, <3>2, <3>3 DEF GoneInv, Stored, Listed, Live, Unborn, NotListed
    <3>5. ASSUME NEW p \in Pages, Stored(p)', StalePage(p)' PROVE remote'[p] = Deleted
      <4>1. CASE StalePage(p)
            BY <3>3, <3>5, <4>1 DEF GoneInv, Stored
      <4>2. CASE ~StalePage(p)
        <5>1. ~Listed(p)
              BY <3>1, <3>2, <3>5 DEF StalePage, Listed, Live, NotListed
        <5>2. Home[p] = s /\ complete /\ p \notin listed
              BY <3>1, <3>2, <3>5, <4>2, <5>1 DEF StalePage, Listed, Live, NotListed
        <5>3. ~Live(p)
              BY <3>1, <5>2 DEF Enumerates
        <5> QED BY <3>3, <3>5, <5>3 DEF GoneInv, Stored, Live, Unborn, Deleted, TypeOK
      <4> QED BY <4>1, <4>2
    <3> QED BY <3>2, <3>3, <3>4, <3>5 DEF GoneInv, Live, SectionLive
  <2> QED BY <2>1, <2>2
<1>4. ASSUME NEW s \in Sections, PlanSection(s) PROVE GoneInv'
  <2>1. /\ run'.sections = run.sections /\ run'.gone = run.gone
        /\ run'.seen = run.seen /\ run'.whole = run.whole
        BY <1>4 DEF PlanSection, TypeOK, Run
  <2>2. \A p \in Pages : Stored(p)' => Stored(p) \/ Listed(p)
        BY <1>4 DEF PlanSection, Stored, Absent, NewPage, TypeOK
  <2>3. sections' \subseteq sections \cup run.sections
        BY <1>4 DEF PlanSection
  <2> QED BY <1>4, <2>1, <2>2, <2>3 DEF PlanSection, GoneInv, Live, SectionLive,
              StalePage, Listed, remoteVars
<1>5. ASSUME NEW p \in Pages, BuildContent(p) PROVE GoneInv'
  <2>1. /\ run'.sections = run.sections /\ run'.gone = run.gone
        /\ run'.seen = run.seen /\ run'.whole = run.whole
        BY <1>5 DEF BuildContent, TypeOK, Run
  <2> QED BY <1>5, <2>1 DEF BuildContent, GoneInv, Live, SectionLive, Stored, Listed,
              StalePage, remoteVars, tableVars
<1>6. ASSUME NEW p \in Pages, ApplyContent(p) PROVE GoneInv'
  <2>1. /\ run'.sections = run.sections /\ run'.gone = run.gone
        /\ run'.seen = run.seen /\ run'.whole = run.whole
        BY <1>6 DEF ApplyContent, TypeOK, Run
  <2>2. \A q \in Pages : Stored(q)' => Stored(q)
        BY <1>6 DEF ApplyContent, Stored, TypeOK
  <2> QED BY <1>6, <2>1, <2>2 DEF ApplyContent, GoneInv, Live, SectionLive, Listed,
              StalePage, remoteVars
<1>7. CASE Finish
      BY <1>7, GoneIdle DEF Finish
<1>8. CASE Abort
      BY <1>8, GoneIdle DEF Abort, tableVars
<1> QED BY <1>1, <1>2, <1>3, <1>4, <1>5, <1>6, <1>7, <1>8 DEF RunStep

LEMMA GoneStep == TypeOK /\ GoneInv /\ [Next]_vars => GoneInv'
<1>1. GoneInv /\ UNCHANGED vars => GoneInv'
      BY DEF GoneInv, Live, SectionLive, Stored, Listed, StalePage, vars, remoteVars,
             tableVars
<1> QED BY <1>1, GoneUser, GoneRun DEF Next

\* A row goes only with its section, or because a complete list left it out.
LEMMA DeletedRows ==
  ASSUME TypeOK, GoneInv, Next, NEW p \in Pages, Stored(p), pages'[p].status = "absent"
  PROVE  ~Live(p)
<1>1. ASSUME NEW s \in Sections, PlanSection(s) PROVE ~Live(p)
  <2>1. Home[p] \in run.gone \/ StalePage(p)
        BY <1>1 DEF PlanSection, Stored, Absent, NewPage, TypeOK
  <2> QED BY <2>1, ContentAssumption DEF GoneInv, Live, SectionLive, Deleted
<1>2. ASSUME NEW q \in Pages, ApplyContent(q) PROVE FALSE
  <2>1. pages[q] \in Page
        BY DEF TypeOK
  <2>2. Applied(q).status # "absent"
        BY <2>1 DEF Applied, Page
  <2> QED BY <1>2, <2>2 DEF ApplyContent, Stored, TypeOK
<1>3. ASSUME UNCHANGED pages PROVE FALSE
      BY <1>3 DEF Stored
<1> QED BY <1>1, <1>2, <1>3
    DEF Next, RunStep, UserEdits, CreateSection, DeleteSection, WritePage, DeletePage,
        Begin, ListSections, ListPages, BuildContent, Finish, Abort, tableVars

\* No run deletes the row of a page that is still in OneNote, however short Graph's lists
\* are, whatever the user does between a list and the deletes, wherever runs break off.
THEOREM LivePagesKept == Spec => KeepsLivePages
<1>1. TypeOK /\ GoneInv /\ [Next]_vars
        => [\A p \in Pages : Stored(p) /\ pages'[p].status = "absent" => ~Live(p)]_vars
      BY DeletedRows
<1> QED BY <1>1, TypeInit, TypeStep, GoneInit, GoneStep, PTL DEF Spec, KeepsLivePages

----------------------------------------------------------------------------
(* What is served *)

\* No time lies ahead of the clock, content is never newer than the page, and what has
\* been fetched never older than the row it goes to.
ContentInv ==
  \A p \in Pages :
    /\ remote[p] <= clock /\ pages[p].content <= clock /\ run.built[p] <= clock
    /\ Live(p) => pages[p].content <= remote[p] /\ run.built[p] <= remote[p]
    /\ run.built[p] > Error => pages[p].content <= run.built[p]
    /\ pages[p].status = "FRESH" => pages[p].content > NoContent

LEMMA ContentInit == Init => ContentInv
BY DEF Init, ContentInv, Live, Absent, Idle, NoContent, NotBuilt, Error, Unborn

LEMMA ContentUser == TypeOK /\ ContentInv /\ UserEdits => ContentInv'
<1> SUFFICES ASSUME TypeOK, ContentInv, UserEdits, NEW p \in Pages
             PROVE  ContentInv!(p)'
    BY DEF ContentInv
<1>0. /\ remote[p] \in Nat \cup {Deleted} /\ clock \in Nat /\ pages[p].content \in Nat
      /\ run.built[p] \in Nat \cup {NotBuilt}
      BY ContentAssumption DEF TypeOK, Page, Run
<1>1. ContentInv!(p)
      BY DEF ContentInv
<1>2. UNCHANGED <<pages, run>>
      BY DEF UserEdits, CreateSection, DeleteSection, WritePage, DeletePage, tableVars
<1>3. \/ clock' = clock /\ remote'[p] \in {remote[p], Deleted}
      \/ clock' = clock + 1 /\ remote'[p] \in {remote[p], clock + 1}
      BY DEF UserEdits, CreateSection, DeleteSection, WritePage, DeletePage, TypeOK
<1> QED BY <1>0, <1>1, <1>2, <1>3 DEF Live, Deleted, NotBuilt

\* A step of a run that writes no row and fetches nothing, or ends the run.
LEMMA ContentFrame ==
  ASSUME TypeOK, ContentInv, UNCHANGED <<clock, remote, pages>>,
         run'.built = run.built \/ run' = Idle
  PROVE  ContentInv'
BY DEF ContentInv, TypeOK, Page, Run, Live, Idle, NotBuilt, Error, Deleted

LEMMA ContentRun == TypeOK /\ ContentInv /\ (RunStep \/ Abort) => ContentInv'
<1> SUFFICES ASSUME TypeOK, ContentInv, RunStep \/ Abort PROVE ContentInv'
    OBVIOUS
<1>1. CASE Begin
  <2>1. [p \in Pages |-> NotBuilt] = run'.built
        BY <1>1 DEF Begin, Idle
  <2> QED BY <1>1, <2>1
      DEF Begin, ContentInv, TypeOK, Page, Live, NotBuilt, Error, remoteVars, tableVars, Deleted
<1>2. CASE ListSections
  <2>1. run'.built = run.built \/ run' = Idle
        BY <1>2 DEF ListSections, TypeOK, Run
  <2> QED BY <1>2, <2>1, ContentFrame DEF ListSections, remoteVars, tableVars
<1>3. ASSUME NEW s \in Sections, ListPages(s) PROVE ContentInv'
  <2>1. run'.built = run.built \/ run' = Idle
        BY <1>3 DEF ListPages, TypeOK, Run
  <2> QED BY <1>3, <2>1, ContentFrame DEF ListPages, remoteVars, tableVars
<1>4. ASSUME NEW s \in Sections, PlanSection(s) PROVE ContentInv'
  <2>1. run'.built = run.built
        BY <1>4 DEF PlanSection, TypeOK, Run
  <2>2. \A p \in Pages : pages'[p] \in {pages[p], Absent, NewPage}
        BY <1>4 DEF PlanSection
  <2>3. UNCHANGED <<clock, remote>>
        BY <1>4 DEF PlanSection, remoteVars
  <2> SUFFICES ASSUME NEW p \in Pages PROVE ContentInv!(p)'
      BY DEF ContentInv
  <2>4. /\ ContentInv!(p) /\ clock \in Nat /\ remote[p] \in Nat \cup {Deleted}
        /\ run.built[p] \in Nat \cup {NotBuilt}
        BY ContentAssumption DEF ContentInv, TypeOK, Run
  <2>5. CASE pages'[p] = pages[p]
        BY <2>1, <2>3, <2>4, <2>5 DEF Live
  <2>6. CASE pages'[p] \in {Absent, NewPage}
        BY <2>1, <2>3, <2>4, <2>6
        DEF Live, Absent, NewPage, NoContent, Error, NotBuilt, Deleted
  <2> QED BY <2>2, <2>5, <2>6
<1>5. ASSUME NEW q \in Pages, BuildContent(q) PROVE ContentInv'
  <2>1. PICK content \in {remote[q], Error} :
          /\ content = Error \/ Live(q)
          /\ run' = [run EXCEPT !.queue = @ \ {q}, !.built[q] = content]
        BY <1>5 DEF BuildContent
  <2>2. run'.built = [run.built EXCEPT ![q] = content]
        BY <2>1 DEF TypeOK, Run
  <2>3. UNCHANGED <<clock, remote, pages>>
        BY <1>5 DEF BuildContent, remoteVars, tableVars
  <2> SUFFICES ASSUME NEW p \in Pages PROVE ContentInv!(p)'
      BY DEF ContentInv
  <2>4. /\ ContentInv!(p) /\ clock \in Nat /\ remote[p] \in Nat \cup {Deleted}
        /\ pages[p].content \in Nat /\ run.built \in [Pages -> Nat \cup {NotBuilt}]
        BY ContentAssumption DEF ContentInv, TypeOK, Page, Run
  <2>5. CASE p = q
        BY <2>1, <2>2, <2>3, <2>4, <2>5 DEF Live, Error, Deleted
  <2>6. CASE p # q
        BY <2>2, <2>3, <2>4, <2>6 DEF Live
  <2> QED BY <2>5, <2>6
<1>6. ASSUME NEW q \in Pages, ApplyContent(q) PROVE ContentInv'
  <2>1. run'.built = [run.built EXCEPT ![q] = NotBuilt]
        BY <1>6 DEF ApplyContent, TypeOK, Run
  <2>2. UNCHANGED <<clock, remote>>
        BY <1>6 DEF ApplyContent, remoteVars
  <2>3. pages' = pages \/ pages' = [pages EXCEPT ![q] = Applied(q)]
        BY <1>6 DEF ApplyContent
  <2> SUFFICES ASSUME NEW p \in Pages PROVE ContentInv!(p)'
      BY DEF ContentInv
  <2>4. /\ ContentInv!(p) /\ clock \in Nat /\ remote[p] \in Nat \cup {Deleted}
        /\ pages[p] \in Page /\ run.built \in [Pages -> Nat \cup {NotBuilt}]
        BY ContentAssumption DEF ContentInv, TypeOK, Run
  <2>5. CASE p = q /\ pages'[p] = Applied(p)
    <3>1. run.built[p] \in Nat
          BY <1>6, <2>4, <2>5 DEF ApplyContent
    <3>2. CASE run.built[p] = Error
          BY <2>1, <2>2, <2>4, <2>5, <3>2 DEF Applied, Page, Live, NotBuilt, Error, Deleted
    <3>3. CASE run.built[p] # Error
          BY <2>1, <2>2, <2>4, <2>5, <3>1, <3>3
          DEF Applied, Page, Live, NotBuilt, Error, Deleted, NoContent
    <3> QED BY <3>2, <3>3
  <2>6. CASE pages'[p] = pages[p]
        BY <2>1, <2>2, <2>4, <2>6 DEF Page, Live, NotBuilt, Error, Deleted
  <2> QED BY <2>3, <2>5, <2>6 DEF TypeOK
<1>7. CASE Finish
      BY <1>7, ContentFrame DEF Finish, remoteVars
<1>8. CASE Abort
      BY <1>8, ContentFrame DEF Abort, remoteVars, tableVars
<1> QED BY <1>1, <1>2, <1>3, <1>4, <1>5, <1>6, <1>7, <1>8 DEF RunStep

LEMMA ContentStep == TypeOK /\ ContentInv /\ [Next]_vars => ContentInv'
<1>1. ContentInv /\ UNCHANGED vars => ContentInv'
      BY DEF ContentInv, Live, vars, remoteVars, tableVars
<1> QED BY <1>1, ContentUser, ContentRun DEF Next

\* What happens to the content of a row that stays.
LEMMA ContentKept ==
  ASSUME TypeOK, ContentInv, ContentInv', Next, NEW p \in Pages, Stored(p),
         pages'[p].status # "absent"
  PROVE  /\ pages'[p].content >= pages[p].content
         /\ pages'[p].status = "FRESH" => pages'[p].content > NoContent
<1>1. pages[p] \in Page /\ pages[p].content \in Nat
      BY DEF TypeOK, Page
<1>2. ASSUME pages'[p] = pages[p] PROVE pages'[p].content >= pages[p].content
      BY <1>1, <1>2
<1>3. ASSUME NEW s \in Sections, PlanSection(s)
      PROVE  pages'[p].content >= pages[p].content
      BY <1>2, <1>3 DEF PlanSection, Stored, Absent
<1>4. ASSUME NEW q \in Pages, ApplyContent(q)
      PROVE  pages'[p].content >= pages[p].content
  <2>1. run.built[p] \in Nat \cup {NotBuilt}
        BY DEF TypeOK, Run
  <2>2. CASE p = q /\ pages'[p] = Applied(p)
        BY <1>1, <1>4, <2>1, <2>2 DEF ApplyContent, ContentInv, Applied, Page, Error, NotBuilt
  <2> QED BY <1>2, <1>4, <2>2 DEF ApplyContent, TypeOK
<1>5. pages'[p].content >= pages[p].content
      BY <1>2, <1>3, <1>4
      DEF Next, RunStep, UserEdits, CreateSection, DeleteSection, WritePage, DeletePage,
          Begin, ListSections, ListPages, BuildContent, Finish, Abort, tableVars
<1> QED BY <1>5 DEF ContentInv

\* What is served of a page only ever becomes newer: an error keeps what there was, and
\* nothing fetched before an edit overwrites what was fetched after it.
THEOREM ServedContentAdvances == Spec => ContentOnlyAdvances
<1> DEFINE Advances ==
      \A p \in Pages : Stored(p) /\ pages'[p].status # "absent"
        => /\ pages'[p].content >= pages[p].content
           /\ pages'[p].status = "FRESH" => pages'[p].content > NoContent
<1>1. TypeOK /\ ContentInv /\ ContentInv' /\ [Next]_vars => [Advances]_vars
      BY ContentKept
<1> QED BY <1>1, TypeInit, TypeStep, ContentInit, ContentStep, PTL
        DEF Spec, ContentOnlyAdvances

----------------------------------------------------------------------------
(* What is missed *)

\* A row the rest of the run leaves current, or FAILED.
Settled(p) ==
  /\ Stored(p)
  /\ \/ Current(p) \/ pages[p].status = "FAILED"
     \/ p \in run.queue
     \/ run.built[p] \in {remote[p], Error}

\* A page not edited since the run began is on its way through the run.
Covered(p) ==
  Live(p) /\ remote[p] <= run.started =>
    /\ run.pc = "listing" =>
         Home[p] \in run.toPlan /\ (Home[p] \in run.toList \/ run.seen[p] = remote[p])
    /\ run.pc = "planning" =>
         run.seen[p] = remote[p] /\ (Home[p] \in run.toPlan \/ Settled(p))
    /\ run.pc = "fetching" => Settled(p)

\* What has been fetched is what the page still is, unless it was edited since the run
\* began.
Fetched(p) ==
  /\ run.built[p] # NotBuilt => run.pc = "fetching"
  /\ run.built[p] > Error /\ Live(p) =>
       remote[p] = run.built[p] \/ remote[p] > run.started

NotMissed(p) == Live(p) => Current(p) \/ WillFetch(p)

\* The run's times.
TimesInv ==
  /\ lastSynced <= clock
  /\ run.pc # "idle" =>
       run.since = lastSynced /\ lastSynced <= run.started /\ run.started <= clock

MissInv == TimesInv /\ \A p \in Pages : NotMissed(p) /\ Covered(p) /\ Fetched(p)

LEMMA MissInit == Init => MissInv
BY DEF Init, MissInv, TimesInv, NotMissed, Covered, Fetched, Live, Idle, Unborn, Never

\* The types of all that a page's conditions speak of.
LEMMA PageTyped ==
  ASSUME TypeOK, NEW p \in Pages
  PROVE  /\ clock \in Nat /\ lastSynced \in Nat /\ remote[p] \in Nat \cup {Deleted}
         /\ pages[p] \in Page /\ run.built[p] \in Nat \cup {NotBuilt}
         /\ run.seen[p] \in Nat /\ run.started \in Nat /\ run.since \in Nat
         /\ Home[p] \in Sections
BY ContentAssumption DEF TypeOK, Run

LEMMA MissUser == TypeOK /\ MissInv /\ UserEdits => MissInv'
<1> SUFFICES ASSUME TypeOK, MissInv, UserEdits PROVE MissInv'
    OBVIOUS
<1>1. UNCHANGED <<pages, run, lastSynced>>
      BY DEF UserEdits, CreateSection, DeleteSection, WritePage, DeletePage, tableVars
<1>2. clock \in Nat /\ lastSynced \in Nat /\ run.started \in Nat
      BY ContentAssumption DEF TypeOK, Run
<1>3. clock' \in {clock, clock + 1}
      BY DEF UserEdits, CreateSection, DeleteSection, WritePage, DeletePage
<1>4. TimesInv'
      BY <1>1, <1>2, <1>3 DEF MissInv, TimesInv
<1>5. ASSUME NEW p \in Pages PROVE (NotMissed(p) /\ Covered(p) /\ Fetched(p))'
  <2>1. NotMissed(p) /\ Covered(p) /\ Fetched(p) /\ TimesInv
        BY DEF MissInv
  <2>2. remote'[p] \in {remote[p], Deleted} \/ remote'[p] = clock + 1
        BY DEF UserEdits, CreateSection, DeleteSection, WritePage, DeletePage, TypeOK
  <2>3. CASE remote'[p] = remote[p]
        BY <1>1, <2>1, <2>3
        DEF NotMissed, Covered, Fetched, Live, Current, WillFetch, Settled, Stored
  <2>4. CASE remote'[p] = Deleted
        BY <1>1, <2>1, <2>4 DEF NotMissed, Covered, Fetched, Live, Deleted
  <2>5. CASE remote'[p] = clock + 1
    <3>1. run.pc # "idle" => ~(remote'[p] <= run.started)
          BY <1>2, <2>1, <2>5 DEF TimesInv
    <3>2. remote'[p] > lastSynced
          BY <1>2, <2>1, <2>5 DEF TimesInv
    <3>3. remote'[p] > run.started \/ run.pc = "idle"
          BY <1>2, <2>5, <3>1
    <3> QED BY <1>1, <2>1, <3>1, <3>2, <3>3
            DEF NotMissed, Covered, Fetched, WillFetch, NotBuilt, Error
  <2> QED BY <2>2, <2>3, <2>4, <2>5
<1> QED BY <1>4, <1>5 DEF MissInv

\* A run that breaks off leaves the promise to the next one.
LEMMA MissIdle ==
  ASSUME TypeOK, MissInv, run' = Idle, UNCHANGED <<remoteVars, tableVars>>
  PROVE  MissInv'
BY DEF MissInv, TimesInv, NotMissed, Covered, Fetched, Idle, NotBuilt, Error, Live, Current,
       WillFetch, remoteVars, tableVars

LEMMA MissBegin == TypeOK /\ MissInv /\ Begin => MissInv'
<1> SUFFICES ASSUME TypeOK, MissInv, Begin PROVE MissInv'
    OBVIOUS
<1>1. run' = [pc |-> "begun", since |-> lastSynced, started |-> clock, sections |-> {},
              gone |-> {}, toList |-> {}, toPlan |-> {}, whole |-> {}, queue |-> {},
              seen |-> [p \in Pages |-> NotListed], built |-> [p \in Pages |-> NotBuilt]]
      BY DEF Begin, Idle
<1>2. UNCHANGED <<remoteVars, tableVars>> /\ clock \in Nat
      BY ContentAssumption DEF Begin, TypeOK
<1> QED BY <1>1, <1>2 DEF MissInv, TimesInv, NotMissed, Covered, Fetched, NotBuilt, Error,
            Live, Current, WillFetch, remoteVars, tableVars

\* Without short lists every section is listed, so every page is in one of them.
LEMMA MissListSections ==
  ASSUME ~ShortLists, TypeOK, GoneInv, MissInv, ListSections
  PROVE  MissInv'
<1>1. UNCHANGED <<remoteVars, tableVars>>
      BY DEF ListSections
<1>2. CASE run' = Idle
      BY <1>1, <1>2, MissIdle
<1>3. CASE run' # Idle
  <2>1. PICK listed \in SUBSET {s \in Sections : SectionLive(s)}, complete \in BOOLEAN :
          /\ Enumerates({s \in Sections : SectionLive(s)}, listed, complete)
          /\ run' = [run EXCEPT !.pc = "listing", !.sections = listed,
                                !.gone = StaleSections(listed, complete),
                                !.toList = listed, !.toPlan = listed]
        BY <1>3 DEF ListSections
  <2>2. /\ run'.pc = "listing" /\ run'.toList = listed /\ run'.toPlan = listed
        /\ run'.since = run.since /\ run'.started = run.started
        /\ run'.built = run.built
        BY <2>1 DEF TypeOK, Run
  <2>3. listed = {s \in Sections : SectionLive(s)}
        BY <2>1 DEF Enumerates
  <2>4. run.pc = "begun"
        BY DEF ListSections
  <2>5. TimesInv'
        BY <1>1, <2>2, <2>4 DEF MissInv, TimesInv, remoteVars, tableVars
  <2>6. ASSUME NEW p \in Pages PROVE (NotMissed(p) /\ Covered(p) /\ Fetched(p))'
    <3>1. Live(p) => Home[p] \in listed
          BY <2>3, ContentAssumption DEF GoneInv
    <3> QED BY <1>1, <2>2, <2>4, <3>1 DEF MissInv, NotMissed, Covered, Fetched, Live,
                Current, WillFetch, NotBuilt, Error, remoteVars, tableVars
  <2> QED BY <2>5, <2>6 DEF MissInv
<1> QED BY <1>2, <1>3

\* Without short lists every page of the section is listed, with its time.
LEMMA MissListPages ==
  ASSUME ~ShortLists, TypeOK, MissInv, NEW s \in Sections, ListPages(s)
  PROVE  MissInv'
<1>1. UNCHANGED <<remoteVars, tableVars>>
      BY DEF ListPages
<1>2. CASE ~SectionLive(s)
      BY <1>1, <1>2, MissIdle DEF ListPages
<1>3. CASE SectionLive(s)
  <2>1. PICK listed \in SUBSET {p \in Pages : Home[p] = s /\ Live(p)}, complete \in BOOLEAN :
          /\ Enumerates({p \in Pages : Home[p] = s /\ Live(p)}, listed, complete)
          /\ run' = [run EXCEPT
               !.toList = @ \ {s},
               !.pc = IF run.toList = {s} THEN "planning" ELSE @,
               !.whole = IF complete THEN @ \cup {s} ELSE @,
               !.seen = [p \in Pages |-> IF p \in listed THEN remote[p] ELSE @[p]]]
        BY <1>3 DEF ListPages
  <2>2. /\ run'.pc = IF run.toList = {s} THEN "planning" ELSE run.pc
        /\ run'.toList = run.toList \ {s} /\ run'.toPlan = run.toPlan
        /\ run'.since = run.since /\ run'.started = run.started
        /\ run'.built = run.built
        /\ run'.seen = [p \in Pages |-> IF p \in listed THEN remote[p] ELSE run.seen[p]]
        BY <2>1 DEF TypeOK, Run
  <2>3. listed = {p \in Pages : Home[p] = s /\ Live(p)}
        BY <2>1 DEF Enumerates
  <2>4. run.pc = "listing" /\ s \in run.toList
        BY DEF ListPages
  <2>5. TimesInv'
        BY <1>1, <2>2, <2>4 DEF MissInv, TimesInv, remoteVars, tableVars
  <2>6. ASSUME NEW p \in Pages PROVE (NotMissed(p) /\ Covered(p) /\ Fetched(p))'
    <3>1. NotMissed(p) /\ Covered(p) /\ Fetched(p)
          BY DEF MissInv
    <3>2. UNCHANGED <<remote, pages, lastSynced>>
          BY <1>1 DEF remoteVars, tableVars
    <3>3. NotMissed(p)'
          BY <3>1, <3>2 DEF NotMissed, Live, Current, WillFetch
    <3>4. Fetched(p)'
          BY <2>2, <2>4, <3>1, <3>2 DEF Fetched, Live, NotBuilt, Error
    <3>5. Live(p) /\ Home[p] = s => run'.seen[p] = remote[p]
          BY <2>2, <2>3
    <3>6. Live(p) /\ run.seen[p] = remote[p] => run'.seen[p] = remote[p]
          BY <2>2
    <3>7. Covered(p)'
          BY <2>2, <2>4, <3>1, <3>2, <3>5, <3>6 DEF Covered, Live
    <3> QED BY <3>3, <3>4, <3>7
  <2> QED BY <2>5, <2>6 DEF MissInv
<1> QED BY <1>2, <1>3

\* A page whose section is planned is queued, or is current already: its last edit is
\* not later than last_synced_at and it is not FAILED.
LEMMA MissPlanSection ==
  ASSUME TypeOK, GoneInv, MissInv, NEW s \in Sections, PlanSection(s)
  PROVE  MissInv'
<1>1. /\ run'.pc = IF run.toPlan = {s} THEN "fetching" ELSE run.pc
      /\ run'.toPlan = run.toPlan \ {s}
      /\ run'.since = run.since /\ run'.started = run.started
      /\ run'.built = run.built /\ run'.seen = run.seen
      /\ run'.queue = run.queue
            \cup {p \in Pages : Home[p] = s /\ Listed(p) /\ NeedsContent(p)}
      BY DEF PlanSection, TypeOK, Run
<1>2. UNCHANGED <<clock, remote, lastSynced>> /\ run.pc = "planning" /\ s \in run.toPlan
      BY DEF PlanSection, remoteVars
<1>3. TimesInv'
      BY <1>1, <1>2 DEF MissInv, TimesInv
<1>4. ASSUME NEW p \in Pages PROVE (NotMissed(p) /\ Covered(p) /\ Fetched(p))'
  <2>1. NotMissed(p) /\ Covered(p) /\ Fetched(p) /\ TimesInv
        BY DEF MissInv
  <2>2. Fetched(p)'
        BY <1>1, <1>2, <2>1 DEF Fetched, Live, NotBuilt, Error
  <2>3. CASE ~Live(p)
        BY <1>2, <2>2, <2>3 DEF NotMissed, Covered, Live
  <2>4. CASE Live(p)
    <3>1. Home[p] \notin run.gone /\ (Stored(p) => ~StalePage(p))
          BY <2>4, ContentAssumption DEF GoneInv, Live, SectionLive, Deleted
    <3>2. Stored(p) => pages'[p] = pages[p]
          BY <3>1 DEF PlanSection, Stored
    <3>3. ~Stored(p) => pages'[p] \in {pages[p], NewPage, Absent}
          BY DEF PlanSection
    <3>4. NotMissed(p)'
      <4>1. CASE Stored(p)
            BY <1>2, <2>1, <3>2, <4>1 DEF NotMissed, Live, Current, WillFetch
      <4>2. CASE ~Stored(p)
        <5>1. remote[p] > lastSynced
              BY <2>1, <2>4, <4>2 DEF NotMissed, Current, WillFetch, Stored
        <5> QED BY <1>2, <5>1 DEF NotMissed, WillFetch
      <4> QED BY <4>1, <4>2
    <3>5. ASSUME remote[p] <= run.started, Home[p] = s PROVE Settled(p)'
      <4>1. run.seen[p] = remote[p] /\ Listed(p)
            BY <1>2, <2>1, <2>4, <3>5 DEF Covered, Listed, NotListed, Live
      <4>2. Stored(p)'
            BY <3>1, <3>2, <3>5, <4>1 DEF PlanSection, Stored, NewPage, StalePage
      <4>3. CASE NeedsContent(p)
            BY <1>1, <3>5, <4>1, <4>2, <4>3 DEF Settled
      <4>4. CASE ~NeedsContent(p)
        <5>1. ~WillFetch(p)
              BY <1>2, <2>1, <4>1, <4>4, PageTyped DEF NeedsContent, WillFetch, TimesInv
        <5>2. Current(p) /\ Stored(p)
              BY <2>1, <2>4, <5>1 DEF NotMissed, Current, Stored
        <5> QED BY <1>2, <3>2, <4>2, <5>2 DEF Settled, Current
      <4> QED BY <4>3, <4>4
    <3>6. ASSUME Settled(p) PROVE Settled(p)'
          BY <1>1, <1>2, <3>2, <3>6 DEF Settled, Stored, Current, Error
    <3>7. Covered(p)'
          BY <1>1, <1>2, <2>1, <2>4, <3>5, <3>6 DEF Covered, Live
    <3> QED BY <2>2, <3>4, <3>7
  <2> QED BY <2>3, <2>4
<1> QED BY <1>3, <1>4 DEF MissInv

LEMMA MissBuildContent ==
  ASSUME TypeOK, MissInv, NEW q \in Pages, BuildContent(q)
  PROVE  MissInv'
<1>1. PICK content \in {remote[q], Error} :
        /\ content = Error \/ Live(q)
        /\ run' = [run EXCEPT !.queue = @ \ {q}, !.built[q] = content]
      BY DEF BuildContent
<1>2. /\ run'.built = [run.built EXCEPT ![q] = content] /\ run'.queue = run.queue \ {q}
      /\ run'.pc = run.pc /\ run'.since = run.since /\ run'.started = run.started
      BY <1>1 DEF TypeOK, Run
<1>3. UNCHANGED <<clock, remote, pages, lastSynced>> /\ run.pc = "fetching"
      BY DEF BuildContent, remoteVars, tableVars
<1>4. TimesInv'
      BY <1>2, <1>3 DEF MissInv, TimesInv
<1>5. ASSUME NEW p \in Pages PROVE (NotMissed(p) /\ Covered(p) /\ Fetched(p))'
  <2>1. NotMissed(p) /\ Covered(p) /\ Fetched(p) /\ run.built \in [Pages -> Nat \cup {NotBuilt}]
        BY DEF MissInv, TypeOK, Run
  <2>2. NotMissed(p)'
        BY <1>3, <2>1 DEF NotMissed, Live, Current, WillFetch
  <2>3. CASE p = q
    <3>1. run'.built[p] = content
          BY <1>2, <2>1, <2>3
    <3>2. Fetched(p)'
          BY <1>1, <1>2, <1>3, <2>3, <3>1 DEF Fetched, Live, Error
    <3>3. Covered(p)'
          BY <1>1, <1>2, <1>3, <2>1, <2>3, <3>1 DEF Covered, Settled, Live, Stored
    <3> QED BY <2>2, <3>2, <3>3
  <2>4. CASE p # q
    <3>1. run'.built[p] = run.built[p] /\ (p \in run'.queue <=> p \in run.queue)
          BY <1>2, <2>1, <2>4
    <3> QED BY <1>2, <1>3, <2>1, <2>2, <3>1
            DEF Fetched, Covered, Settled, Live, Stored, Current
  <2> QED BY <2>3, <2>4
<1> QED BY <1>4, <1>5 DEF MissInv

LEMMA MissApplyContent ==
  ASSUME TypeOK, MissInv, NEW q \in Pages, ApplyContent(q)
  PROVE  MissInv'
<1>1. /\ run'.built = [run.built EXCEPT ![q] = NotBuilt] /\ run'.queue = run.queue
      /\ run'.pc = run.pc /\ run'.since = run.since /\ run'.started = run.started
      BY DEF ApplyContent, TypeOK, Run
<1>2. UNCHANGED <<clock, remote, lastSynced>> /\ run.pc = "fetching" /\ run.built[q] # NotBuilt
      BY DEF ApplyContent, remoteVars
<1>3. TimesInv'
      BY <1>1, <1>2 DEF MissInv, TimesInv
<1>4. ASSUME NEW p \in Pages PROVE (NotMissed(p) /\ Covered(p) /\ Fetched(p))'
  <2>1. /\ NotMissed(p) /\ Covered(p) /\ Fetched(p) /\ TimesInv
        /\ run.built \in [Pages -> Nat \cup {NotBuilt}] /\ pages \in [Pages -> Page]
        BY DEF MissInv, TypeOK, Run
  <2>2. CASE p # q
    <3>1. run'.built[p] = run.built[p] /\ pages'[p] = pages[p]
          BY <1>1, <2>1, <2>2 DEF ApplyContent
    <3> QED BY <1>1, <1>2, <2>1, <3>1
            DEF NotMissed, Fetched, Covered, Settled, Live, Stored, Current, WillFetch
  <2>3. CASE p = q
    <3>1. run'.built[p] = NotBuilt
          BY <1>1, <2>1, <2>3
    <3>2. Fetched(p)'
          BY <3>1 DEF Fetched, NotBuilt, Error
    <3>3. CASE ~Stored(p)
      <4>1. pages' = pages
            BY <2>3, <3>3 DEF ApplyContent
      <4>2. Covered(p)'
            BY <1>1, <1>2, <2>1, <3>3, <4>1 DEF Covered, Settled, Live
      <4> QED BY <1>2, <2>1, <3>2, <4>1, <4>2 DEF NotMissed, Live, Current, WillFetch
    <3>4. CASE Stored(p)
      <4>1. pages'[p] = Applied(p)
            BY <2>1, <2>3, <3>4 DEF ApplyContent
      <4>2. CASE run.built[p] = Error
        <5>1. pages'[p].status = "FAILED"
              BY <2>1, <4>1, <4>2 DEF Applied, Page
        <5> QED BY <1>1, <1>2, <3>2, <5>1
                DEF NotMissed, Covered, Settled, Stored, WillFetch, Live
      <4>3. CASE run.built[p] # Error
        <5>1. run.built[p] > Error
              BY <1>2, <2>1, <2>3, <4>3 DEF Error, NotBuilt
        <5>2. pages'[p] = [status |-> "FRESH", content |-> run.built[p]]
              BY <4>1, <4>3 DEF Applied
        <5>3. CASE Live(p) /\ remote[p] = run.built[p]
              BY <1>1, <1>2, <3>2, <5>2, <5>3
              DEF NotMissed, Covered, Settled, Stored, Current, Live
        <5>4. CASE Live(p) /\ remote[p] > run.started
          <6>1. remote[p] > lastSynced /\ ~(remote[p] <= run.started)
                BY <1>2, <2>1, <5>4, PageTyped DEF TimesInv, Deleted
          <6> QED BY <1>1, <1>2, <3>2, <6>1 DEF NotMissed, Covered, WillFetch
        <5>5. CASE ~Live(p)
              BY <1>2, <3>2, <5>5 DEF NotMissed, Covered, Live
        <5> QED BY <2>1, <5>1, <5>3, <5>4, <5>5 DEF Fetched
      <4> QED BY <4>2, <4>3
    <3> QED BY <3>3, <3>4
  <2> QED BY <2>2, <2>3
<1> QED BY <1>3, <1>4 DEF MissInv

\* When nothing is left to fetch, the time the run began is safe to write down.
LEMMA MissFinish ==
  ASSUME TypeOK, MissInv, Finish
  PROVE  MissInv'
<1>1. UNCHANGED <<clock, remote, pages>> /\ run' = Idle /\ lastSynced' = run.started
      BY DEF Finish, SyncedAt, remoteVars
<1>2. run.pc = "fetching" /\ run.queue = {} /\ \A p \in Pages : run.built[p] = NotBuilt
      BY DEF Finish
<1>3. TimesInv'
      BY <1>1, <1>2 DEF MissInv, TimesInv, Idle
<1>4. ASSUME NEW p \in Pages PROVE (NotMissed(p) /\ Covered(p) /\ Fetched(p))'
  <2>1. Covered(p)' /\ Fetched(p)'
        BY <1>1 DEF Covered, Fetched, Idle, NotBuilt, Error
  <2>2. CASE Live(p) /\ remote[p] <= run.started
    <3>1. Settled(p) /\ remote[p] > 0
          BY <1>2, <2>2 DEF MissInv, Covered, Live
    <3>2. Current(p) \/ pages[p].status = "FAILED"
          BY <1>2, <3>1, PageTyped DEF Settled, NotBuilt, Error, Deleted
    <3> QED BY <1>1, <2>1, <3>2 DEF NotMissed, Current, WillFetch
  <2>3. CASE ~(Live(p) /\ remote[p] <= run.started)
        BY <1>1, <2>1, <2>3, PageTyped DEF NotMissed, WillFetch, Live, Deleted
  <2> QED BY <2>2, <2>3
<1> QED BY <1>3, <1>4 DEF MissInv

LEMMA MissStep ==
  ASSUME ~ShortLists
  PROVE  TypeOK /\ GoneInv /\ MissInv /\ [Next]_vars => MissInv'
<1> SUFFICES ASSUME TypeOK, GoneInv, MissInv, [Next]_vars PROVE MissInv'
    OBVIOUS
<1>1. CASE Abort
      BY <1>1, MissIdle DEF Abort
<1>2. CASE UNCHANGED vars
      BY <1>2 DEF MissInv, TimesInv, NotMissed, Covered, Fetched, Settled, Live, Stored,
                  Current, WillFetch, vars, remoteVars, tableVars
<1>3. CASE RunStep
      BY <1>3, MissBegin, MissListSections, MissListPages, MissPlanSection,
         MissBuildContent, MissApplyContent, MissFinish DEF RunStep
<1> QED BY <1>1, <1>2, <1>3, MissUser DEF Next

\* Where Graph's lists leave nothing out, no edit is ever missed: whatever is edited
\* during a run and wherever runs break off, each page is current, or selected next time.
THEOREM NoEditMissed ==
  ASSUME ~ShortLists
  PROVE  Spec => []NothingMissed
<1>1. MissInv => NothingMissed
      BY DEF MissInv, NotMissed, NothingMissed
<1> QED BY <1>1, TypeInit, TypeStep, GoneInit, GoneStep, MissInit, MissStep, PTL DEF Spec
=============================================================================
