----------------------------- MODULE GraphPaging -----------------------------
(***************************************************************************)
(* How a collection of OneNote (notebooks, a notebook's sections, a        *)
(* section's pages) is listed: GraphClient._get_all pages through it by    *)
(* $skip, while the user goes on changing it, and vouches for the result   *)
(* with the count that came with the first page.  Whoever asked deletes    *)
(* the rows of what a complete list does not contain.                      *)
(***************************************************************************)
EXTENDS Integers, Sequences, FiniteSets

LOCAL INSTANCE SequencesExt

CONSTANTS
  Members,   (* the ids a collection can contain                               *)
  Listed,    (* the collection at first, in the order Graph lists it           *)
  PageSize,  (* _GRAPH_LIST_PAGE_SIZE                                          *)
  MaxEdits   (* bound: how often the user changes the collection               *)

Unrepeated(seq) == \A i, j \in DOMAIN seq : seq[i] = seq[j] => i = j

ASSUME PagingAssumption ==
  /\ Listed \in Seq(Members) /\ Unrepeated(Listed)
  /\ PageSize \in Nat \ {0}
  /\ MaxEdits \in Nat

VARIABLES
  collection,  (* OneNote: the collection, in the order Graph lists it         *)
  listing,     (* the state of _get_all                                        *)
  lost,        (* history: what left the collection while it was listed        *)
  gained,      (* history: what joined it                                      *)
  moved,       (* history: what changed its place in it                        *)
  edits        (* how many changes there have been                             *)

pagingVars == <<collection, listing, lost, gained, moved, edits>>

NoCount == -1

----------------------------------------------------------------------------
(* OneNote, whose changes matter here while the list is made *)

Edited == listing.stage = "paging" /\ edits < MaxEdits /\ edits' = edits + 1

AddMember(m, i) ==
  /\ ~ \E j \in DOMAIN collection : collection[j] = m
  /\ i \in 1..(Len(collection) + 1)
  /\ Edited
  /\ collection' = InsertAt(collection, i, m)
  /\ gained' = gained \cup {m}
  /\ UNCHANGED <<listing, lost, moved>>

DeleteMember(i) ==
  /\ i \in DOMAIN collection
  /\ Edited
  /\ collection' = RemoveAt(collection, i)
  /\ lost' = lost \cup {collection[i]}
  /\ UNCHANGED <<listing, gained, moved>>

(* An edited page goes to another place in the list *)
MoveMember(i, j) ==
  /\ i \in DOMAIN collection /\ j \in DOMAIN collection \ {i}
  /\ Edited
  /\ collection' = InsertAt(RemoveAt(collection, i), j, collection[i])
  /\ moved' = moved \cup {collection[i]}
  /\ UNCHANGED <<listing, lost, gained>>

(* External: what Graph answers to $top=PageSize&$skip=skip *)
Served(skip) ==
  SubSeq(collection, skip + 1,
         IF skip + PageSize =< Len(collection) THEN skip + PageSize ELSE Len(collection))

----------------------------------------------------------------------------
(* GraphClient._get_all, one request a step *)

(* Mutant: a list that got no count is vouched for *)
CompleteWithoutCount(items, count) == count = NoCount \/ Len(items) >= count

(* Mutant: the count is not compared *)
CompleteWhenCounted(items, count) == count # NoCount

Complete(items, count) == count # NoCount /\ Len(items) >= count

LastPage(page) == Len(page) < PageSize

(* Mutant: $skip grows by less than a page *)
NextSkipOverlapping(skip) == skip + PageSize - 1
NextSkip(skip) == skip + PageSize

(* Only the first request asks for the count, and Graph may leave it out *)
GetPage(withCount) ==
  LET page == Served(listing.skip)
      count == IF listing.skip > 0 THEN listing.count
               ELSE IF withCount THEN Len(collection) ELSE NoCount
      items == listing.items \o page
  IN
  /\ listing.stage = "paging"
  /\ listing' =
       IF LastPage(page)
       THEN [listing EXCEPT !.stage = "returned", !.items = items, !.count = count,
                            !.complete = Complete(items, count)]
       ELSE [listing EXCEPT !.items = items, !.count = count, !.skip = NextSkip(@)]
  /\ UNCHANGED <<collection, lost, gained, moved, edits>>

(* _get gave up: the error reaches whoever asked for the list *)
PageUnavailable ==
  /\ listing.stage = "paging"
  /\ listing' = [listing EXCEPT !.stage = "raised"]
  /\ UNCHANGED <<collection, lost, gained, moved, edits>>

----------------------------------------------------------------------------
PagingInit ==
  /\ collection = Listed
  /\ listing = [stage |-> "paging", skip |-> 0, count |-> NoCount, items |-> <<>>, complete |-> FALSE]
  /\ lost = {} /\ gained = {} /\ moved = {}
  /\ edits = 0

PagingNext ==
  \/ \E withCount \in BOOLEAN : GetPage(withCount)
  \/ PageUnavailable
  \/ \E m \in Members, i \in 1..(Cardinality(Members) + 1) : AddMember(m, i)
  \/ \E i, j \in 1..Cardinality(Members) : DeleteMember(i) \/ MoveMember(i, j)

PagingSpec == PagingInit /\ [][PagingNext]_pagingVars

----------------------------------------------------------------------------
Contents(seq) == {seq[i] : i \in DOMAIN seq}
Returned == listing.stage = "returned"
Missed == {m \in Contents(collection) : m \notin gained /\ m \notin Contents(listing.items)}

(* Every variable holds what the code can store there. *)
PagingTypeOK ==
  /\ collection \in Seq(Members)
  /\ listing.stage \in {"paging", "returned", "raised"}
  /\ listing.skip \in Nat /\ listing.count \in Nat \cup {NoCount}
  /\ listing.items \in Seq(Members) /\ listing.complete \in BOOLEAN
  /\ lost \cup gained \cup moved \subseteq Members
  /\ edits \in 0..MaxEdits

(* A collection that nobody touches is listed exactly, each member once and in
   order, and vouched for whenever the count came. *)
QuietListIsExact ==
  Returned /\ lost \cup gained \cup moved = {} =>
    /\ listing.items = collection
    /\ listing.complete = (listing.count # NoCount)

(* A list that is vouched for, and so has rows deleted for it, misses something
   that was there all along only if the collection changed its order, or both
   lost and gained members, under the requests: the count is not taken in by
   anything less. *)
CompleteMissesOnlyUnderSwap ==
  Returned /\ listing.complete /\ Missed # {} =>
    moved # {} \/ (lost # {} /\ gained # {})

(* A list repeats an id, which the upsert of its rows cannot take, only if
   something was added or moved while it was made. *)
RepeatsOnlyUnderGrowth ==
  Returned /\ ~ Unrepeated(listing.items) => moved \cup gained # {}
=============================================================================
