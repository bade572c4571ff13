-------------------------- MODULE GraphReadingProofs --------------------------
(***************************************************************************)
(* What reading from Graph promises.  For every layout of a page, and      *)
(* whatever fails while it is built, a FRESH row has the text that needs   *)
(* no recognition.  For every list, page size and run of edits meanwhile,  *)
(* a paged list is exact while nothing changes, and goes wrong only in the *)
(* ways that the edits explain.                                            *)
(***************************************************************************)
EXTENDS PageContent, GraphPaging, SequenceTheorems, FiniteSetTheorems, TLAPS

LOCAL INSTANCE SequencesExt

----------------------------------------------------------------------------
(* The content of a page *)

Builds ==
  [stage : {"idle", "images", "composing", "extracting"}, strokes : BOOLEAN,
   fetched : SUBSET Blocks, text : SUBSET Pieces, toExtract : SUBSET Attachments]
PageRecords == [status : {"PENDING", "FRESH", "FAILED"}, content : SUBSET Pieces]

LEMMA NoBuildTyped == NoBuild \in Builds
BY DEF NoBuild, Builds

(* What the response, the canvas and the attachments give are pieces. *)
LEMMA TextTyped ==
  ASSUME PageTypeOK
  PROVE  /\ {<<b, "typed">> : b \in TextBlocks} \subseteq Pieces
         /\ \A S \in SUBSET Blocks : Recognised(Canvas(S)) \subseteq Pieces
         /\ \A d \in Attachments : PdfText(d) \subseteq Pieces
<1>1. {<<b, "typed">> : b \in TextBlocks} \subseteq Pieces
  BY DEF TextBlocks, Pieces
<1>2. ASSUME NEW S \in SUBSET Blocks PROVE Recognised(Canvas(S)) \subseteq Pieces
  BY DEF Recognised, Canvas, InkBlocks, Pieces
<1>3. ASSUME NEW d \in Attachments PROVE PdfText(d) \subseteq Pieces
  BY DEF PdfText, Recognised, Pieces
<1> QED BY <1>1, <1>2, <1>3

LEMMA PageTypeStep == PageTypeOK /\ [PageNext]_pageVars => PageTypeOK'
<1> SUFFICES ASSUME PageTypeOK, [PageNext]_pageVars PROVE PageTypeOK'
  OBVIOUS
<1> USE DEF Builds, PageRecords
<1>1. build \in Builds /\ stored \in PageRecords
  BY DEF PageTypeOK
<1>2. Failed \in PageRecords
  BY <1>1 DEF Failed
<1>3. ASSUME build' \in Builds, stored' \in PageRecords, UNCHANGED <<body, pdfs, vision>>
      PROVE  PageTypeOK'
  BY <1>3 DEF PageTypeOK, Pieces
<1> HIDE DEF Builds, PageRecords
<1>4. CASE FailPage \/ AbandonPage \/ GetNoContent
  BY <1>1, <1>2, <1>3, <1>4, NoBuildTyped DEF FailPage, AbandonPage, GetNoContent
<1>5. CASE GetContent
  <2>1. PICK inkml \in BOOLEAN : build' = [Parsed(inkml) EXCEPT !.stage = "images"]
    BY <1>5 DEF GetContent
  <2>2. {<<b, "typed">> : b \in TextBlocks} \subseteq Pieces
    BY TextTyped
  <2>3. (inkml /\ InkBlocks # {}) \in BOOLEAN
    BY Zenon
  <2>4. build' \in Builds
    BY <2>1, <2>2, <2>3 DEF Parsed, NoBuild, Builds
  <2> QED BY <1>1, <1>3, <1>5, <2>4 DEF GetContent
<1>6. CASE FetchImages
  <2>1. build' \in Builds
    BY <1>1, <1>6 DEF FetchImages, ImageBlocks, Builds
  <2> QED BY <1>1, <1>3, <1>6, <2>1 DEF FetchImages
<1>7. CASE ReadComposite
  <2>1. PICK drawn \in SUBSET build.fetched :
          build' = [build EXCEPT !.stage = "extracting", !.text = @ \cup Recognised(Canvas(drawn))]
    BY <1>7 DEF ReadComposite
  <2>2. Recognised(Canvas(drawn)) \subseteq Pieces
    <3>1. drawn \in SUBSET Blocks
      BY <1>1 DEF Builds
    <3> QED BY <3>1, TextTyped
  <2>3. build' \in Builds
    BY <1>1, <2>1, <2>2 DEF Builds
  <2> QED BY <1>1, <1>3, <1>7, <2>3 DEF ReadComposite
<1>8. ASSUME NEW d \in Attachments, ExtractPdf(d) PROVE PageTypeOK'
  <2>1. PdfText(d) \subseteq Pieces
    BY TextTyped
  <2>2. build' \in Builds
    BY <1>1, <1>8, <2>1 DEF ExtractPdf, Builds
  <2> QED BY <1>1, <1>3, <1>8, <2>2 DEF ExtractPdf
<1>9. CASE StoreContent
  <2>1. stored' \in PageRecords
    BY <1>1, <1>9 DEF StoreContent, Builds, PageRecords
  <2> QED BY <1>3, <1>9, <2>1, NoBuildTyped DEF StoreContent
<1>10. CASE UNCHANGED pageVars
  BY <1>1, <1>3, <1>10 DEF pageVars
<1> QED BY <1>4, <1>5, <1>6, <1>7, <1>8, <1>9, <1>10 DEF PageNext

(* PageRecords and results hold what the code can store there. *)
THEOREM PageTypeCorrect == PageSpec => []PageTypeOK
<1>1. PageInit => PageTypeOK
  BY NoBuildTyped DEF PageInit, PageTypeOK, Builds
<1> QED BY <1>1, PageTypeStep, PTL DEF PageSpec

----------------------------------------------------------------------------
(* The text of the blocks, from the moment the page is parsed *)
HasTyped(text) == \A b \in TextBlocks : <<b, "typed">> \in text

(* The text of the attachments, except those still to be extracted *)
HasEmbedded(text, toExtract) ==
  \A d \in Attachments \ toExtract : pdfs[d].embedded => <<d, "embedded">> \in text

PageInv ==
  /\ build.stage # "idle" => HasTyped(build.text) /\ HasEmbedded(build.text, build.toExtract)
  /\ stored.status = "FRESH" => HasTyped(stored.content) /\ HasEmbedded(stored.content, {})

LEMMA PageStep == PageTypeOK /\ PageInv /\ [PageNext]_pageVars => PageInv'
<1> SUFFICES ASSUME PageTypeOK, PageInv, [PageNext]_pageVars PROVE PageInv'
  OBVIOUS
<1>0. build \in Builds /\ stored \in PageRecords
  BY DEF PageTypeOK, Builds, PageRecords
<1>1. UNCHANGED <<body, pdfs, vision>>
  BY DEF PageNext, pageVars, FailPage, AbandonPage, GetNoContent, GetContent, FetchImages,
         ReadComposite, ExtractPdf, StoreContent
<1>2. TextBlocks' = TextBlocks
  BY <1>1 DEF TextBlocks
<1> USE DEF HasTyped, HasEmbedded
<1>3. CASE FailPage \/ AbandonPage \/ GetNoContent
  BY <1>0, <1>1, <1>2, <1>3
     DEF PageInv, FailPage, AbandonPage, GetNoContent, NoBuild, Failed, Builds, PageRecords
<1>4. CASE GetContent
  <2>1. PICK inkml \in BOOLEAN : build' = [Parsed(inkml) EXCEPT !.stage = "images"]
    BY <1>4 DEF GetContent
  <2>2. build'.text = {<<b, "typed">> : b \in TextBlocks} /\ build'.toExtract = Attachments
    BY <2>1 DEF Parsed, NoBuild
  <2> QED BY <1>1, <1>2, <1>4, <2>2 DEF PageInv, GetContent
<1>5. CASE FetchImages
  <2>1. build.stage # "idle" /\ build'.text = build.text /\ build'.toExtract = build.toExtract
    BY <1>0, <1>5 DEF FetchImages, Builds
  <2> QED BY <1>1, <1>2, <1>5, <2>1 DEF PageInv, FetchImages
<1>6. CASE ReadComposite
  <2>1. build.stage # "idle" /\ build.text \subseteq build'.text /\ build'.toExtract = build.toExtract
    BY <1>0, <1>6 DEF ReadComposite, Builds
  <2> QED BY <1>1, <1>2, <1>6, <2>1 DEF PageInv, ReadComposite
<1>7. ASSUME NEW d \in Attachments, ExtractPdf(d) PROVE PageInv'
  <2>1. /\ build.stage # "idle" /\ build'.text = build.text \cup PdfText(d)
        /\ build'.toExtract = build.toExtract \ {d}
    BY <1>0, <1>7 DEF ExtractPdf, Builds
  <2>2. pdfs[d].embedded => <<d, "embedded">> \in PdfText(d)
    BY DEF PdfText
  <2> QED BY <1>1, <1>2, <1>7, <2>1, <2>2 DEF PageInv, ExtractPdf
<1>8. CASE StoreContent
  <2>1. stored'.content = build.text /\ build'.stage = "idle"
    BY <1>8 DEF StoreContent, NoBuild
  <2> QED BY <1>1, <1>2, <1>8, <2>1 DEF PageInv, StoreContent
<1>9. CASE UNCHANGED pageVars
  BY <1>2, <1>9 DEF PageInv, pageVars
<1> QED BY <1>3, <1>4, <1>5, <1>6, <1>7, <1>8, <1>9 DEF PageNext

(* A FRESH row has the typed text of every block that holds nothing else and
   the embedded text of every PDF, whatever images, ink, scans, endpoints or
   earlier attempts failed (_build_page_content_result and what it calls). *)
THEOREM FreshTextKept == PageSpec => []FreshPagesKeepTheirText
<1>1. PageInit => PageInv
  BY DEF PageInit, PageInv, NoBuild
<1>2. PageTypeOK /\ PageInv => FreshPagesKeepTheirText
  <2> SUFFICES ASSUME PageTypeOK, PageInv, stored.status = "FRESH"
               PROVE  (Typed \ Shadowed) \cup Embedded \subseteq stored.content
    BY DEF FreshPagesKeepTheirText
  <2>1. ASSUME NEW b \in Blocks, body[b].typed, <<b, "typed">> \notin Shadowed
        PROVE  b \in TextBlocks
    BY <2>1 DEF Shadowed, TextBlocks
  <2>2. Typed \ Shadowed \subseteq stored.content
    BY <2>1 DEF Typed, PageInv, HasTyped
  <2>3. Embedded \subseteq stored.content
    BY DEF Embedded, PageInv, HasEmbedded
  <2> QED BY <2>2, <2>3
<1> QED BY <1>1, <1>2, PageStep, PageTypeCorrect, PTL DEF PageSpec

----------------------------------------------------------------------------
(* Paged lists: sequences *)

(* A part of a sequence *)
LEMMA PartOf ==
  ASSUME NEW S, NEW s \in Seq(S), NEW m \in Nat \ {0}, NEW n \in Nat, n =< Len(s)
  PROVE  /\ SubSeq(s, m, n) \in Seq(S)
         /\ Len(SubSeq(s, m, n)) = IF m =< n THEN n - m + 1 ELSE 0
         /\ \A j \in 1..(n - m + 1) : SubSeq(s, m, n)[j] = s[m + j - 1]
<1>1. \A j \in m..n : s[j] \in S
  BY LenProperties, ElementOfSeq
<1> QED BY <1>1, SubSeqProperties

(* `new` is s with e put in at i. *)
Inserts(s, i, e, new, S) ==
  /\ new \in Seq(S) /\ Len(new) = Len(s) + 1
  /\ \A j \in 1..(Len(s) + 1) : new[j] = IF j < i THEN s[j] ELSE IF j = i THEN e ELSE s[j - 1]

(* A sequence with an element put in at i *)
LEMMA InsertedAt ==
  ASSUME NEW S, NEW s \in Seq(S), NEW e \in S, NEW i \in 1..(Len(s) + 1)
  PROVE  /\ InsertAt(s, i, e) \in Seq(S)
         /\ Len(InsertAt(s, i, e)) = Len(s) + 1
         /\ \A j \in 1..(Len(s) + 1) :
              InsertAt(s, i, e)[j] = IF j < i THEN s[j] ELSE IF j = i THEN e ELSE s[j - 1]
<1> DEFINE front == SubSeq(s, 1, i - 1)
           back == SubSeq(s, i, Len(s))
           most == front \o <<e>>
<1>1. Len(s) \in Nat /\ i - 1 \in Nat /\ i \in Nat \ {0}
  BY LenProperties
<1>2. /\ front \in Seq(S) /\ Len(front) = i - 1
      /\ \A j \in 1..(i - 1) : front[j] = s[j]
  BY <1>1, PartOf
<1>3. /\ back \in Seq(S) /\ Len(back) = Len(s) - i + 1
      /\ \A j \in 1..(Len(s) - i + 1) : back[j] = s[i + j - 1]
  BY <1>1, PartOf
<1>4. <<e>> \in Seq(S) /\ Len(<<e>>) = 1 /\ <<e>>[1] = e
  OBVIOUS
<1>5. InsertAt(s, i, e) = most \o back
  BY DEF InsertAt
<1> HIDE DEF front, back
<1>6. /\ most \in Seq(S) /\ Len(most) = i
      /\ \A j \in 1..i : most[j] = IF j < i THEN s[j] ELSE e
  BY <1>1, <1>2, <1>4, ConcatProperties
<1> HIDE DEF most
<1>7. /\ most \o back \in Seq(S) /\ Len(most \o back) = Len(s) + 1
      /\ \A j \in 1..(Len(s) + 1) :
           (most \o back)[j] = IF j =< i THEN most[j] ELSE back[j - i]
  BY <1>1, <1>3, <1>6, ConcatProperties
<1>8. ASSUME NEW j \in 1..(Len(s) + 1)
      PROVE  (most \o back)[j] = IF j < i THEN s[j] ELSE IF j = i THEN e ELSE s[j - 1]
  <2>1. CASE j =< i
    BY <1>1, <1>6, <1>7, <2>1
  <2>2. CASE j > i
    <3>1. j - i \in 1..(Len(s) - i + 1) /\ i + (j - i) - 1 = j - 1
      BY <1>1, <2>2
    <3>2. back[j - i] = s[j - 1]
      BY <1>3, <3>1
    <3>3. (most \o back)[j] = back[j - i]
      BY <1>1, <1>7, <2>2
    <3> QED BY <1>1, <2>2, <3>2, <3>3
  <2>3. j =< i \/ j > i
    BY <1>1
  <2> QED BY <2>1, <2>2, <2>3
<1> QED BY <1>5, <1>7, <1>8

LEMMA Insertion ==
  ASSUME NEW S, NEW s \in Seq(S), NEW e \in S, NEW i \in 1..(Len(s) + 1)
  PROVE  Inserts(s, i, e, InsertAt(s, i, e), S)
BY InsertedAt DEF Inserts

(* A sequence without its element at i *)
LEMMA RemovedAt ==
  ASSUME NEW S, NEW s \in Seq(S), NEW i \in 1..Len(s)
  PROVE  /\ RemoveAt(s, i) \in Seq(S)
         /\ Len(RemoveAt(s, i)) = Len(s) - 1
         /\ \A j \in 1..(Len(s) - 1) : RemoveAt(s, i)[j] = IF j < i THEN s[j] ELSE s[j + 1]
<1> DEFINE front == SubSeq(s, 1, i - 1)
           back == SubSeq(s, i + 1, Len(s))
<1>1. Len(s) \in Nat /\ i - 1 \in Nat /\ i \in Nat \ {0} /\ i =< Len(s)
  BY LenProperties
<1>2. /\ front \in Seq(S) /\ Len(front) = i - 1
      /\ \A j \in 1..(i - 1) : front[j] = s[j]
  BY <1>1, PartOf
<1>3. /\ back \in Seq(S) /\ Len(back) = Len(s) - i
      /\ \A j \in 1..(Len(s) - i) : back[j] = s[i + j]
  <2>1. i + 1 \in Nat \ {0} /\ \A j \in Int : i + 1 + j - 1 = i + j
    BY <1>1
  <2>2. /\ back \in Seq(S)
        /\ Len(back) = IF i + 1 =< Len(s) THEN Len(s) - (i + 1) + 1 ELSE 0
        /\ \A j \in 1..(Len(s) - (i + 1) + 1) : back[j] = s[i + 1 + j - 1]
    BY <1>1, <2>1, PartOf
  <2> QED BY <1>1, <2>1, <2>2
<1>4. RemoveAt(s, i) = front \o back
  BY DEF RemoveAt
<1> HIDE DEF front, back
<1>5. /\ front \o back \in Seq(S) /\ Len(front \o back) = Len(s) - 1
      /\ \A j \in 1..(Len(s) - 1) :
           (front \o back)[j] = IF j =< i - 1 THEN front[j] ELSE back[j - (i - 1)]
  BY <1>1, <1>2, <1>3, ConcatProperties
<1>6. ASSUME NEW j \in 1..(Len(s) - 1)
      PROVE  (front \o back)[j] = IF j < i THEN s[j] ELSE s[j + 1]
  <2>1. CASE j < i
    BY <1>1, <1>2, <1>5, <2>1
  <2>2. CASE j >= i
    <3>1. j - (i - 1) \in 1..(Len(s) - i) /\ i + (j - (i - 1)) = j + 1
      BY <1>1, <2>2
    <3>2. back[j - (i - 1)] = s[j + 1]
      BY <1>3, <3>1
    <3> QED BY <1>1, <1>5, <2>2, <3>2
  <2>3. j < i \/ j >= i
    BY <1>1
  <2> QED BY <2>1, <2>2, <2>3
<1> QED BY <1>4, <1>5, <1>6

(* A new element in a sequence without repetitions repeats none, *)
LEMMA InsertedOnce ==
  ASSUME NEW S, NEW s \in Seq(S), NEW e \in S, NEW i \in 1..(Len(s) + 1),
         Unrepeated(s), e \notin Contents(s)
  PROVE  Unrepeated(InsertAt(s, i, e))
<1> DEFINE new == InsertAt(s, i, e)
<1>1. Len(s) \in Nat /\ DOMAIN s = 1..Len(s) /\ i \in Nat
  BY LenProperties
<1>2. new \in Seq(S) /\ DOMAIN new = 1..(Len(s) + 1)
  BY InsertedAt, LenProperties
<1>3. \A j \in 1..(Len(s) + 1) : new[j] = IF j < i THEN s[j] ELSE IF j = i THEN e ELSE s[j - 1]
  BY InsertedAt
<1> HIDE DEF new
<1>4. \A a, b \in 1..Len(s) : s[a] = s[b] => a = b
  BY <1>1 DEF Unrepeated
<1>5. \A a \in 1..Len(s) : s[a] # e
  BY <1>1 DEF Contents
<1>6. ASSUME NEW a \in 1..(Len(s) + 1), NEW b \in 1..(Len(s) + 1), new[a] = new[b]
      PROVE  a = b
  <2>1. \A j \in 1..(Len(s) + 1) : (j < i => j \in 1..Len(s)) /\ (j > i => j - 1 \in 1..Len(s))
    BY <1>1
  <2>2. CASE a < i
    BY <1>1, <1>3, <1>4, <1>5, <1>6, <2>1, <2>2
  <2>3. CASE a = i
    BY <1>1, <1>3, <1>4, <1>5, <1>6, <2>1, <2>3
  <2>4. CASE a > i
    BY <1>1, <1>3, <1>4, <1>5, <1>6, <2>1, <2>4
  <2> QED BY <1>1, <2>2, <2>3, <2>4
<1>7. Unrepeated(new)
  BY <1>2, <1>6 DEF Unrepeated
<1> QED BY <1>7 DEF new

(* and nor does one less. *)
LEMMA RemovedOnce ==
  ASSUME NEW S, NEW s \in Seq(S), NEW i \in 1..Len(s), Unrepeated(s)
  PROVE  /\ Unrepeated(RemoveAt(s, i))
         /\ s[i] \notin Contents(RemoveAt(s, i))
<1> DEFINE new == RemoveAt(s, i)
<1>1. Len(s) \in Nat /\ DOMAIN s = 1..Len(s) /\ i \in Nat
  BY LenProperties
<1>2. new \in Seq(S) /\ DOMAIN new = 1..(Len(s) - 1)
  BY RemovedAt, LenProperties
<1>3. \A j \in 1..(Len(s) - 1) : new[j] = IF j < i THEN s[j] ELSE s[j + 1]
  BY RemovedAt
<1> HIDE DEF new
<1>4. \A a, b \in 1..Len(s) : s[a] = s[b] => a = b
  BY <1>1 DEF Unrepeated
<1>5. \A j \in 1..(Len(s) - 1) : j \in 1..Len(s) /\ j + 1 \in 1..Len(s)
  BY <1>1
<1>6. ASSUME NEW a \in 1..(Len(s) - 1), NEW b \in 1..(Len(s) - 1), new[a] = new[b]
      PROVE  a = b
  BY <1>1, <1>3, <1>4, <1>5, <1>6
<1>7. \A a \in 1..(Len(s) - 1) : new[a] # s[i]
  BY <1>1, <1>3, <1>4, <1>5
<1>8. Unrepeated(new) /\ s[i] \notin Contents(new)
  BY <1>2, <1>6, <1>7 DEF Unrepeated, Contents
<1> QED BY <1>8 DEF new

(* A sequence has no more members than places, and as many if none repeats. *)
LEMMA ContentsCounted ==
  ASSUME NEW S, NEW s \in Seq(S)
  PROVE  /\ IsFiniteSet(Contents(s)) /\ Cardinality(Contents(s)) \in Nat
         /\ Cardinality(Contents(s)) =< Len(s)
         /\ Unrepeated(s) => Cardinality(Contents(s)) = Len(s)
<1>1. Len(s) \in Nat /\ DOMAIN s = 1..Len(s) /\ s \in [1..Len(s) -> S]
  BY LenProperties
<1>2. IsFiniteSet(1..Len(s)) /\ Cardinality(1..Len(s)) = Len(s)
  BY <1>1, FS_Interval
<1>3. s \in Seq(Contents(s)) /\ \A m \in Contents(s) : \E n \in 1..Len(s) : s[n] = m
  BY <1>1 DEF Contents
<1>4. IsFiniteSet(Contents(s))
  BY <1>3 DEF IsFiniteSet
<1>5. Cardinality(Contents(s)) \in Nat
  BY <1>4, FS_CardinalityType
<1>6. Cardinality(Contents(s)) =< Len(s)
  <2> DEFINE place == [m \in Contents(s) |-> CHOOSE n \in 1..Len(s) : s[n] = m]
  <2>1. \A m \in Contents(s) : place[m] \in 1..Len(s) /\ s[place[m]] = m
    BY <1>3
  <2>2. place \in [Contents(s) -> 1..Len(s)]
    BY <2>1
  <2> HIDE DEF place
  <2>3. ASSUME Cardinality(Contents(s)) > Len(s) PROVE FALSE
    BY <1>1, <1>2, <1>4, <2>1, <2>2, <2>3, FS_PigeonHole
  <2> QED BY <1>1, <1>5, <2>3
<1>7. ASSUME Unrepeated(s) PROVE Cardinality(Contents(s)) = Len(s)
  <2>1. s \in [1..Len(s) -> Contents(s)]
    BY <1>1 DEF Contents
  <2>2. \A a, b \in 1..Len(s) : s[a] = s[b] => a = b
    BY <1>1, <1>7 DEF Unrepeated
  <2>3. ASSUME Cardinality(Contents(s)) < Len(s) PROVE FALSE
    BY <1>2, <1>4, <2>1, <2>2, <2>3, FS_PigeonHole
  <2> QED BY <1>1, <1>5, <1>6, <2>3
<1> QED BY <1>4, <1>5, <1>6, <1>7

----------------------------------------------------------------------------
(* The invariant *)

Listings ==
  [stage : {"paging", "returned", "raised"}, skip : Nat, count : Nat \cup {NoCount},
   items : Seq(Members), complete : BOOLEAN]

PagingTyped ==
  /\ collection \in Seq(Members) /\ Unrepeated(collection)
  /\ listing \in Listings /\ (listing.complete => Returned)
  /\ lost \cup gained \cup moved \subseteq Members
  /\ edits \in 0..MaxEdits

Paging == listing.stage = "paging"

(* Before the first answer there is neither an item nor a count. *)
FirstPage == Paging /\ listing.skip = 0 => listing.items = <<>> /\ listing.count = NoCount

(* If nothing has changed, the list is the front of the collection. *)
QuietSoFar ==
  lost \cup gained \cup moved = {} =>
    /\ Paging =>
         /\ listing.skip =< Len(collection)
         /\ listing.items = SubSeq(collection, 1, listing.skip)
         /\ listing.count \in {NoCount, Len(collection)}
    /\ Returned =>
         /\ listing.items = collection
         /\ listing.complete = (listing.count # NoCount)

(* If members have only joined, what lies before $skip is listed unless it has
   joined since. *)
GrownSoFar ==
  lost \cup moved = {} =>
    \A p \in DOMAIN collection :
      \/ collection[p] \in gained \cup Contents(listing.items)
      \/ Paging /\ p > listing.skip
      \/ listing.stage = "raised"

(* If members have only left, nothing is listed twice or lies ahead of $skip as
   well, and the count has room for all that is listed or still there. *)
ShrunkSoFar ==
  gained \cup moved = {} =>
    /\ Unrepeated(listing.items)
    /\ Paging =>
         \A p \in DOMAIN collection :
           p > listing.skip => collection[p] \notin Contents(listing.items)
    /\ listing.count # NoCount =>
         Cardinality(Contents(listing.items) \cup Contents(collection)) =< listing.count
    /\ listing.complete => listing.count # NoCount /\ Len(listing.items) >= listing.count

PagingInv == PagingTyped /\ FirstPage /\ QuietSoFar /\ GrownSoFar /\ ShrunkSoFar

(* Before the first request *)
LEMMA PagingStarts == PagingInit => PagingInv
<1> SUFFICES ASSUME PagingInit PROVE PagingInv
  OBVIOUS
<1>1. /\ collection = Listed /\ lost = {} /\ gained = {} /\ moved = {} /\ edits = 0
      /\ listing = [stage |-> "paging", skip |-> 0, count |-> NoCount, items |-> <<>>, complete |-> FALSE]
  BY DEF PagingInit
<1>2. listing \in Listings
  BY <1>1 DEF Listings, NoCount
<1>3. PagingTyped
  BY <1>1, <1>2, PagingAssumption DEF PagingTyped, Returned, Unrepeated
<1>4. Len(collection) \in Nat /\ DOMAIN collection = 1..Len(collection)
  BY <1>3, LenProperties DEF PagingTyped
<1>5. SubSeq(collection, 1, 0) = <<>>
  BY SubSeqEmpty
<1>6. QuietSoFar
  BY <1>1, <1>4, <1>5 DEF QuietSoFar, Returned
<1>7. GrownSoFar
  BY <1>1, <1>4 DEF GrownSoFar, Paging
<1>8. ShrunkSoFar
  BY <1>1 DEF ShrunkSoFar, Contents, Unrepeated
<1> QED BY <1>1, <1>3, <1>6, <1>7, <1>8 DEF PagingInv, FirstPage

----------------------------------------------------------------------------
(* The user's changes *)

(* A member that joins shifts later ones back: what it pushes on stays listed or to come. *)
LEMMA AddKeeps ==
  ASSUME PagingInv, NEW m \in Members, NEW i \in Nat, AddMember(m, i)
  PROVE  PagingInv'
<1>1. /\ i \in 1..(Len(collection) + 1) /\ m \notin Contents(collection)
      /\ collection' = InsertAt(collection, i, m) /\ gained' = gained \cup {m}
      /\ listing' = listing /\ lost' = lost /\ moved' = moved
      /\ edits < MaxEdits /\ edits' = edits + 1
  BY DEF AddMember, Edited, Contents
<1>2. PagingTyped
  BY DEF PagingInv
<1>3. /\ Len(collection) \in Nat /\ DOMAIN collection = 1..Len(collection)
  BY <1>2, LenProperties DEF PagingTyped
<1>4. /\ collection' \in Seq(Members) /\ DOMAIN collection' = 1..(Len(collection) + 1)
      /\ \A j \in 1..(Len(collection) + 1) :
           collection'[j] = IF j < i THEN collection[j] ELSE IF j = i THEN m ELSE collection[j - 1]
  <2>1. collection \in Seq(Members)
    BY <1>2 DEF PagingTyped
  <2>2. /\ collection' \in Seq(Members) /\ Len(collection') = Len(collection) + 1
        /\ \A j \in 1..(Len(collection) + 1) :
             collection'[j] = IF j < i THEN collection[j] ELSE IF j = i THEN m ELSE collection[j - 1]
    <3>1. m \in Members /\ collection \in Seq(Members) /\ i \in 1..(Len(collection) + 1)
      BY <1>1, <2>1
    <3>2. Inserts(collection, i, m, InsertAt(collection, i, m), Members)
      BY <3>1, Insertion
    <3> QED BY <1>1, <3>2 DEF Inserts
  <2> QED BY <2>2, LenProperties
<1>5. Unrepeated(collection')
  BY <1>1, <1>2, InsertedOnce DEF PagingTyped
<1>6. PagingTyped'
  <2>1. edits' \in 0..MaxEdits
    BY <1>1, <1>2, PagingAssumption DEF PagingTyped
  <2>2. collection' \in Seq(Members) /\ gained' \subseteq Members
    BY <1>1, <1>2, <1>4 DEF PagingTyped
  <2> QED BY <1>1, <1>2, <1>5, <2>1, <2>2 DEF PagingTyped, Returned
<1>7. FirstPage'
  BY <1>1 DEF PagingInv, FirstPage, Paging
<1>8. QuietSoFar' /\ ShrunkSoFar'
  BY <1>1 DEF QuietSoFar, ShrunkSoFar
<1>9. GrownSoFar'
  <2> SUFFICES ASSUME lost \cup moved = {}, NEW p \in 1..(Len(collection) + 1)
               PROVE  \/ collection'[p] \in gained' \cup Contents(listing.items)
                      \/ Paging /\ p > listing.skip
                      \/ listing.stage = "raised"
    BY <1>1, <1>4 DEF GrownSoFar, Paging, Contents
  <2>1. \A q \in 1..Len(collection) :
          \/ collection[q] \in gained \cup Contents(listing.items)
          \/ Paging /\ q > listing.skip
          \/ listing.stage = "raised"
    BY <1>3 DEF PagingInv, GrownSoFar
  <2>2. listing.skip \in Nat
    BY <1>2 DEF PagingTyped, Listings
  <2>3. CASE p < i
    BY <1>1, <1>3, <1>4, <2>1, <2>3
  <2>4. CASE p = i
    BY <1>1, <1>4, <2>4
  <2>5. CASE p > i
    <3>1. p - 1 \in 1..Len(collection) /\ collection'[p] = collection[p - 1]
      BY <1>1, <1>3, <1>4, <2>5
    <3> QED BY <1>1, <2>1, <2>2, <3>1
  <2> QED BY <1>1, <2>3, <2>4, <2>5
<1> QED BY <1>6, <1>7, <1>8, <1>9 DEF PagingInv

(* A member that goes shifts later ones forward: none comes before $skip unlisted and is
   listed after. *)
LEMMA DeleteKeeps ==
  ASSUME PagingInv, NEW i, DeleteMember(i)
  PROVE  PagingInv'
<1>1. /\ i \in DOMAIN collection
      /\ collection' = RemoveAt(collection, i) /\ lost' = lost \cup {collection[i]}
      /\ listing' = listing /\ gained' = gained /\ moved' = moved
      /\ edits < MaxEdits /\ edits' = edits + 1
  BY DEF DeleteMember, Edited
<1>2. PagingTyped
  BY DEF PagingInv
<1>3. /\ Len(collection) \in Nat /\ DOMAIN collection = 1..Len(collection)
      /\ collection[i] \in Members
  BY <1>1, <1>2, LenProperties, ElementOfSeq DEF PagingTyped
<1>4. /\ collection' \in Seq(Members) /\ DOMAIN collection' = 1..(Len(collection) - 1)
      /\ \A j \in 1..(Len(collection) - 1) :
           collection'[j] = IF j < i THEN collection[j] ELSE collection[j + 1]
  <2>1. collection \in Seq(Members) /\ i \in 1..Len(collection)
    BY <1>1, <1>2, <1>3 DEF PagingTyped
  <2>2. /\ collection' \in Seq(Members) /\ Len(collection') = Len(collection) - 1
        /\ \A j \in 1..(Len(collection) - 1) :
             collection'[j] = IF j < i THEN collection[j] ELSE collection[j + 1]
    BY <1>1, <2>1, RemovedAt
  <2> QED BY <2>2, LenProperties
<1>5. Unrepeated(collection')
  BY <1>1, <1>2, <1>3, RemovedOnce DEF PagingTyped
<1>6. PagingTyped'
  BY <1>1, <1>2, <1>3, <1>4, <1>5, PagingAssumption DEF PagingTyped, Returned, Unrepeated
<1>7. FirstPage'
  BY <1>1 DEF PagingInv, FirstPage, Paging
<1>8. QuietSoFar' /\ GrownSoFar'
  BY <1>1 DEF QuietSoFar, GrownSoFar
<1>9. ASSUME gained \cup moved = {}
      PROVE  /\ \A p \in DOMAIN collection' :
                  Paging /\ p > listing.skip => collection'[p] \notin Contents(listing.items)
             /\ Contents(collection') \subseteq Contents(collection)
             /\ listing.count # NoCount =>
                  Cardinality(Contents(listing.items) \cup Contents(collection')) =< listing.count
  <2>1. \A q \in 1..Len(collection) :
          Paging /\ q > listing.skip => collection[q] \notin Contents(listing.items)
    BY <1>3, <1>9 DEF PagingInv, ShrunkSoFar
  <2>2. listing.skip \in Nat /\ listing.count \in Nat \cup {NoCount} /\ listing.items \in Seq(Members)
    BY <1>2 DEF PagingTyped, Listings
  <2>3. ASSUME NEW p \in DOMAIN collection', Paging, p > listing.skip
        PROVE  collection'[p] \notin Contents(listing.items)
    <3>1. p \in 1..Len(collection) /\ p + 1 \in 1..Len(collection) /\ p + 1 > listing.skip
      BY <1>3, <1>4, <2>2, <2>3
    <3> QED BY <1>4, <2>1, <2>3, <3>1
  <2>4. Contents(collection') \subseteq Contents(collection)
    <3>1. \A p \in DOMAIN collection' : p \in DOMAIN collection /\ p + 1 \in DOMAIN collection
      BY <1>3, <1>4
    <3> QED BY <1>4, <3>1 DEF Contents
  <2>5. ASSUME listing.count # NoCount
        PROVE  Cardinality(Contents(listing.items) \cup Contents(collection')) =< listing.count
    <3> DEFINE before == Contents(listing.items) \cup Contents(collection)
               after == Contents(listing.items) \cup Contents(collection')
    <3>1. IsFiniteSet(Contents(listing.items)) /\ IsFiniteSet(Contents(collection))
      BY <1>2, <2>2, ContentsCounted DEF PagingTyped
    <3>2. IsFiniteSet(before)
      BY <3>1, FS_Union
    <3>3. after \in SUBSET before
      BY <2>4
    <3>4. Cardinality(before) =< listing.count
      BY <1>9, <2>5 DEF PagingInv, ShrunkSoFar
    <3> HIDE DEF before, after
    <3>5. Cardinality(after) =< Cardinality(before) /\ IsFiniteSet(after)
      BY <3>2, <3>3, FS_Subset
    <3>6. Cardinality(after) \in Nat /\ Cardinality(before) \in Nat /\ listing.count \in Int
      BY <2>2, <3>2, <3>5, FS_CardinalityType DEF NoCount
    <3>7. Cardinality(after) =< listing.count
      BY <3>4, <3>5, <3>6
    <3> QED BY <3>7 DEF after
  <2> QED BY <2>3, <2>4, <2>5
<1>10. ShrunkSoFar'
  <2>1. gained \cup moved = {} =>
          /\ Unrepeated(listing.items)
          /\ listing.complete => listing.count # NoCount /\ Len(listing.items) >= listing.count
    BY DEF PagingInv, ShrunkSoFar
  <2> QED BY <1>1, <1>9, <2>1 DEF ShrunkSoFar, Paging, Contents, Unrepeated
<1> QED BY <1>6, <1>7, <1>8, <1>10 DEF PagingInv

(* A move counts as both. *)
LEMMA MoveKeeps ==
  ASSUME PagingInv, NEW i, NEW j, MoveMember(i, j)
  PROVE  PagingInv'
<1>1. /\ i \in DOMAIN collection /\ j \in DOMAIN collection
      /\ collection' = InsertAt(RemoveAt(collection, i), j, collection[i])
      /\ moved' = moved \cup {collection[i]}
      /\ listing' = listing /\ lost' = lost /\ gained' = gained
      /\ edits < MaxEdits /\ edits' = edits + 1
  BY DEF MoveMember, Edited
<1>2. PagingTyped
  BY DEF PagingInv
<1>3. /\ Len(collection) \in Nat /\ DOMAIN collection = 1..Len(collection)
      /\ collection[i] \in Members
  BY <1>1, <1>2, LenProperties, ElementOfSeq DEF PagingTyped
<1>4. /\ RemoveAt(collection, i) \in Seq(Members)
      /\ j \in 1..(Len(RemoveAt(collection, i)) + 1)
      /\ Unrepeated(RemoveAt(collection, i))
      /\ collection[i] \notin Contents(RemoveAt(collection, i))
  BY <1>1, <1>2, <1>3, RemovedAt, RemovedOnce DEF PagingTyped
<1>5. collection' \in Seq(Members) /\ Unrepeated(collection')
  BY <1>1, <1>3, <1>4, InsertedAt, InsertedOnce
<1>6. PagingTyped'
  BY <1>1, <1>2, <1>3, <1>5, PagingAssumption DEF PagingTyped, Returned, Unrepeated
<1>7. FirstPage'
  BY <1>1 DEF PagingInv, FirstPage, Paging
<1>8. QuietSoFar' /\ GrownSoFar' /\ ShrunkSoFar'
  BY <1>1 DEF QuietSoFar, GrownSoFar, ShrunkSoFar
<1> QED BY <1>6, <1>7, <1>8 DEF PagingInv

----------------------------------------------------------------------------
(* The requests *)

(* A page is the stretch of the collection after $skip; short of a full page,
   it is the last. *)
LEMMA PageServed ==
  ASSUME PagingTyped, NEW skip \in Nat
  PROVE  LET page == Served(skip) IN
         /\ page \in Seq(Members) /\ Len(page) \in Nat
         /\ \A j \in 1..Len(page) :
              skip + j \in 1..Len(collection) /\ page[j] = collection[skip + j] /\ j =< PageSize
         /\ \A p \in 1..Len(collection) :
              p > skip /\ (LastPage(page) \/ p =< skip + PageSize) =>
                p - skip \in 1..Len(page)
         /\ ~ LastPage(page) => Len(page) = PageSize /\ skip + PageSize =< Len(collection)
         /\ Contents(page) \subseteq Contents(collection)
<1> DEFINE page == Served(skip)
           end == IF skip + PageSize =< Len(collection) THEN skip + PageSize ELSE Len(collection)
<1>1. /\ collection \in Seq(Members) /\ Len(collection) \in Nat
      /\ DOMAIN collection = 1..Len(collection) /\ PageSize \in Nat \ {0}
  BY LenProperties, PagingAssumption DEF PagingTyped
<1>2. /\ end \in Nat /\ end =< Len(collection) /\ end =< skip + PageSize
      /\ end = Len(collection) \/ end = skip + PageSize
  <2>1. Len(collection) \in Nat /\ PageSize \in Nat
    BY <1>1
  <2>2. CASE skip + PageSize =< Len(collection)
    BY <2>1, <2>2
  <2>3. CASE ~ (skip + PageSize =< Len(collection))
    BY <2>1, <2>3
  <2> QED BY <2>2, <2>3
<1>3. page = SubSeq(collection, skip + 1, end)
  BY DEF Served
<1> HIDE DEF page, end
<1>4. /\ page \in Seq(Members) /\ Len(page) = IF skip + 1 =< end THEN end - skip ELSE 0
      /\ \A j \in 1..(end - skip) : page[j] = collection[skip + j]
  <2>1. PICK from \in Nat \ {0} : from = skip + 1
    OBVIOUS
  <2>2. /\ SubSeq(collection, from, end) \in Seq(Members)
        /\ Len(SubSeq(collection, from, end)) = IF from =< end THEN end - from + 1 ELSE 0
        /\ \A j \in 1..(end - from + 1) : SubSeq(collection, from, end)[j] = collection[from + j - 1]
    BY <1>1, <1>2, PartOf
  <2>3. /\ page \in Seq(Members)
        /\ Len(page) = IF from =< end THEN end - from + 1 ELSE 0
        /\ \A j \in 1..(end - from + 1) : page[j] = collection[from + j - 1]
    BY <1>3, <2>1, <2>2
  <2>4. end - from + 1 = end - skip /\ \A j \in Int : from + j - 1 = skip + j
    BY <1>2, <2>1
  <2> QED BY <1>2, <2>1, <2>3, <2>4
<1>5. Len(page) \in Nat
  BY <1>2, <1>4
<1> DEFINE size == Len(page)
<1>6. /\ Len(collection) \in Nat /\ PageSize \in Nat /\ PageSize > 0 /\ size \in Nat
      /\ size = IF skip + 1 =< end THEN end - skip ELSE 0
  BY <1>1, <1>4, <1>5
<1> HIDE DEF size
<1>7. \A j \in 1..size : j \in 1..(end - skip) /\ skip + j \in 1..Len(collection) /\ j =< PageSize
  BY <1>2, <1>6
<1>8. size >= PageSize => size = PageSize /\ skip + PageSize =< Len(collection)
  BY <1>2, <1>6
<1>13. \A p \in 1..Len(collection) :
        p > skip /\ (size < PageSize \/ p =< skip + PageSize) => p - skip \in 1..size
  <2>1. CASE end = Len(collection)
    BY <1>2, <1>6, <2>1
  <2>2. CASE end = skip + PageSize
    BY <1>2, <1>6, <2>2
  <2> QED BY <1>2, <2>1, <2>2
<1> USE DEF size
<1>9. Contents(page) \subseteq Contents(collection)
  <2>1. DOMAIN page = 1..Len(page)
    BY <1>4, LenProperties
  <2> QED BY <1>1, <1>4, <1>7, <2>1 DEF Contents
<1>10. LastPage(page) <=> size < PageSize
  BY DEF LastPage
<1>11. ~ LastPage(page) => Len(page) = PageSize /\ skip + PageSize =< Len(collection)
  BY <1>6, <1>8, <1>10
<1>12. \A p \in 1..Len(collection) :
         p > skip /\ (LastPage(page) \/ p =< skip + PageSize) => p - skip \in 1..Len(page)
  BY <1>10, <1>13
<1>14. \A j \in 1..Len(page) :
         skip + j \in 1..Len(collection) /\ page[j] = collection[skip + j] /\ j =< PageSize
  BY <1>4, <1>7
<1> QED BY <1>4, <1>5, <1>9, <1>11, <1>12, <1>14 DEF page

(* What two lists joined hold *)
LEMMA ContentsJoined ==
  ASSUME NEW S, NEW s \in Seq(S), NEW t \in Seq(S)
  PROVE  Contents(s \o t) = Contents(s) \cup Contents(t)
<1>1. /\ Len(s) \in Nat /\ Len(t) \in Nat /\ DOMAIN s = 1..Len(s) /\ DOMAIN t = 1..Len(t)
      /\ s \o t \in Seq(S) /\ Len(s \o t) = Len(s) + Len(t)
      /\ \A i \in 1..(Len(s) + Len(t)) :
           (s \o t)[i] = IF i =< Len(s) THEN s[i] ELSE t[i - Len(s)]
  BY LenProperties, ConcatProperties
<1>2. DOMAIN (s \o t) = 1..(Len(s) + Len(t))
  BY <1>1, LenProperties
<1>3. ASSUME NEW i \in 1..(Len(s) + Len(t)) PROVE (s \o t)[i] \in Contents(s) \cup Contents(t)
  <2>1. CASE i =< Len(s)
    BY <1>1, <2>1 DEF Contents
  <2>2. CASE i > Len(s)
    <3>1. i - Len(s) \in 1..Len(t) /\ (s \o t)[i] = t[i - Len(s)]
      BY <1>1, <2>2
    <3> QED BY <1>1, <3>1 DEF Contents
  <2> QED BY <1>1, <2>1, <2>2
<1>4. ASSUME NEW i \in 1..Len(s) PROVE s[i] \in Contents(s \o t)
  <2>1. i \in 1..(Len(s) + Len(t)) /\ (s \o t)[i] = s[i]
    BY <1>1
  <2> QED BY <1>2, <2>1 DEF Contents
<1>5. ASSUME NEW i \in 1..Len(t) PROVE t[i] \in Contents(s \o t)
  <2>1. Len(s) + i \in 1..(Len(s) + Len(t)) /\ (s \o t)[Len(s) + i] = t[i]
    BY <1>1
  <2> QED BY <1>2, <2>1 DEF Contents
<1>6. Contents(s \o t) \subseteq Contents(s) \cup Contents(t)
  BY <1>2, <1>3 DEF Contents
<1>7. Contents(s) \cup Contents(t) \subseteq Contents(s \o t)
  <2>1. \A m \in Contents(s) : \E i \in 1..Len(s) : m = s[i]
    BY <1>1 DEF Contents
  <2>2. \A m \in Contents(t) : \E i \in 1..Len(t) : m = t[i]
    BY <1>1 DEF Contents
  <2> QED BY <1>4, <1>5, <2>1, <2>2
<1> QED BY <1>6, <1>7

(* Two lists that share nothing, joined *)
LEMMA JoinedOnce ==
  ASSUME NEW S, NEW s \in Seq(S), NEW t \in Seq(S), Unrepeated(s), Unrepeated(t),
         Contents(s) \cap Contents(t) = {}
  PROVE  Unrepeated(s \o t)
<1>1. /\ Len(s) \in Nat /\ Len(t) \in Nat /\ DOMAIN s = 1..Len(s) /\ DOMAIN t = 1..Len(t)
      /\ s \o t \in Seq(S) /\ Len(s \o t) = Len(s) + Len(t)
      /\ \A i \in 1..(Len(s) + Len(t)) :
           (s \o t)[i] = IF i =< Len(s) THEN s[i] ELSE t[i - Len(s)]
  BY LenProperties, ConcatProperties
<1>2. DOMAIN (s \o t) = 1..(Len(s) + Len(t))
  BY <1>1, LenProperties
<1>3. \A a, b \in 1..Len(s) : s[a] = s[b] => a = b
  BY <1>1 DEF Unrepeated
<1>4. \A a, b \in 1..Len(t) : t[a] = t[b] => a = b
  BY <1>1 DEF Unrepeated
<1>5. \A a \in 1..Len(s), b \in 1..Len(t) : s[a] # t[b]
  BY <1>1 DEF Contents
<1>6. \A i \in 1..(Len(s) + Len(t)) : i =< Len(s) => i \in 1..Len(s) /\ (s \o t)[i] = s[i]
  BY <1>1
<1>7. \A i \in 1..(Len(s) + Len(t)) :
        i > Len(s) => i - Len(s) \in 1..Len(t) /\ (s \o t)[i] = t[i - Len(s)]
  BY <1>1
<1>8. ASSUME NEW a \in 1..(Len(s) + Len(t)), NEW b \in 1..(Len(s) + Len(t)),
             (s \o t)[a] = (s \o t)[b]
      PROVE  a = b
  <2>1. CASE a =< Len(s) /\ b =< Len(s)
    BY <1>3, <1>6, <1>8, <2>1
  <2>2. CASE a > Len(s) /\ b > Len(s)
    <3>1. a - Len(s) = b - Len(s)
      BY <1>4, <1>7, <1>8, <2>2
    <3> QED BY <1>1, <3>1
  <2>3. CASE a =< Len(s) /\ b > Len(s)
    BY <1>5, <1>6, <1>7, <1>8, <2>3
  <2>4. CASE a > Len(s) /\ b =< Len(s)
    BY <1>5, <1>6, <1>7, <1>8, <2>4
  <2> QED BY <1>1, <2>1, <2>2, <2>3, <2>4
<1> QED BY <1>2, <1>8 DEF Unrepeated

(* What an answer does to the list *)
LEMMA Answered ==
  ASSUME PagingInv, NEW withCount \in BOOLEAN, GetPage(withCount)
  PROVE  \E page \in Seq(Members), count \in Nat \cup {NoCount} :
           /\ page = Served(listing.skip)
           /\ count = IF listing.skip > 0 THEN listing.count
                      ELSE IF withCount THEN Len(collection) ELSE NoCount
           /\ Paging /\ listing'.items = listing.items \o page /\ listing'.count = count
           /\ \/ /\ LastPage(page) /\ listing'.stage = "returned"
                 /\ listing'.complete = Complete(listing'.items, count)
                 /\ listing'.skip = listing.skip
              \/ /\ ~ LastPage(page) /\ listing'.stage = "paging"
                 /\ listing'.complete = listing.complete
                 /\ listing'.skip = listing.skip + PageSize
           /\ listing' \in Listings
<1> DEFINE page == Served(listing.skip)
           count == IF listing.skip > 0 THEN listing.count
                    ELSE IF withCount THEN Len(collection) ELSE NoCount
           items == listing.items \o page
<1>1. /\ listing \in Listings /\ collection \in Seq(Members) /\ PagingTyped
  BY DEF PagingInv, PagingTyped
<1>2. /\ listing.skip \in Nat /\ listing.count \in Nat \cup {NoCount} /\ listing.items \in Seq(Members)
      /\ Len(collection) \in Nat /\ listing.skip + PageSize \in Nat
  BY <1>1, LenProperties, PagingAssumption DEF Listings
<1>3. page \in Seq(Members)
  BY <1>1, <1>2, PageServed
<1>4. items \in Seq(Members) /\ count \in Nat \cup {NoCount}
  BY <1>2, <1>3, ConcatProperties
<1>5. Complete(items, count) \in BOOLEAN
  BY DEF Complete
<1>6. /\ Paging
      /\ \/ /\ LastPage(page)
            /\ listing' = [listing EXCEPT !.stage = "returned", !.items = items, !.count = count,
                                          !.complete = Complete(items, count)]
         \/ /\ ~ LastPage(page)
            /\ listing' = [listing EXCEPT !.items = items, !.count = count,
                                          !.skip = listing.skip + PageSize]
  BY DEF GetPage, Paging, NextSkip
<1> HIDE DEF page, count, items
<1>7. CASE /\ LastPage(page)
           /\ listing' = [listing EXCEPT !.stage = "returned", !.items = items, !.count = count,
                                         !.complete = Complete(items, count)]
  <2>1. listing' \in Listings
    BY <1>1, <1>4, <1>5, <1>7 DEF Listings
  <2>2. /\ listing'.stage = "returned" /\ listing'.items = items /\ listing'.count = count
        /\ listing'.skip = listing.skip /\ listing'.complete = Complete(listing'.items, count)
    BY <1>1, <1>7 DEF Listings
  <2> QED BY <1>3, <1>4, <1>6, <1>7, <2>1, <2>2 DEF page, count, items
<1>8. CASE /\ ~ LastPage(page)
           /\ listing' = [listing EXCEPT !.items = items, !.count = count,
                                         !.skip = listing.skip + PageSize]
  <2>1. listing' \in Listings
    BY <1>1, <1>2, <1>4, <1>8 DEF Listings
  <2>2. /\ listing'.stage = "paging" /\ listing'.items = items /\ listing'.count = count
        /\ listing'.skip = listing.skip + PageSize /\ listing'.complete = listing.complete
    BY <1>1, <1>6, <1>8 DEF Listings, Paging
  <2> QED BY <1>3, <1>4, <1>6, <1>8, <2>1, <2>2 DEF page, count, items
<1> QED BY <1>6, <1>7, <1>8

(* A page joined to the list, for each part of the invariant *)
LEMMA GetPageKeeps ==
  ASSUME PagingInv, NEW withCount \in BOOLEAN, GetPage(withCount)
  PROVE  PagingInv'
<1> DEFINE skip == listing.skip
           items == listing.items
<1>1. PICK page \in Seq(Members), count \in Nat \cup {NoCount} :
        /\ page = Served(skip)
        /\ count = IF skip > 0 THEN listing.count
                   ELSE IF withCount THEN Len(collection) ELSE NoCount
        /\ Paging /\ listing'.items = items \o page /\ listing'.count = count
        /\ \/ /\ LastPage(page) /\ listing'.stage = "returned"
              /\ listing'.complete = Complete(listing'.items, count)
              /\ listing'.skip = skip
           \/ /\ ~ LastPage(page) /\ listing'.stage = "paging"
              /\ listing'.complete = listing.complete
              /\ listing'.skip = skip + PageSize
        /\ listing' \in Listings
  BY Answered
<1>2. /\ collection' = collection /\ lost' = lost /\ gained' = gained /\ moved' = moved
      /\ edits' = edits
  BY DEF GetPage
<1>3. PagingTyped
  BY DEF PagingInv
<1>4. /\ collection \in Seq(Members) /\ Unrepeated(collection) /\ Len(collection) \in Nat
      /\ DOMAIN collection = 1..Len(collection)
      /\ skip \in Nat /\ items \in Seq(Members) /\ PageSize \in Nat /\ PageSize > 0
  BY <1>3, LenProperties, PagingAssumption DEF PagingTyped, Listings
<1>5. /\ Len(page) \in Nat
      /\ \A j \in 1..Len(page) :
           skip + j \in 1..Len(collection) /\ page[j] = collection[skip + j] /\ j =< PageSize
      /\ \A p \in 1..Len(collection) :
           p > skip /\ (LastPage(page) \/ p =< skip + PageSize) => p - skip \in 1..Len(page)
      /\ ~ LastPage(page) => Len(page) = PageSize /\ skip + PageSize =< Len(collection)
      /\ Contents(page) \subseteq Contents(collection)
  BY <1>1, <1>3, <1>4, PageServed
<1>6. DOMAIN page = 1..Len(page)
  BY LenProperties
<1>7. Contents(listing'.items) = Contents(items) \cup Contents(page)
  <2>1. listing'.items = items \o page
    BY <1>1
  <2>2. Contents(items \o page) = Contents(items) \cup Contents(page)
    BY <1>4, ContentsJoined
  <2> QED BY <2>1, <2>2
<1>8. PagingTyped'
  <2>1. listing'.complete => Returned'
    BY <1>1, <1>3 DEF PagingTyped, Paging, Returned
  <2> QED BY <1>1, <1>2, <1>3, <2>1 DEF PagingTyped, Unrepeated
<1>9. FirstPage'
  <2>1. skip + PageSize # 0
    BY <1>4
  <2> QED BY <1>1, <2>1 DEF FirstPage, Paging
<1> HIDE DEF skip, items
<1>10. QuietSoFar'
  <2> SUFFICES ASSUME lost \cup gained \cup moved = {}
               PROVE  /\ Paging' =>
                           /\ listing'.skip =< Len(collection)
                           /\ listing'.items = SubSeq(collection, 1, listing'.skip)
                           /\ count \in {NoCount, Len(collection)}
                      /\ Returned' =>
                           /\ listing'.items = collection
                           /\ listing'.complete = (count # NoCount)
    BY <1>1, <1>2 DEF QuietSoFar
  <2>1. /\ skip =< Len(collection) /\ items = SubSeq(collection, 1, skip)
        /\ listing.count \in {NoCount, Len(collection)}
    BY <1>1 DEF PagingInv, QuietSoFar, skip, items
  <2>2. count \in {NoCount, Len(collection)}
    BY <1>1, <2>1
  <2>3. CASE LastPage(page)
    <3>1. page = SubSeq(collection, skip + 1, Len(collection))
      <4>1. CASE skip + PageSize =< Len(collection)
        <5>1. PICK from \in Nat \ {0} : from = skip + 1
          BY <1>4
        <5>2. page = SubSeq(collection, from, skip + PageSize)
          BY <1>1, <4>1, <5>1 DEF Served
        <5>3. skip + PageSize \in Nat
          BY <1>4
        <5>4. Len(page) = IF from =< skip + PageSize THEN (skip + PageSize) - from + 1 ELSE 0
          BY <1>4, <4>1, <5>2, <5>3, PartOf
        <5>5. Len(page) = PageSize
          BY <1>4, <5>1, <5>4
        <5> QED BY <1>4, <2>3, <5>5 DEF LastPage
      <4>2. CASE ~ (skip + PageSize =< Len(collection))
        BY <1>1, <4>2 DEF Served
      <4> QED BY <4>1, <4>2
    <3>2. items \o page = SubSeq(collection, 1, Len(collection))
      <4>1. 1 \in 1..(Len(collection) + 1) /\ skip \in 1 - 1 .. Len(collection)
            /\ Len(collection) \in skip .. Len(collection)
        BY <1>4, <2>1
      <4> QED BY <1>4, <2>1, <3>1, <4>1, ConcatAdjacentSubSeq
    <3>3. items \o page = collection
      BY <1>4, <3>2, SubSeqFull
    <3>4. Complete(collection, count) = (count # NoCount)
      <4>1. CASE count = NoCount
        BY <4>1 DEF Complete
      <4>2. CASE count # NoCount
        <5>1. count = Len(collection)
          BY <2>2, <4>2
        <5>2. Len(collection) >= Len(collection)
          BY <1>4
        <5> QED BY <4>2, <5>1, <5>2 DEF Complete
      <4> QED BY <4>1, <4>2
    <3>5. listing'.stage = "returned" /\ listing'.complete = Complete(listing'.items, count)
      BY <1>1, <2>3
    <3> QED BY <1>1, <3>3, <3>4, <3>5 DEF Paging, Returned
  <2>4. CASE ~ LastPage(page)
    <3>1. skip + PageSize =< Len(collection)
      BY <1>5, <2>4
    <3>2. page = SubSeq(collection, skip + 1, skip + PageSize)
      BY <1>1, <3>1 DEF Served
    <3>3. 1 \in 1..(Len(collection) + 1) /\ skip \in 1 - 1 .. Len(collection)
          /\ skip + PageSize \in skip .. Len(collection)
      BY <1>4, <2>1, <3>1
    <3>4. items \o page = SubSeq(collection, 1, skip + PageSize)
      BY <1>4, <2>1, <3>2, <3>3, ConcatAdjacentSubSeq
    <3>5. listing'.stage = "paging" /\ listing'.skip = skip + PageSize
      BY <1>1, <2>4
    <3> QED BY <1>1, <2>2, <3>1, <3>4, <3>5 DEF Paging, Returned
  <2> QED BY <2>3, <2>4
<1>11. GrownSoFar'
  <2> SUFFICES ASSUME lost \cup moved = {}, NEW p \in 1..Len(collection)
               PROVE  \/ collection[p] \in gained \cup Contents(listing'.items)
                      \/ Paging' /\ p > listing'.skip
    BY <1>1, <1>2, <1>4 DEF GrownSoFar, Contents
  <2>1. collection[p] \in gained \cup Contents(items) \/ p > skip
    BY <1>1, <1>4 DEF PagingInv, GrownSoFar, Paging, skip, items
  <2>2. CASE p > skip /\ (LastPage(page) \/ p =< skip + PageSize)
    <3>1. p - skip \in 1..Len(page) /\ collection[skip + (p - skip)] = page[p - skip]
      BY <1>5, <2>2
    <3>2. skip + (p - skip) = p
      BY <1>4
    <3>3. collection[p] \in Contents(page)
      BY <1>6, <3>1, <3>2 DEF Contents
    <3> QED BY <1>7, <3>3
  <2>3. CASE ~ LastPage(page) /\ ~ (p =< skip + PageSize)
    <3>1. listing'.stage = "paging" /\ listing'.skip = skip + PageSize
      BY <1>1, <2>3
    <3>2. p > skip + PageSize
      BY <1>4, <2>3
    <3> QED BY <3>1, <3>2 DEF Paging
  <2>4. CASE collection[p] \in gained \cup Contents(items)
    BY <1>7, <2>4
  <2> QED BY <2>1, <2>2, <2>3, <2>4
<1>12. ShrunkSoFar'
  <2> SUFFICES ASSUME gained \cup moved = {}
               PROVE  /\ Unrepeated(listing'.items)
                      /\ Paging' =>
                           \A p \in 1..Len(collection) :
                             p > listing'.skip => collection[p] \notin Contents(listing'.items)
                      /\ count # NoCount =>
                           Cardinality(Contents(listing'.items) \cup Contents(collection)) =< count
                      /\ listing'.complete => count # NoCount /\ Len(listing'.items) >= count
    <3>1. DOMAIN collection' = 1..Len(collection) /\ listing'.count = count
      BY <1>1, <1>2, <1>4
    <3> QED BY <1>2, <3>1 DEF ShrunkSoFar, Contents, Unrepeated
  <2>1. /\ Unrepeated(items)
        /\ \A p \in 1..Len(collection) : p > skip => collection[p] \notin Contents(items)
        /\ listing.count # NoCount =>
             Cardinality(Contents(items) \cup Contents(collection)) =< listing.count
        /\ listing.complete => listing.count # NoCount /\ Len(items) >= listing.count
    BY <1>1, <1>4 DEF PagingInv, ShrunkSoFar, skip, items
  <2>2. \A a, b \in 1..Len(collection) : collection[a] = collection[b] => a = b
    BY <1>4 DEF Unrepeated
  <2>3. \A j \in 1..Len(page) : skip + j > skip
    BY <1>4, <1>5
  <2>4. Contents(items) \cap Contents(page) = {}
    BY <1>5, <1>6, <2>1, <2>3 DEF Contents
  <2>5. Unrepeated(page)
    <3>1. ASSUME NEW a \in 1..Len(page), NEW b \in 1..Len(page), page[a] = page[b]
          PROVE  a = b
      <4>1. skip + a = skip + b
        BY <1>5, <2>2, <3>1
      <4> QED BY <1>4, <1>5, <4>1
    <3> QED BY <1>6, <3>1 DEF Unrepeated
  <2>6. Unrepeated(listing'.items)
    BY <1>1, <1>4, <2>1, <2>4, <2>5, JoinedOnce
  <2>7. ASSUME Paging', NEW p \in 1..Len(collection), p > listing'.skip
        PROVE  collection[p] \notin Contents(listing'.items)
    <3>1. listing'.skip = skip + PageSize
      BY <1>1, <2>7 DEF Paging
    <3>2. p > skip /\ \A j \in 1..Len(page) : skip + j # p
      BY <1>4, <1>5, <2>7, <3>1
    <3>3. \A j \in 1..Len(page) : page[j] # collection[p]
      BY <1>5, <2>2, <3>2
    <3>4. collection[p] \notin Contents(page)
      BY <1>6, <3>3 DEF Contents
    <3> QED BY <1>7, <2>1, <3>2, <3>4
  <2>8. Contents(listing'.items) \cup Contents(collection) = Contents(items) \cup Contents(collection)
    BY <1>5, <1>7
  <2>9. ASSUME count # NoCount
        PROVE  Cardinality(Contents(listing'.items) \cup Contents(collection)) =< count
    <3>1. CASE skip > 0
      BY <1>1, <2>1, <2>8, <2>9, <3>1
    <3>2. CASE ~ (skip > 0)
      <4>1. skip = 0
        BY <1>4, <3>2
      <4>2. items = <<>>
        BY <1>1, <4>1 DEF PagingInv, FirstPage, skip, items
      <4>3. Contents(items) = {}
        BY <4>2 DEF Contents
      <4>4. count = Len(collection)
        BY <1>1, <2>9, <3>2
      <4> QED BY <1>4, <2>8, <4>3, <4>4, ContentsCounted
    <3> QED BY <3>1, <3>2
  <2>10. ASSUME listing'.complete PROVE count # NoCount /\ Len(listing'.items) >= count
    <3>1. CASE LastPage(page)
      BY <1>1, <2>10, <3>1 DEF Complete
    <3>2. CASE ~ LastPage(page)
      BY <1>1, <1>3, <2>10, <3>2 DEF PagingTyped, Paging, Returned
    <3> QED BY <3>1, <3>2
  <2> QED BY <2>6, <2>7, <2>9, <2>10
<1> QED BY <1>8, <1>9, <1>10, <1>11, <1>12 DEF PagingInv

LEMMA PagingStep == PagingInv /\ [PagingNext]_pagingVars => PagingInv'
<1> SUFFICES ASSUME PagingInv, [PagingNext]_pagingVars PROVE PagingInv'
  OBVIOUS
<1>1. ASSUME NEW withCount \in BOOLEAN, GetPage(withCount) PROVE PagingInv'
  BY <1>1, GetPageKeeps
<1>2. ASSUME PageUnavailable PROVE PagingInv'
  <2>1. /\ Paging /\ listing' = [listing EXCEPT !.stage = "raised"]
        /\ UNCHANGED <<collection, lost, gained, moved, edits>>
    BY <1>2 DEF PageUnavailable, Paging
  <2>2. listing \in Listings
    BY DEF PagingInv, PagingTyped
  <2>3. /\ listing' \in Listings /\ listing'.stage = "raised"
        /\ listing'.items = listing.items /\ listing'.count = listing.count
        /\ listing'.complete = listing.complete
    BY <2>1, <2>2 DEF Listings
  <2>4. PagingTyped' /\ FirstPage' /\ QuietSoFar' /\ GrownSoFar'
    BY <2>1, <2>3 DEF PagingInv, PagingTyped, FirstPage, QuietSoFar, GrownSoFar, Paging, Returned, Unrepeated
  <2>5. ShrunkSoFar'
    BY <2>1, <2>3 DEF PagingInv, ShrunkSoFar, Paging, Contents, Unrepeated
  <2> QED BY <2>4, <2>5 DEF PagingInv
<1>3. ASSUME NEW m \in Members, NEW i \in 1..(Cardinality(Members) + 1), AddMember(m, i)
      PROVE  PagingInv'
  <2>1. i \in Nat
    <3>1. i \in 1..(Len(collection) + 1)
      BY <1>3 DEF AddMember
    <3> QED BY <3>1
  <2> QED BY <1>3, <2>1, AddKeeps
<1>4. ASSUME NEW i, DeleteMember(i) PROVE PagingInv'
  BY <1>4, DeleteKeeps
<1>5. ASSUME NEW i, NEW j, MoveMember(i, j) PROVE PagingInv'
  BY <1>5, MoveKeeps
<1>6. CASE UNCHANGED pagingVars
  BY <1>6 DEF pagingVars, PagingInv, PagingTyped, FirstPage, QuietSoFar, GrownSoFar, ShrunkSoFar,
              Paging, Returned, Contents, Unrepeated
<1> QED BY <1>1, <1>2, <1>3, <1>4, <1>5, <1>6 DEF PagingNext

LEMMA PagingInvariant == PagingSpec => []PagingInv
BY PagingStarts, PagingStep, PTL DEF PagingSpec

(* A paged list is one of the members, and complete only once it is returned
   (_get_all); the collection never has a member twice. *)
THEOREM PagingTypes == PagingSpec => []PagingTypeOK
<1>1. PagingInv => PagingTypeOK
  BY DEF PagingInv, PagingTyped, PagingTypeOK, Listings
<1> QED BY <1>1, PagingInvariant, PTL

(* If the collection stays as it was, the pages of _get_all join up to
   exactly it, and it is called complete when Graph was asked for the count. *)
THEOREM QuietLists == PagingSpec => []QuietListIsExact
<1>1. PagingInv => QuietListIsExact
  BY DEF PagingInv, QuietSoFar, QuietListIsExact
<1> QED BY <1>1, PagingInvariant, PTL

(* A list that get_pages calls complete, which _sync_section_metadata lets delete the
   pages it lacks, has missed a page only if another was deleted and another
   joined while it was read: a member that joins leaves what lies before $skip
   listed, and one that goes leaves the count above what can be listed. *)
THEOREM CompleteLists == PagingSpec => []CompleteMissesOnlyUnderSwap
<1>1. ASSUME PagingInv, Returned, listing.complete, Missed # {}, moved = {}
      PROVE  lost # {} /\ gained # {}
  <2>1. PagingTyped
    BY <1>1 DEF PagingInv
  <2>2. /\ collection \in Seq(Members) /\ listing.items \in Seq(Members)
        /\ listing.count \in Nat \cup {NoCount} /\ Len(listing.items) \in Nat
    BY <2>1, LenProperties DEF PagingTyped, Listings
  <2>3. PICK m \in Contents(collection) : m \notin gained /\ m \notin Contents(listing.items)
    BY <1>1 DEF Missed
  <2>4. ASSUME lost = {} PROVE FALSE
    BY <1>1, <2>3, <2>4 DEF PagingInv, GrownSoFar, Paging, Returned, Contents
  <2>5. ASSUME gained = {} PROVE FALSE
    <3> DEFINE listed == Contents(listing.items)
               all == listed \cup Contents(collection)
    <3>1. /\ Unrepeated(listing.items) /\ listing.count # NoCount
          /\ Cardinality(all) =< listing.count /\ Len(listing.items) >= listing.count
      BY <1>1, <2>5 DEF PagingInv, ShrunkSoFar
    <3>2. IsFiniteSet(listed) /\ Cardinality(listed) = Len(listing.items)
      BY <2>2, <3>1, ContentsCounted
    <3>3. IsFiniteSet(Contents(collection))
      BY <2>2, ContentsCounted
    <3>4. IsFiniteSet(all) /\ listed \in SUBSET all
      BY <3>2, <3>3, FS_Union
    <3>5. m \in all /\ m \notin listed
      BY <2>3
    <3> HIDE DEF listed, all
    <3>6. Cardinality(listed) =< Cardinality(all) /\ Cardinality(all) \in Nat
          /\ (Cardinality(all) = Cardinality(listed) => all = listed)
      BY <3>4, FS_Subset, FS_CardinalityType
    <3>7. Cardinality(all) = Cardinality(listed)
      BY <2>2, <3>1, <3>2, <3>6
    <3> QED BY <3>5, <3>6, <3>7
  <2> QED BY <2>4, <2>5
<1>2. PagingInv => CompleteMissesOnlyUnderSwap
  BY <1>1 DEF CompleteMissesOnlyUnderSwap
<1> QED BY <1>2, PagingInvariant, PTL

(* _get_all lists a page twice only if one joined or moved meanwhile, for
   without that nothing before $skip comes after it again. *)
THEOREM UnrepeatedLists == PagingSpec => []RepeatsOnlyUnderGrowth
<1>1. PagingInv => RepeatsOnlyUnderGrowth
  BY DEF PagingInv, ShrunkSoFar, RepeatsOnlyUnderGrowth
<1> QED BY <1>1, PagingInvariant, PTL
===============================================================================
