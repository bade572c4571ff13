---------------------------- MODULE PageContent ----------------------------
(***************************************************************************)
(* From a OneNote page to the text that is searched: how one page is       *)
(* fetched, parsed, composed, read by OCR and stored (SyncService.         *)
(* _build_page_content_result and what it calls in graph_client.py,        *)
(* pdf_extract.py and ocr_client.py).  Each call may fail, and each in its *)
(* own way: an image is skipped, the beta endpoint is replaced by v1.0,    *)
(* anything else fails the page.                                           *)
(*                                                                         *)
(* Text is what the properties tell apart: which of the page's pieces went *)
(* into the content.  A piece is <<block, what>> or <<attachment, what>>.  *)
(***************************************************************************)
EXTENDS Naturals

CONSTANTS
  Blocks,       (* the absolutely positioned children of the body              *)
  Attachments   (* its <object>s of a PDF                                      *)

Layouts == [typed : BOOLEAN, picture : {"none", "loose", "printout"}, inked : BOOLEAN]
PdfLayouts == [embedded : BOOLEAN, scanned : BOOLEAN]

VARIABLES
  body,     (* OneNote: what each block holds                                  *)
  pdfs,     (* OneNote: has the PDF embedded text, pages with too little of it? *)
  vision,   (* is there an OCR client?                                         *)
  build,    (* the result being built                                          *)
  stored    (* the row of `pages`                                              *)

pageVars == <<body, pdfs, vision, build, stored>>

NoBuild == [stage |-> "idle", strokes |-> FALSE, fetched |-> {}, text |-> {}, toExtract |-> {}]

----------------------------------------------------------------------------
(* The elements _parse_page_elements makes of the HTML *)

(* A block with a picture is that picture, its text is not looked for; the
   printouts are skipped, for their PDF is attached *)
ImageBlocks == {b \in Blocks : body[b].picture = "loose"}

TextBlocks == {b \in Blocks : body[b].typed /\ body[b].picture = "none" /\ ~body[b].inked}
InkBlocks == {b \in Blocks : body[b].inked}

(* What the response gives to work on, with or without its InkML part *)
Parsed(inkml) ==
  [NoBuild EXCEPT !.strokes = inkml /\ InkBlocks # {},
                  !.text = {<<b, "typed">> : b \in TextBlocks},
                  !.toExtract = Attachments]

(* OCR of a picture that shows these pieces; an error of it fails the page *)
Recognised(pieces) == IF vision THEN pieces ELSE {}

----------------------------------------------------------------------------
(* _build_page_content_result *)

Failed == [stored EXCEPT !.status = "FAILED"]

(* Whatever a call raises ends here; the content stays what it was *)
FailPage ==
  /\ build.stage # "idle"
  /\ build' = NoBuild
  /\ stored' = Failed
  /\ UNCHANGED <<body, pdfs, vision>>

(* The TaskGroup cancels the pages under way when storing another one fails *)
AbandonPage ==
  /\ build.stage # "idle"
  /\ build' = NoBuild
  /\ UNCHANGED <<body, pdfs, vision, stored>>

(* get_page_content_with_ink: the beta endpoint gives the HTML and, mostly,
   the strokes; the v1.0 one, if it fails, the HTML alone *)
GetContent ==
  /\ build.stage = "idle"
  /\ \E inkml \in BOOLEAN : build' = [Parsed(inkml) EXCEPT !.stage = "images"]
  /\ UNCHANGED <<body, pdfs, vision, stored>>

(* Neither endpoint gives the HTML *)
GetNoContent ==
  /\ build.stage = "idle"
  /\ stored' = Failed
  /\ UNCHANGED <<body, pdfs, vision, build>>

(* _fetch_page_images: one after the other, those that fail are skipped *)
FetchImages ==
  /\ build.stage = "images"
  /\ \E fetched \in SUBSET ImageBlocks :
       build' = [build EXCEPT !.stage = "composing", !.fetched = fetched]
  /\ UNCHANGED <<body, pdfs, vision, stored>>

(* What the canvas shows: the pictures that could be drawn, and the ink *)
Canvas(drawn) ==
  {<<b, "picture">> : b \in drawn} \cup {<<b, "ink">> : b \in IF build.strokes THEN InkBlocks ELSE {}}

(* composite_page, which skips an image that will not decode, and one OCR of
   the whole canvas *)
ReadComposite ==
  /\ build.stage = "composing"
  /\ \E drawn \in SUBSET build.fetched :
       build' = [build EXCEPT
         !.stage = "extracting",
         !.text = @ \cup Recognised(Canvas(drawn))]
  /\ UNCHANGED <<body, pdfs, vision, stored>>

(* What extract_pdf and merge_pdf_text make of an attachment: the embedded
   text always, the scanned pages if they can be read *)
PdfText(d) ==
  LET Holds(what) == IF pdfs[d][what] THEN {<<d, what>>} ELSE {}
  IN  Holds("embedded") \cup Recognised(Holds("scanned"))

(* Mutant: a PDF that fails is skipped, as an image is *)
ExtractPdfOrSkip(d) ==
  /\ build.stage = "extracting" /\ d \in build.toExtract
  /\ \E text \in {PdfText(d), {}} :
       build' = [build EXCEPT !.toExtract = @ \ {d}, !.text = @ \cup text]
  /\ UNCHANGED <<body, pdfs, vision, stored>>

(* _extract_pdf_attachments, one attachment *)
ExtractPdf(d) ==
  /\ build.stage = "extracting" /\ d \in build.toExtract
  /\ build' = [build EXCEPT !.toExtract = @ \ {d}, !.text = @ \cup PdfText(d)]
  /\ UNCHANGED <<body, pdfs, vision, stored>>

(* _assemble_page_content and _apply_page_content_result *)
StoreContent ==
  /\ build.stage = "extracting" /\ build.toExtract = {}
  /\ stored' = [status |-> "FRESH", content |-> build.text]
  /\ build' = NoBuild
  /\ UNCHANGED <<body, pdfs, vision>>

PageInit ==
  /\ body \in [Blocks -> Layouts]
  /\ pdfs \in [Attachments -> PdfLayouts]
  /\ vision \in BOOLEAN
  /\ build = NoBuild
  /\ stored = [status |-> "PENDING", content |-> {}]

PageNext ==
  \/ GetContent \/ GetNoContent \/ FetchImages \/ ReadComposite
  \/ \E d \in Attachments : ExtractPdf(d)
  \/ StoreContent \/ FailPage \/ AbandonPage

PageSpec == PageInit /\ [][PageNext]_pageVars

----------------------------------------------------------------------------
Pieces == (Blocks \X {"typed", "picture", "ink"}) \cup (Attachments \X {"embedded", "scanned"})

(* Every variable holds what the code can store there. *)
PageTypeOK ==
  /\ body \in [Blocks -> Layouts]
  /\ pdfs \in [Attachments -> PdfLayouts]
  /\ vision \in BOOLEAN
  /\ build \in [stage : {"idle", "images", "composing", "extracting"}, strokes : BOOLEAN,
                fetched : SUBSET Blocks, text : SUBSET Pieces, toExtract : SUBSET Attachments]
  /\ stored \in [status : {"PENDING", "FRESH", "FAILED"}, content : SUBSET Pieces]

Typed == {<<b, "typed">> : b \in {c \in Blocks : body[c].typed}}
Embedded == {<<d, "embedded">> : d \in {e \in Attachments : pdfs[e].embedded}}

(* Typed text that shares its block with a picture or with ink *)
Shadowed == {<<b, "typed">> : b \in {c \in Blocks : body[c].picture # "none" \/ body[c].inked}}

(* A page that is FRESH, and so will not be fetched again before it changes,
   has all the text that needs no recognition, whichever of its images, its
   ink and its scans failed and whichever endpoint answered: the typed blocks
   and every attachment's own text.  It loses the typed text that shares its
   block with a picture or with ink, also when nothing failed. *)
FreshPagesKeepTheirText ==
  stored.status = "FRESH" => (Typed \ Shadowed) \cup Embedded \subseteq stored.content
=============================================================================
