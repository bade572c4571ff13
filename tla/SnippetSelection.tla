--------------------------- MODULE SnippetSelection ---------------------------
(***************************************************************************)
(* Which passages a search answers with (services/search_service.py:       *)
(* _score_windows, _absorb, _assemble).  Every match of a query term is a  *)
(* window of text; the windows are taken best first, merged when they      *)
(* overlap, and cut off by a count, a cap per page and a budget of         *)
(* characters.                                                             *)
(*                                                                         *)
(* The scores only order the windows, so here they come in any order, and  *)
(* as often as they like: whatever holds then holds for every ranking and  *)
(* for a query that repeats a term.                                        *)
(***************************************************************************)
EXTENDS Integers, FiniteSets, FiniteSetsExt

CONSTANTS
  Pages,               (* the pages with content among the CANDIDATE_PAGES      *)
  ContentLength,       (* their len(content)                                    *)
  LoweredLength,       (* their len(content.lower()), which may be more         *)
  PathLength,          (* the length of their breadcrumbs                       *)
  TermLengths,         (* the lengths of the query's terms, lowered             *)
  HalfWidth,           (* SNIPPET_HALF_WIDTH                                    *)
  MaxSnippetChars,     (* MAX_SNIPPET_CHARS                                     *)
  MaxSnippets,         (* MAX_SNIPPETS                                          *)
  MaxSnippetsPerPage,  (* MAX_SNIPPETS_PER_PAGE                                 *)
  ResponseBudget,      (* RESPONSE_BUDGET_CHARS                                 *)
  Overhead             (* _JSON_OVERHEAD_PER_SNIPPET                            *)

ASSUME SnippetAssumption ==
  /\ {ContentLength, LoweredLength, PathLength} \subseteq [Pages -> Nat]
  /\ TermLengths \subseteq Nat \ {0}
  /\ {HalfWidth, MaxSnippets, MaxSnippetsPerPage, ResponseBudget, Overhead} \subseteq Nat
  /\ MaxSnippetChars \in Nat \ {0}

VARIABLES
  chosen,     (* the windows taken so far                                       *)
  usedChars,  (* used_chars                                                     *)
  answered,   (* has the loop ended?                                            *)
  matched     (* history: the text of all windows that were taken or absorbed   *)

snippetVars == <<chosen, usedChars, answered, matched>>

----------------------------------------------------------------------------
(* A window is half-open, from `start` up to `end`.  A match is found in the     *)
(* lowered content and cut from the content, so a window may lie past the end,  *)
(* with its start after its end and no text in it.                              *)

SmallerOf(a, b) == IF a =< b THEN a ELSE b
LargerOf(a, b) == IF a >= b THEN a ELSE b
Width(w) == w.end - w.start

TextOf(w) == {<<w.page, i>> : i \in w.start..(w.end - 1)}

(* The window around a term of this length found at `index`; only its end is
   clipped to the page *)
WindowAt(p, index, length) ==
  [page |-> p, start |-> LargerOf(0, index - HalfWidth),
   end |-> SmallerOf(ContentLength[p], index + length + HalfWidth)]

Candidates ==
  UNION {{WindowAt(p, index, length) : index \in 0..(LoweredLength[p] - length)} :
           p \in Pages, length \in TermLengths}

(* Overlapping or touching, on one page *)
Meets(v, w) == v.page = w.page /\ v.start =< w.end /\ v.end >= w.start

(* Mutant: a widened window ends where the candidate does *)
WidenedToCandidate(w, c) == [w EXCEPT !.start = SmallerOf(w.start, c.start), !.end = c.end]

Widened(w, c) ==
  [w EXCEPT !.start = SmallerOf(w.start, c.start), !.end = LargerOf(w.end, c.end)]

(* Mutant: the widened window may run into the next *)
AbsorbableUnlessLong(w, c) == Width(Widened(w, c)) =< MaxSnippetChars

(* May `w` be widened to cover `c`? *)
Absorbable(w, c) ==
  /\ \A v \in chosen \ {w} : ~ Meets(Widened(w, c), v)
  /\ Width(Widened(w, c)) =< MaxSnippetChars

(* Mutant: the budget is charged for the whole candidate *)
GainedWhole(w, c) == Width(c)

Gained(w, c) == Width(Widened(w, c)) - Width(w)

Cost(c) == Width(c) + PathLength[c.page] + Overhead

----------------------------------------------------------------------------
(* The loop of _assemble *)

Full == Cardinality(chosen) >= MaxSnippets \/ usedChars >= ResponseBudget

(* _absorb widens the window the candidate meets.  A candidate that meets two
   is absorbed by neither: widening one would make it meet the other.  What is
   not absorbed is dropped, which changes nothing. *)
AbsorbCandidate(c) ==
  /\ ~ answered /\ ~ Full
  /\ \E w \in chosen :
       /\ Meets(w, c) /\ Absorbable(w, c)
       /\ chosen' = (chosen \ {w}) \cup {Widened(w, c)}
       /\ usedChars' = usedChars + Gained(w, c)
  /\ matched' = matched \cup TextOf(c)
  /\ UNCHANGED answered

(* Mutant: the window that crosses the budget is taken before the loop ends *)
FitsBudgetSoFar(c) == usedChars =< ResponseBudget
FitsBudget(c) == chosen = {} \/ usedChars + Cost(c) =< ResponseBudget

(* `copy` tells equal windows apart, of which there may be several past the end
   of a page, where a window does not even meet itself *)
Taken(c) ==
  [page |-> c.page, start |-> c.start, end |-> c.end,
   copy |-> IF Meets(c, c) THEN 0 ELSE Cardinality(chosen)]

(* A candidate that meets nothing gets a slot, or ends the loop; its length is
   not looked at *)
TakeCandidate(c) ==
  /\ ~ answered /\ ~ Full
  /\ \A w \in chosen : ~ Meets(w, c)
  /\ Cardinality({w \in chosen : w.page = c.page}) < MaxSnippetsPerPage
  /\ \/ /\ FitsBudget(c)
        /\ chosen' = chosen \cup {Taken(c)}
        /\ usedChars' = usedChars + Cost(c)
        /\ matched' = matched \cup TextOf(c)
        /\ UNCHANGED answered
     \/ /\ ~ FitsBudget(c)
        /\ answered' = TRUE
        /\ UNCHANGED <<chosen, usedChars, matched>>

(* The response is full, or the windows have run out *)
Answer ==
  /\ ~ answered
  /\ answered' = TRUE
  /\ UNCHANGED <<chosen, usedChars, matched>>

SnippetInit == chosen = {} /\ usedChars = 0 /\ answered = FALSE /\ matched = {}

SnippetNext == Answer \/ \E c \in Candidates : AbsorbCandidate(c) \/ TakeCandidate(c)

SnippetSpec == SnippetInit /\ [][SnippetNext]_snippetVars

----------------------------------------------------------------------------
(* Every variable holds what the loop can store there; every window ends in
   its page's content, and begins there or has no text. *)
SnippetTypeOK ==
  /\ chosen \subseteq [page : Pages, start : Nat, end : Nat, copy : Nat]
  /\ \A w \in chosen :
       w.end =< ContentLength[w.page] /\ (w.start =< w.end \/ w.end = ContentLength[w.page])
  /\ usedChars \in Int
  /\ answered \in BOOLEAN
  /\ matched \subseteq Pages \X Nat

(* The snippets of a page neither overlap nor touch, however they were widened:
   no text is sent twice and no two snippets could be one. *)
SnippetsAreDisjoint ==
  \A v, w \in chosen :
    v # w /\ v.page = w.page => v.end < w.start \/ w.end < v.start

(* However windows grow over one another's matches, an answer has all the text
   of every window it has taken or absorbed, and no other: widening never takes
   back what an earlier match brought, and never fills a gap between two. *)
AnswerIsWhatMatched ==
  matched = UNION {TextOf(w) : w \in chosen}

(* used_chars, which the loop keeps up by costs and gains, is what the snippets
   as they are now take on the wire. *)
BudgetIsAccounted ==
  usedChars = MapThenSumSet(Cost, chosen)

(* Absorbing does not look at the budget, so the response may exceed it, but by
   less than the ceiling of a snippet; a lone snippet is taken whatever it costs,
   and a term has no longest length. *)
OverrunIsOneAbsorption ==
  \/ usedChars < ResponseBudget + MaxSnippetChars
  \/ Cardinality(chosen) = 1
=============================================================================
