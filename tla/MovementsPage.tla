--------------------------- MODULE MovementsPage ---------------------------
(* The list of the movements page (frontend/static/finty/js/pages/           *)
(* transactions.js) over the paginated endpoint of the finance service       *)
(* (api/pagination.py): the user turns pages, chooses filters and types in   *)
(* the search box while answers arrive in any order, late or as errors.      *)
EXTENDS Integers, FiniteSets, Sequences, SequencesExt

CONSTANTS
  Filters,      \* combinations of search and filters a user may choose
  PageSize,     \* movements of a full page
  MaxTotal,     \* bound: movements a filter selects
  MaxRequests,  \* bound: list requests in flight
  MaxPage,      \* bound: page number the script reaches, at either end
  NoData        \* nothing rendered yet

ASSUME PageAssumption ==
  PageSize \in Nat \ {0} /\ {MaxTotal, MaxRequests, MaxPage} \subseteq Nat

VARIABLES
  total,     \* movements each filter selects at the server
  form,      \* the filters on the page and whether a search timer is pending
  paging,    \* state.page and state.offsets
  requests,  \* requests in flight; latest tells the one listRequest counts
  screen     \* what the list and the pager show, and state.data

pageVars == <<total, form, paging, requests, screen>>

Pages(n) == IF n = 0 THEN 1 ELSE (n + PageSize - 1) \div PageSize
FirstPage == [number |-> 1, offsets |-> <<0>>]

\* paginate: the page asked for, or nothing when its number is out of range.
Paginate(n, number) ==
  IF number \notin 1..Pages(n) THEN {}
  ELSE {[length   |-> IF n - (number - 1) * PageSize < PageSize
                        THEN n - (number - 1) * PageSize ELSE PageSize,
         next     |-> number < Pages(n),
         previous |-> number > 1]}

\* loadList: the skeleton, the request for the filters and the page of this
\* moment. Earlier requests go on, but are no longer the latest.
LoadList(filter, pages) ==
  /\ Cardinality(requests) < MaxRequests
  /\ paging' = pages
  /\ requests' = {[r EXCEPT !.latest = FALSE] : r \in requests}
                   \cup {[filter |-> filter, number |-> pages.number, latest |-> TRUE]}
  /\ screen' = [screen EXCEPT !.list = "loading"]

InitPage ==
  /\ total \in [Filters -> 0..MaxTotal]
  /\ \E f \in Filters :
       /\ form = [filter |-> f, timer |-> FALSE]
       /\ requests = {[filter |-> f, number |-> 1, latest |-> TRUE]}
  /\ paging = FirstPage
  /\ screen = [list |-> "loading", pager |-> FALSE, first |-> 0, data |-> NoData]

----------------------------------------------------------------------------
(* The user. The pager stays enabled while a page loads: its buttons follow  *)
(* the last page that was rendered.                                          *)

NextPage ==
  /\ screen.pager /\ screen.data.next /\ paging.number < MaxPage
  /\ LoadList(form.filter,
       [number  |-> paging.number + 1,
        offsets |-> Append(paging.offsets, Last(paging.offsets) + screen.data.length)])
  /\ UNCHANGED <<total, form>>

PreviousPage ==
  /\ screen.pager /\ screen.data.previous /\ paging.number > -MaxPage
  /\ LoadList(form.filter,
       [number  |-> paging.number - 1,
        offsets |-> IF Len(paging.offsets) > 1 THEN Front(paging.offsets)
                                               ELSE paging.offsets])
  /\ UNCHANGED <<total, form>>

\* A select or a date changes: applyFilters at once, the search timer goes on.
ApplyFilters(f) ==
  /\ form' = [form EXCEPT !.filter = f]
  /\ LoadList(f, FirstPage)
  /\ UNCHANGED total

\* Each key in the search box restarts the timer; the text is read by whoever
\* loads next.
Type(f) ==
  /\ form' = [filter |-> f, timer |-> TRUE]
  /\ UNCHANGED <<total, paging, requests, screen>>

SearchTimer ==
  /\ form.timer
  /\ form' = [form EXCEPT !.timer = FALSE]
  /\ LoadList(form.filter, FirstPage)
  /\ UNCHANGED total

\* errorState's retry asks again for the page of the failed request.
Retry ==
  /\ screen.list = "error"
  /\ LoadList(form.filter, paging)
  /\ UNCHANGED <<total, form>>

\* A movement registered on this page goes back to the first page; a deleted or
\* recategorised one reloads the page shown. Each changes what filters select.
RegisterHere(f) ==
  /\ total[f] < MaxTotal /\ total' = [total EXCEPT ![f] = @ + 1]
  /\ LoadList(form.filter, FirstPage)
  /\ UNCHANGED form

RemoveMovement(f) ==
  /\ screen.data # NoData /\ total[f] > 0 /\ total' = [total EXCEPT ![f] = @ - 1]
  /\ LoadList(form.filter, paging)
  /\ UNCHANGED form

----------------------------------------------------------------------------
(* Answers, in any order.                                                    *)

Settled(r) == requests' = requests \ {r} /\ UNCHANGED <<total, form>>

Stale(r) ==
  /\ ~r.latest
  /\ Settled(r)
  /\ UNCHANGED <<paging, screen>>

\* renderList: an empty result hides the pager, another shows its range.
RenderList(r, body) ==
  LET data == [filter |-> r.filter, number |-> r.number, length |-> body.length,
               next |-> body.next, previous |-> body.previous]
  IN
  /\ screen' = IF body.length = 0
                 THEN [list |-> "empty", pager |-> FALSE, first |-> screen.first, data |-> data]
                 ELSE [list |-> "rows", pager |-> TRUE, first |-> Last(paging.offsets) + 1,
                       data |-> data]
  /\ UNCHANGED paging

\* A bug, for ListIsCurrent: every answer is rendered, whichever request it is of.
AnswerAny(r) ==
  /\ Settled(r)
  /\ \E body \in Paginate(total[r.filter], r.number) : RenderList(r, body)

Answer(r) ==
  /\ r.latest
  /\ Settled(r)
  /\ \E body \in Paginate(total[r.filter], r.number) : RenderList(r, body)

\* 404 beyond the last page: back to the first one, in the same turn.
PageGone(r) ==
  /\ r.latest
  /\ Paginate(total[r.filter], r.number) = {}
  /\ paging.number > 1
  /\ paging' = FirstPage
  /\ requests' = (requests \ {r})
                   \cup {[filter |-> form.filter, number |-> 1, latest |-> TRUE]}
  /\ screen' = [screen EXCEPT !.list = "loading"]
  /\ UNCHANGED <<total, form>>

\* Any other failure, which the network may also cause.
Failed(r) ==
  /\ r.latest
  /\ Settled(r)
  /\ screen' = [screen EXCEPT !.list = "error", !.pager = FALSE]
  /\ UNCHANGED paging

NextMovementsPage ==
  \/ NextPage
  \/ PreviousPage
  \/ \E f \in Filters : ApplyFilters(f) \/ Type(f) \/ RegisterHere(f) \/ RemoveMovement(f)
  \/ SearchTimer
  \/ Retry
  \/ \E r \in requests : Stale(r) \/ Answer(r) \/ PageGone(r) \/ Failed(r)

SpecPage == InitPage /\ [][NextMovementsPage]_pageVars

----------------------------------------------------------------------------
(* What can go wrong: answers out of order, and pages turned twice before    *)
(* the first answer.                                                         *)

AtRestWith(list) == screen.list = list /\ ~form.timer

\* However requests overlap, fail or arrive late, once the page is at rest its
\* list is that of the filters and the page number the script holds, and no
\* loading skeleton stays without a request that will replace it (loadList).
ListIsCurrent ==
  /\ \A list \in {"rows", "empty"} : AtRestWith(list) =>
       screen.data.filter = form.filter /\ screen.data.number = paging.number
  /\ screen.list = "loading" <=> \E r \in requests : r.latest

\* The range "Mostrando a-b" beside the list is the position of the movements it
\* shows (renderList, and the comment on state.offsets).
RangeIsTrue ==
  screen.list = "rows" => screen.first = (screen.data.number - 1) * PageSize + 1
=============================================================================
