------------------------------- MODULE Search -------------------------------
(***************************************************************************)
(* The catalogue search of Browse (src/tui/view/browse.rs, the search keys *)
(* of src/tui/app.rs, spawn_search of src/tui/workers.rs): a debounced     *)
(* query, pages fetched by detached workers that answer in any order, and  *)
(* a result list that only an answer to the live query may touch.          *)
(***************************************************************************)
EXTENDS Integers, FiniteSets, Sequences, SequencesExt

CONSTANTS
    Queries,       \* what may stand in the search buffer, NoQuery among it
    LastPage,      \* LastPage[q]: pages AniList has for q
    MaxSearches    \* bound of the run: fetches in flight

NoQuery == ""

ASSUME SearchAssumption ==
    /\ NoQuery \in Queries /\ MaxSearches \in Nat
    /\ LastPage \in [Queries \ {NoQuery} -> Nat \ {0}]

VARIABLES
    typing,      \* InputMode::Search on the Browse view
    query,       \* the buffer
    due,         \* the debounce is armed
    started,     \* the spinner
    asked,       \* fetches in flight, oldest first: <<query, page>>
    results,     \* the rows, two to a page: <<query, page, half>>
    answered,    \* the query the rows answered, or NoQuery
    page,        \* pages applied
    hasNext,
    cursor,
    outage       \* the persistent "can't reach AniList" toast

searchVars == <<typing, query, due, started, asked, results, answered, page, hasNext, cursor, outage>>

SearchTypeOK ==
    /\ {query, answered} \subseteq Queries
    /\ {typing, due, started, hasNext, outage} \subseteq BOOLEAN
    /\ asked \in Seq((Queries \ {NoQuery}) \X Nat) /\ Len(asked) <= MaxSearches
    /\ cursor \in 0 .. (IF results = <<>> THEN 0 ELSE Len(results) - 1)
    /\ page \in Nat

SearchInit ==
    /\ typing = FALSE /\ query = NoQuery /\ due = FALSE /\ started = FALSE
    /\ asked = <<>> /\ results = <<>> /\ answered = NoQuery /\ page = 0
    /\ hasNext = FALSE /\ cursor = 0 /\ outage = FALSE

resultList == <<results, answered, page, hasNext, outage>>

\* Two rows, or one on the last page.
PageRows(q, p) ==
    IF p = LastPage[q] THEN <<<<q, p, 1>>>> ELSE <<<<q, p, 1>>, <<q, p, 2>>>>

-----------------------------------------------------------------------------
\* `/` and F1 open the prompt and leave it; enter keeps the query.
TogglePrompt ==
    /\ typing' = ~typing
    /\ UNCHANGED <<query, due, started, asked, resultList, cursor>>

\* on_search_char, on_search_backspace: every edit arms the debounce again.
EditQuery(q) ==
    /\ typing /\ q # query
    /\ query' = q /\ due' = TRUE
    /\ UNCHANGED <<typing, started, asked, resultList, cursor>>

\* close_search: esc clears the query and leaves the debounce as it is.
CloseSearch ==
    /\ typing /\ typing' = FALSE
    /\ query' = NoQuery
    /\ UNCHANGED <<due, started, asked, resultList, cursor>>

\* The spinner stands while a thread is there to end it.
Fetches(q, p) ==
    \/ started' = TRUE /\ asked' = Append(asked, <<q, p>>)
    \/ started' = FALSE /\ UNCHANGED asked

\* maybe_fire: an empty buffer fetches nothing.
FireSearch ==
    /\ due /\ due' = FALSE
    /\ Len(asked) < MaxSearches
    /\ IF query = NoQuery THEN UNCHANGED <<started, asked>> ELSE Fetches(query, 1)
    /\ UNCHANGED <<typing, query, resultList, cursor>>

\* maybe_load_more: more is there, nothing is under way, and the rows are those
\* of the live buffer.
MoreWanted == hasNext /\ ~started /\ answered = query

\* on_browse_nav downwards, then the load at the end.
MoveDown ==
    /\ ~typing /\ results # <<>>
    /\ cursor' = IF cursor + 1 < Len(results) THEN cursor + 1 ELSE cursor
    /\ IF cursor' + 1 = Len(results) /\ MoreWanted /\ Len(asked) < MaxSearches
       THEN Fetches(query, page + 1)
       ELSE UNCHANGED <<started, asked>>
    /\ UNCHANGED <<typing, query, due, resultList>>

MoveUp ==
    /\ ~typing /\ results # <<>>
    /\ cursor' \in {IF cursor = 0 THEN 0 ELSE cursor - 1, 0, Len(results) - 1}
    /\ UNCHANGED <<typing, query, due, started, asked, resultList>>

\* Mutated form: an answer is filed whatever the buffer holds.
LiveAny(q) == TRUE

\* An answer is stale once the buffer has moved on.
Live(q) == q = query

\* Mutated form: later pages are appended as they come.
InOrderAny(q, p) == TRUE

\* A later page follows the last one applied, of the same query.
InOrder(q, p) == p = 1 \/ (answered = q /\ p = page + 1)

\* Mutated form: the cursor stays where it was.
CursorKept(p) == cursor

CursorAfter(p) == IF p = 1 THEN 0 ELSE cursor

\* on_done, on_search_done; page 1 replaces, a later page appends.
SearchDone(i) ==
    LET q == asked[i][1]
        p == asked[i][2]
    IN  /\ asked' = RemoveAt(asked, i)
        /\ started' = (started /\ ~Live(q))
        /\ IF Live(q) /\ InOrder(q, p)
           THEN /\ results' = IF p = 1 THEN PageRows(q, 1) ELSE results \o PageRows(q, p)
                /\ cursor' = CursorAfter(p)
                /\ answered' = q /\ page' = p /\ hasNext' = (p < LastPage[q])
                /\ outage' = FALSE
           ELSE UNCHANGED <<resultList, cursor>>
        /\ UNCHANGED <<typing, query, due>>

\* Mutated form: a failure leaves the spinner to the answer that never comes.
SpinsAfterFailure(q) == started

SpinsOn(q) == started /\ ~Live(q)

\* on_failed: the rows stay, the outage is told if it is the live query's.
SearchFailed(i) ==
    LET q == asked[i][1]
    IN  /\ asked' = RemoveAt(asked, i)
        /\ started' = SpinsOn(q)
        /\ outage' = (outage \/ Live(q))
        /\ UNCHANGED <<typing, query, due, results, answered, page, hasNext, cursor>>

SearchAnswers == \E i \in DOMAIN asked : SearchDone(i) \/ SearchFailed(i)

SearchNext ==
    \/ TogglePrompt \/ CloseSearch \/ FireSearch \/ MoveDown \/ MoveUp
    \/ \E q \in Queries : EditQuery(q)
    \/ SearchAnswers

\* Workers answer, each of them, and the clock ticks.
SearchFairness ==
    /\ WF_searchVars(FireSearch)
    /\ WF_searchVars(asked # <<>> /\ (SearchDone(1) \/ SearchFailed(1)))

SearchSpec == SearchInit /\ [][SearchNext]_searchVars /\ SearchFairness

-----------------------------------------------------------------------------
(***************************************************************************)
(* Properties.                                                             *)
(***************************************************************************)

\* The rows are the pages 1 to `page` of one query, each once, in order, however
\* the answers of two fetches of a query crossed (on_done).
RowsOfOneQuery ==
    /\ results = FlattenSeq([p \in 1 .. page |-> PageRows(answered, p)])
    /\ page > 0 => hasNext = (page < LastPage[answered])

\* Rows change under the cursor only for an answer to the live query: what was
\* selected stays selected while the buffer moves on.
RowsAnswerLive == [][results' # results => answered' = query]_searchVars

\* A spinner over a query ends, or the query is edited.
SpinsOverQuery == started /\ query # NoQuery /\ ~due
SearchSettles == SpinsOverQuery ~> ~SpinsOverQuery

\* Rows are pages of one query in order, and change only for the live query
\* (BrowseState::on_done).
SearchHonest == []RowsOfOneQuery /\ RowsAnswerLive
=============================================================================
