------------------------------ MODULE Discover ------------------------------
(***************************************************************************)
(* The Discover grid (src/tui/view/discover.rs, src/tui/covers/discover.rs)*)
(* : one feed slot per axis, pages fetched by detached workers and filed   *)
(* into the slot they were asked for, the cursor over the card grid, and   *)
(* the pump that keeps a bounded number of cover fetches under way for     *)
(* what is on screen and a bounded pool of covers behind it.               *)
(***************************************************************************)
EXTENDS Integers, FiniteSets, Sequences, SequencesExt

CONSTANTS
    Axes,           \* feeds
    FeedPages,      \* FeedPages[a]: pages AniList has for the axis
    PageSize,       \* cards of a page
    MaxFeedRows,    \* MAX_FEED_ROWS
    Cols, Rows,     \* GridGeo: columns, card-rows on screen
    CoverCap,       \* config: cover fetches at once
    PoolCap         \* DISCOVER_COVER_CAP

ASSUME DiscoverAssumption ==
    /\ FeedPages \in [Axes -> Nat \ {0}]
    /\ {PageSize, MaxFeedRows, Cols, Rows, CoverCap, PoolCap} \subseteq Nat \ {0}

VARIABLES
    axis,        \* the axis on screen
    feed,        \* feed[a]: [page, rows, failed, exhausted, cursor, top]
    loading,     \* axes whose slot waits for an answer
    feedAsked,   \* feed fetches in flight: <<axis, page, n>>, the nth of its page
    cover,       \* cover[u] of the pool: "absent", "idle", "loading", "ready", "failed"
    fetching,    \* covers a worker is fetching: what the drain counts
    arriving      \* covers whose answer is posted and not handled

discoverVars == <<axis, feed, loading, feedAsked, cover, fetching, arriving>>
feedVars == <<axis, feed, loading, feedAsked>>
coverVars == <<cover, fetching, arriving>>

\* A url names a card of its axis.
Cards(a) == {<<a, n>> : n \in 1 .. PageSize * FeedPages[a]}
Urls == UNION {Cards(a) : a \in Axes}
PageCards(a, p) == [k \in 1 .. PageSize |-> <<a, PageSize * (p - 1) + k>>]

EmptySlot == [page |-> 0, rows |-> <<>>, failed |-> FALSE, exhausted |-> FALSE, cursor |-> 0, top |-> 0]

DiscoverTypeOK ==
    /\ axis \in Axes /\ loading \subseteq Axes
    /\ \A a \in Axes :
        /\ feed[a].cursor \in 0 .. (IF feed[a].rows = <<>> THEN 0 ELSE Len(feed[a].rows) - 1)
        /\ feed[a].cursor \div Cols \in feed[a].top .. feed[a].top + Rows - 1
    /\ cover \in [Urls -> {"absent", "idle", "loading", "ready", "failed"}]
    /\ fetching \subseteq Urls /\ arriving \subseteq Urls

DiscoverInit ==
    /\ axis \in Axes
    /\ feed = [a \in Axes |-> EmptySlot]
    /\ loading = {} /\ feedAsked = {}
    /\ cover = [u \in Urls |-> "absent"] /\ fetching = {} /\ arriving = {}

-----------------------------------------------------------------------------
(***************************************************************************)
(* The feeds.                                                              *)
(***************************************************************************)
PrefetchRows == 2

\* cycle_axis, select_axis: the slot on screen may be asked for again.
SelectAxis(a) ==
    /\ axis' = a
    /\ feed' = [feed EXCEPT ![a].failed = FALSE]
    /\ UNCHANGED <<loading, feedAsked, coverVars>>

\* clamp_scroll: the card-row of the cursor is on screen.
ClampTop(s) ==
    LET row == s.cursor \div Cols
        top == IF s.top > row THEN row ELSE s.top
    IN  [s EXCEPT !.top = IF row >= top + Rows THEN row + 1 - Rows ELSE top]

\* Mutated form: one past the last card.
GridClampPast(n, len) == IF n < 0 THEN 0 ELSE IF n > len THEN len ELSE n

GridClamp(n, len) == IF n < 0 THEN 0 ELSE IF n > len - 1 THEN len - 1 ELSE n

\* nav: left and right wrap within a card-row, up and down are clamped.
Nav(dx, dy) ==
    LET s == feed[axis]
        len == Len(s.rows)
        start == (s.cursor \div Cols) * Cols
        width == IF len - start < Cols THEN len - start ELSE Cols
    IN  /\ len > 0
        /\ feed' = [feed EXCEPT ![axis] = ClampTop([s EXCEPT !.cursor =
              IF dx # 0 THEN start + ((s.cursor - start + dx) % width)
              ELSE GridClamp(s.cursor + dy * Cols, len)])]
        /\ UNCHANGED <<axis, loading, feedAsked, coverVars>>

\* Mutated form: a slot that waits for its answer asks again.
HoldsOpen(s, a) == s.failed \/ s.exhausted

\* A slot that waits, has failed or is exhausted asks for nothing.
Holds(s, a) == a \in loading \/ s.failed \/ s.exhausted

\* wanted_fetch: the first page, or the next one near the end of the cards.
Wanted(a) ==
    LET s == feed[a]
        last == (Len(s.rows) - 1) \div Cols
    IN  /\ ~Holds(s, a)
        /\ s.rows = <<>> \/ last - (s.cursor \div Cols) <= PrefetchRows

\* tick_discover, fire_fetch: a thread that cannot be had leaves no spinner.
FireFetch ==
    /\ Wanted(axis)
    /\ loading' = loading \cup {axis}
    /\ LET p == IF feed[axis].rows = <<>> THEN 1 ELSE feed[axis].page + 1
           n == 1 + Cardinality({r \in feedAsked : r[1] = axis /\ r[2] = p})
       IN  feedAsked' = feedAsked \cup {<<axis, p, n>>}
    /\ UNCHANGED <<axis, feed, coverVars>>

\* No more pages, or as many rows as a slot holds.
Full(a, p, rows) == p >= FeedPages[a] \/ Len(rows) >= MaxFeedRows

\* Mutated form: a page is filed where the user is looking.
FiledUnder(a) == axis

FiledOn(a) == a

\* on_feed: a page out of order is dropped; the slot waits no longer.
FeedDone(r) ==
    LET a == FiledOn(r[1])
        s == feed[a]
        rows == s.rows \o PageCards(r[1], r[2])
    IN  /\ feedAsked' = feedAsked \ {r}
        /\ loading' = loading \ {a}
        /\ feed' = [feed EXCEPT ![a] =
              IF r[2] # s.page + 1 THEN s
              ELSE [s EXCEPT !.rows = rows, !.page = r[2], !.failed = FALSE,
                             !.exhausted = Full(a, r[2], rows)]]
        /\ UNCHANGED <<axis, coverVars>>

\* on_feed_error: sticky until an axis key.
FeedFails(r) ==
    /\ feedAsked' = feedAsked \ {r}
    /\ loading' = loading \ {r[1]}
    /\ feed' = [feed EXCEPT ![r[1]].failed = TRUE]
    /\ UNCHANGED <<axis, coverVars>>

-----------------------------------------------------------------------------
(***************************************************************************)
(* The covers.                                                             *)
(***************************************************************************)
Pool == {u \in Urls : cover[u] # "absent"}

\* The cards on screen and one card-row behind, in order.
Window ==
    LET s == feed[axis]
    IN  SubSeq(s.rows, s.top * Cols + 1,
               IF Len(s.rows) < (s.top + Rows + 1) * Cols THEN Len(s.rows) ELSE (s.top + Rows + 1) * Cols)

\* Mutated form: whatever is oldest goes.
EvictableAny(u) == TRUE

\* Neither on screen nor under way.
Evictable(u) == cover[u] # "loading" /\ u \notin ToSet(Window)

\* evict_past_cap: as many as are over the limit go; which of them were off
\* screen longest is left open.
Evicts(gone) ==
    LET able == {u \in Pool : Evictable(u)}
        over == Cardinality(Pool) - PoolCap
    IN  /\ gone \subseteq able
        /\ Cardinality(gone) = IF over < 0 THEN 0 ELSE IF over < Cardinality(able) THEN over ELSE Cardinality(able)

FailedCovers == {u \in Urls : cover[u] = "failed"}

NeedsFetch(u) == cover[u] \in {"absent", "idle"}

\* Mutated form: the room of the fetches under way is given out again.
RoomAll == CoverCap

Room == IF Cardinality(fetching) >= CoverCap THEN 0 ELSE CoverCap - Cardinality(fetching)

\* Mutated form: a cover nobody fetches stays marked.
AfterRefusalMarked == "loading"

\* reset_loading: no thread could be had.
AfterRefusal == "idle"

\* The places that are served while there is room: those in front.
InFront(places, wants) ==
    /\ Cardinality(places) = IF Room < Cardinality(wants) THEN Room ELSE Cardinality(wants)
    /\ \A j \in places, k \in wants \ places : j < k

\* pump: eviction, then the first urls of the window that need a fetch (never
\* fetched, or failed and cooled down since); each finds a thread or is refused.
Pump ==
    /\ feed[axis].rows # <<>>
    /\ \E gone \in SUBSET Pool, cooled \in SUBSET FailedCovers :
        LET wants == {k \in DOMAIN Window : NeedsFetch(Window[k]) \/ Window[k] \in cooled}
        IN \E places \in SUBSET wants :
            LET chosen == {Window[k] : k \in places} IN
            /\ InFront(places, wants)
            /\ Evicts(gone)
            /\ \E refused \in SUBSET chosen :
                /\ cover' = [u \in Urls |-> IF u \in refused THEN AfterRefusal
                                            ELSE IF u \in chosen THEN "loading"
                                            ELSE IF u \in gone THEN "absent" ELSE cover[u]]
                /\ fetching' = fetching \cup (chosen \ refused)
    /\ UNCHANGED <<feedVars, arriving>>

\* The worker posts and is counted no longer; its slot waits for the handler.
CoverPosted(u) ==
    /\ u \in fetching /\ fetching' = fetching \ {u}
    /\ arriving' = arriving \cup {u}
    /\ UNCHANGED <<feedVars, cover>>

\* adopt: wherever the grid has moved meanwhile.
CoverLands(u) ==
    /\ u \in arriving /\ arriving' = arriving \ {u}
    /\ cover' = [cover EXCEPT ![u] = "ready"]
    /\ UNCHANGED <<feedVars, fetching>>

\* note_failure.
CoverFails(u) ==
    /\ u \in arriving /\ arriving' = arriving \ {u}
    /\ cover' = [cover EXCEPT ![u] = "failed"]
    /\ UNCHANGED <<feedVars, fetching>>

DiscoverNext ==
    \/ \E a \in Axes : SelectAxis(a)
    \/ \E d \in {-1, 1} : Nav(d, 0) \/ Nav(0, d)
    \/ FireFetch \/ Pump
    \/ \E r \in feedAsked : FeedDone(r) \/ FeedFails(r)
    \/ \E u \in Urls : CoverPosted(u) \/ CoverLands(u) \/ CoverFails(u)

DiscoverSpec == DiscoverInit /\ [][DiscoverNext]_discoverVars

-----------------------------------------------------------------------------
(***************************************************************************)
(* Properties.                                                             *)
(***************************************************************************)

\* The cards of an axis are its own pages, from the first, each once, whatever
\* axis was on screen when a page arrived (on_feed), and no more than the limit.
FeedInOrder ==
    \A a \in Axes :
        /\ Len(feed[a].rows) = PageSize * feed[a].page
        /\ \A k \in DOMAIN feed[a].rows : feed[a].rows[k] = <<a, k>>
        /\ Len(feed[a].rows) < MaxFeedRows + PageSize

\* A slot waits exactly while its one fetch is under way.
FeedSingleFlight ==
    \A a \in Axes : Cardinality({r \in feedAsked : r[1] = a}) = IF a \in loading THEN 1 ELSE 0

\* Cover fetches stay within the configured number.
PumpBounded == Cardinality(fetching) <= CoverCap

\* A cover is marked as under way exactly while a worker fetches it: none is
\* fetched twice at once and none is stuck.
CoverSingleFlight ==
    /\ fetching \cap arriving = {}
    /\ \A u \in Urls : cover[u] = "loading" <=> u \in fetching \cup arriving

\* A cover on screen is never thrown out of the pool.
ScreenKept == [][\A u \in ToSet(Window) : cover[u] = "ready" => cover'[u] = "ready"]_discoverVars

\* The feed and its covers: every answer is filed where it was asked for, every
\* fetch is counted, and what is on screen stays (DiscoverState, the cover pump).
DiscoverSound ==
    /\ [](FeedInOrder /\ FeedSingleFlight /\ PumpBounded /\ CoverSingleFlight)
    /\ ScreenKept
=============================================================================
