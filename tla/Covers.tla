------------------------------- MODULE Covers -------------------------------
(***************************************************************************)
(* The poster of the selected show (src/tui/covers/detail.rs; maybe_sync,  *)
(* on_cover_done and on_cover_error of src/tui/view/detail.rs) and its way *)
(* through the encode worker (src/tui/covers/render.rs): the decision      *)
(* table, one fetch at a time, the failure cooldown, and the protocol slot *)
(* whose requests are numbered from 0 again for every new image.           *)
(***************************************************************************)
EXTENDS Integers, Sequences

CONSTANTS
    Posters,   \* targets of the selection: [id, url], url = NoUrl for no art
    MaxDraws,  \* bound of the run: cover fetches
    MaxRetries \* bound of the run: cooldowns that pass, and resizes

NoUrl == "no art"
NoPoster == [id |-> 0, url |-> NoUrl]

ASSUME CoversAssumption ==
    NoPoster \notin Posters /\ \A p \in Posters : p = [id |-> p.id, url |-> p.url]

VARIABLES
    target,   \* what the surface shows
    art,      \* CoverState: [for, url, loading, pixels]
    failure,  \* the failure record: what failed, and still inside the cooldown
    window,   \* the settle window is open
    drawer,   \* the fetch worker: [of, posted]
    arrivals, \* CoverDone and CoverError in the event queue
    slot,     \* the pool's "detail" slot: [src, num, shaped, inner]
    encodes,  \* requests and responses of the encode worker: [todo, done]
    counts    \* fetches, cooldowns and resizes so far

artVars == <<target, art, failure, window>>
coversVars == <<target, art, failure, window, drawer, arrivals, slot, encodes, counts>>

NoArt == [for |-> 0, url |-> NoUrl, loading |-> FALSE, pixels |-> FALSE]
NoFailure == [what |-> NoPoster, hot |-> FALSE]
NoDrawer == [of |-> NoPoster, posted |-> FALSE]
NoSlot == [src |-> NoPoster, num |-> 0, shaped |-> FALSE, inner |-> "none", img |-> NoPoster]
NewSlot(p) == [src |-> p, num |-> 0, shaped |-> FALSE, inner |-> "raw", img |-> p]

CoversTypeOK ==
    /\ {target, failure.what, drawer.of, slot.src, slot.img} \subseteq Posters \cup {NoPoster}
    /\ slot.inner \in {"none", "raw", "asked", "encoded"}
    /\ ~(art.loading /\ art.pixels)
    /\ art.pixels => slot.src.id = art.for

CoversInit ==
    /\ target = NoPoster /\ art = NoArt /\ failure = NoFailure /\ window = FALSE
    /\ drawer = NoDrawer /\ arrivals = <<>> /\ slot = NoSlot
    /\ encodes = [todo |-> <<>>, done |-> <<>>]
    /\ counts = [fetches |-> 0, retries |-> 0, shapes |-> 0]

-----------------------------------------------------------------------------
(***************************************************************************)
(* The selection and the reconcile of each tick.                           *)
(***************************************************************************)

\* set_target; a healed answer may also change the url of the same show.
Retarget ==
    /\ \E p \in Posters : p # target /\ target' = p
    /\ window' \in BOOLEAN
    /\ UNCHANGED <<art, failure, drawer, arrivals, slot, encodes, counts>>

\* clear_target
Untarget ==
    /\ target # NoPoster /\ target' = NoPoster /\ art' = NoArt /\ slot' = NoSlot
    /\ UNCHANGED <<failure, window, drawer, arrivals, encodes, counts>>

WindowCloses ==
    /\ window /\ window' = FALSE
    /\ UNCHANGED <<target, art, failure, drawer, arrivals, slot, encodes, counts>>

\* Mutated form: whose art it is, is not asked.
HoldingAny == art.loading \/ art.pixels

Holding == art.for = target.id /\ (art.loading \/ art.pixels)

\* CoverState::decide, the rows of its table in their order.
Decide ==
    IF target.url = NoUrl
    THEN IF target # NoPoster /\ art.for \notin {0, target.id} THEN "clear" ELSE "none"
    ELSE IF Holding THEN "up to date"
    ELSE IF failure.hot /\ failure.what = target THEN "suppress"
    ELSE "fetch"

\* maybe_sync: Clear
SyncClears ==
    /\ ~window /\ Decide = "clear" /\ art' = NoArt /\ slot' = NoSlot
    /\ UNCHANGED <<target, failure, window, drawer, arrivals, encodes, counts>>

\* Mutated form: the gate is not asked.
DrawerFreeAlways == TRUE

\* One fetch at a time (inflight() > 0 defers to the next tick).
DrawerFree == drawer = NoDrawer

\* maybe_sync: Fetch; begin_fetch drops the failure record and the held art,
\* and a refused thread clears the state again.
SyncFetches ==
    /\ ~window /\ Decide = "fetch" /\ DrawerFree
    /\ counts.fetches < MaxDraws /\ counts' = [counts EXCEPT !.fetches = @ + 1]
    /\ failure' = NoFailure
    /\ \/ /\ art' = [for |-> target.id, url |-> target.url, loading |-> TRUE, pixels |-> FALSE]
          /\ drawer' = [of |-> target, posted |-> FALSE]
       \/ art' = NoArt /\ UNCHANGED drawer
    /\ UNCHANGED <<target, window, arrivals, slot, encodes>>

CooldownPasses ==
    /\ failure.hot /\ counts.retries < MaxRetries /\ counts' = [counts EXCEPT !.retries = @ + 1]
    /\ failure' = [failure EXCEPT !.hot = FALSE]
    /\ UNCHANGED <<target, art, window, drawer, arrivals, slot, encodes>>

-----------------------------------------------------------------------------
(***************************************************************************)
(* The fetch worker and its answer.                                        *)
(***************************************************************************)

\* spawn_cover_fetch posts, and only then is counted off.
DrawerPosts ==
    /\ drawer # NoDrawer /\ ~drawer.posted /\ drawer' = [drawer EXCEPT !.posted = TRUE]
    /\ \E ok \in BOOLEAN : arrivals' = Append(arrivals, [of |-> drawer.of, ok |-> ok])
    /\ UNCHANGED <<artVars, slot, encodes, counts>>

DrawerEnds ==
    /\ drawer.posted /\ drawer' = NoDrawer
    /\ UNCHANGED <<artVars, arrivals, slot, encodes, counts>>

\* Mutated form: any answer is taken.
AwaitsAny(p) == TRUE

\* CoverState::on_done, on_error: stale if the state waits for another id.
Awaits(p) == art.for = p.id

\* Mutated form: only the state's id is asked.
KeepsAny(p) == TRUE

\* The second keep-check of on_cover_done: the live selection.
Keeps(p) == target.id = p.id

\* on_cover_done: set_cover starts a slot numbered from 0.
Arrived(p) ==
    IF ~Awaits(p) THEN UNCHANGED <<art, failure, slot>>
    ELSE /\ failure' = NoFailure
         /\ IF Keeps(p)
            THEN /\ art' = [art EXCEPT !.loading = FALSE, !.pixels = TRUE]
                 /\ slot' = NewSlot(p)
            ELSE art' = NoArt /\ UNCHANGED slot

\* on_cover_error: the cooldown belongs to the url that was fetched.
Missed(p) ==
    IF ~Awaits(p) THEN UNCHANGED <<art, failure>>
    ELSE /\ failure' = [what |-> [id |-> p.id, url |-> art.url], hot |-> TRUE]
         /\ art' = NoArt

CoverArrives ==
    /\ arrivals # <<>> /\ arrivals' = Tail(arrivals)
    /\ IF Head(arrivals).ok THEN Arrived(Head(arrivals).of)
       ELSE Missed(Head(arrivals).of) /\ UNCHANGED slot
    /\ UNCHANGED <<target, window, drawer, encodes, counts>>

-----------------------------------------------------------------------------
(***************************************************************************)
(* Drawing and encoding.                                                   *)
(***************************************************************************)

\* render_cover, then drain_requests: the first draw of a slot crops the image
\* for its block (replace_protocol), and an unencoded image is sent away.
DrawCover ==
    /\ art.pixels /\ slot.inner = "raw"
    /\ LET n == slot.num + (IF slot.shaped THEN 1 ELSE 2) IN
          /\ slot' = [slot EXCEPT !.num = n, !.shaped = TRUE, !.inner = "asked"]
          /\ encodes' = [encodes EXCEPT !.todo = Append(@, [img |-> slot.img, num |-> n])]
    /\ UNCHANGED <<artVars, drawer, arrivals, counts>>

\* The block changed its size: the source is cropped again and sent away.
Reshape ==
    /\ art.pixels /\ slot.shaped /\ counts.shapes < MaxRetries
    /\ counts' = [counts EXCEPT !.shapes = @ + 1]
    /\ slot' = [slot EXCEPT !.num = @ + 2, !.inner = "asked", !.img = slot.src]
    /\ encodes' = [encodes EXCEPT !.todo = Append(@, [img |-> slot.src, num |-> slot.num + 2])]
    /\ UNCHANGED <<artVars, drawer, arrivals>>

\* The encode worker: one queue, in order.
Encode ==
    /\ encodes.todo # <<>>
    /\ encodes' = [todo |-> Tail(encodes.todo), done |-> Append(encodes.done, Head(encodes.todo))]
    /\ UNCHANGED <<artVars, drawer, arrivals, slot, counts>>

\* Mutated form: a slot takes the first answer it gets and no other.
AcceptsResponseOnce(r) == slot.inner = "asked"

\* update_resized_protocol: the number, which is all a response carries.
AcceptsResponse(r) == slot # NoSlot /\ slot.num = r.num

ApplyResponse ==
    /\ encodes.done # <<>> /\ encodes' = [encodes EXCEPT !.done = Tail(@)]
    /\ LET r == Head(encodes.done) IN
          slot' = IF AcceptsResponse(r) THEN [slot EXCEPT !.inner = "encoded", !.img = r.img] ELSE slot
    /\ UNCHANGED <<artVars, drawer, arrivals, counts>>

CoversNext ==
    \/ Retarget \/ Untarget \/ WindowCloses \/ SyncClears \/ SyncFetches \/ CooldownPasses
    \/ DrawerPosts \/ DrawerEnds \/ CoverArrives \/ DrawCover \/ Reshape \/ Encode \/ ApplyResponse

CoversFairness ==
    /\ WF_coversVars(WindowCloses) /\ WF_coversVars(SyncFetches)
    /\ WF_coversVars(DrawerPosts) /\ WF_coversVars(DrawerEnds)
    /\ WF_coversVars(CoverArrives) /\ WF_coversVars(DrawCover)
    /\ WF_coversVars(Encode) /\ WF_coversVars(ApplyResponse)

CoversSpec == CoversInit /\ [][CoversNext]_coversVars /\ CoversFairness

-----------------------------------------------------------------------------
(***************************************************************************)
(* Properties.                                                             *)
(***************************************************************************)

\* What the source says of a response that comes back for an image that is no
\* longer there: it is rejected, the slot shows its own image
\* (ProtocolPool::apply_responses).
PosterOwn == slot.inner = "encoded" => slot.img = slot.src

\* A wrong poster does not stay: the slot's own answer comes behind it.
PosterHeals == ~PosterOwn ~> PosterOwn

\* One detail fetch at a time, whatever the selection does (maybe_sync).
DrawnOnce == [][drawer' # drawer /\ drawer # NoDrawer => drawer' = NoDrawer \/ drawer'.of = drawer.of]_coversVars

\* Art that is held while the selection is elsewhere is on its way out: no stale
\* poster is kept by an answer that lands late (the dual keep-check).
LateArtDropped ==
    [][art'.pixels /\ ~art.pixels => art'.for = target.id]_coversVars

\* A selection that rests gets its poster, unless the fetch failed.
CoverDue(p) == p.url # NoUrl /\ target = p
CoverMet(p) == target # p \/ (art.pixels /\ art.for = p.id) \/ failure.hot \/ counts.fetches = MaxDraws
CoverSettles == \A p \in Posters : CoverDue(p) ~> CoverMet(p)

\* One poster is fetched at a time, and one that arrives for a show no longer
\* selected is let go (DetailCover::maybe_sync, on_done).
PosterHonest == DrawnOnce /\ LateArtDropped
=============================================================================
