--------------------------- MODULE EpisodeSession ---------------------------
(***************************************************************************)
(* The episode session of the detail surface (src/tui/episodes.rs) over    *)
(* the store's bindings, absences, last-used record and episode cache.     *)
(* The UI thread runs one handler at a time; each handler is one action.   *)
(* Workers are the requests in `inflight`: a request is posted by a fire,  *)
(* runs detached and is never joined, and its answer is handled at any     *)
(* later time, in any order.                                               *)
(*                                                                         *)
(* The generation counter only ever grows and is only ever compared for    *)
(* equality with the token a request was given, so a request carries       *)
(* `fresh`: its token is the current one.  A bump makes every outstanding  *)
(* request stale.                                                          *)
(*                                                                         *)
(* Episode labels, cursors and resume points are abstracted: a listing is  *)
(* where it came from.  Provider ids are the show the provider means by    *)
(* them; a canonical key is always right, a title search may not be.       *)
(***************************************************************************)
EXTENDS Walk

CONSTANTS
    Shows,
    Tracks,        \* sub, dub
    KeyedOn,       \* KeyedOn[s]: the providers with a canonical key for s
    Narrow,        \* the terminal is below the two-pane split
    MaySpawnFail   \* the OS may refuse a worker thread

ASSUME ShowsAssumption == None \notin Shows /\ None \notin Tracks
ASSUME KeyedAssumption == KeyedOn \in [Shows -> SUBSET Providers]
ASSUME SwitchAssumption == Narrow \in BOOLEAN /\ MaySpawnFail \in BOOLEAN

VARIABLES
    known,     \* shows with a row in the show table
    binding,   \* provider_binding: binding[s][p] is the provider's id or None
    absent,    \* provider_absence within its TTL
    lastUsed,  \* provider_last_used
    cache,     \* episode_cache within its TTL, by show, provider and track
    track,     \* config.translation
    shown,     \* the show on the detail surface
    ses,       \* the session
    inflight,  \* requests not answered yet
    said       \* the feedback of the last handler

storeVars == <<known, binding, absent, lastUsed, cache>>
sessionVars == <<storeVars, track, shown, ses, inflight, said>>

Listing == [show : Shows, provider : Providers, id : Shows, track : Tracks]

ASSUME ListingAssumption == None \notin Listing

Request == [kind : {"list", "search"}, show : Shows, provider : Providers,
            id : Shows \cup {None}, track : Tracks, fresh : BOOLEAN]

Feedback == {"Fail", "Hop", "DeadEnd", "CyclePending", "CycleNothing"}

Session == [id       : Shows \cup {None},         \* for_id and canonical
            track    : Tracks \cup {None},
            grid     : Listing \cup {None},       \* episodes
            serving  : Providers \cup {None},
            noSource : BOOLEAN,
            loading  : BOOLEAN,
            mint     : BOOLEAN,                   \* mint_pending
            walk     : WalkRecord \cup {None},
            probing  : Providers \cup {None},     \* walk_provider
            aim      : Providers \cup {None},     \* cycle_aim
            armed    : BOOLEAN]                   \* cycle_debounce

NoSession == [id |-> None, track |-> None, grid |-> None, serving |-> None,
              noSource |-> FALSE, loading |-> FALSE, mint |-> FALSE, walk |-> None,
              probing |-> None, aim |-> None, armed |-> FALSE]

SessionTypeOK ==
    /\ known \subseteq Shows
    /\ binding \in [Shows -> [Providers -> Shows \cup {None}]]
    /\ absent \in [Shows -> SUBSET Providers]
    /\ lastUsed \in [Shows -> Providers \cup {None}]
    /\ cache \in [Shows -> [Providers -> [Tracks -> Listing \cup {None}]]]
    /\ track \in Tracks
    /\ shown \in Shows \cup {None}
    /\ ses \in Session
    /\ ses.armed => ses.aim # None
    /\ inflight \subseteq Request
    /\ said \subseteq Feedback

\* A launch on the store that earlier sessions, prewarm and the command line
\* have left: any bindings and absences, every listing past its TTL.
SessionInit ==
    /\ binding \in [Shows -> [Providers -> Shows \cup {None}]]
    /\ \A s \in Shows, p \in Providers : binding[s][p] \in {s, None}
    /\ absent \in [Shows -> SUBSET Providers]
    /\ \A s \in Shows : \A p \in absent[s] : binding[s][p] = None
    /\ known = {s \in Shows : absent[s] # {} \/ \E p \in Providers : binding[s][p] # None}
    /\ lastUsed \in [Shows -> Providers \cup {None}]
    /\ \A s \in Shows : lastUsed[s] # None =>
          binding[s][lastUsed[s]] # None /\ lastUsed[s] # WalkHead
    /\ cache = [s \in Shows |-> [p \in Providers |-> [t \in Tracks |-> None]]]
    /\ track \in Tracks
    /\ shown = None
    /\ ses = NoSession
    /\ inflight = {}
    /\ said = {}

-----------------------------------------------------------------------------
(***************************************************************************)
(* Store writers.                                                          *)
(***************************************************************************)

\* bind_provider: mints the row, takes the id from any other show that has
\* it, clears the absence; one transaction.
Bind(s, p, id) ==
    /\ known' = known \cup {s}
    /\ binding' = [t \in Shows |->
                     IF t = s THEN [binding[s] EXCEPT ![p] = id]
                     ELSE [binding[t] EXCEPT ![p] = IF @ = id THEN None ELSE @]]
    /\ absent' = [absent EXCEPT ![s] = @ \ {p}]

\* mark_provider_absent: mints the row; a binding stays.
MarkAbsent(s, p) ==
    /\ known' = known \cup {s}
    /\ absent' = [absent EXCEPT ![s] = @ \cup {p}]
    /\ UNCHANGED binding

\* set_episode_cache: refused by the foreign key when the row is gone.
CacheListing(s, p, l) ==
    cache' = IF s \in known' THEN [cache EXCEPT ![s][p][track'] = l] ELSE cache

\* Mutated form: the record is written whether or not p is the head.
RememberAlways(s, p) ==
    lastUsed' = [lastUsed EXCEPT ![s] = IF s \in known' THEN p ELSE @]

\* set_last_used at a landing: the walk head clears the record, anything else
\* is remembered, and without a row the write fails.
RememberLanding(s, p) ==
    lastUsed' = [lastUsed EXCEPT ![s] = IF p = WalkHead THEN None
                                        ELSE IF s \in known' THEN p ELSE @]

\* What the engine reads about a show, as the running handler has left it.
World(s) == [bound  |-> {p \in Providers : binding'[s][p] # None},
             absent |-> absent'[s],
             keyed  |-> KeyedOn[s],
             last   |-> lastUsed[s]]

Cached(s, p) == cache'[s][p][track']

-----------------------------------------------------------------------------
(***************************************************************************)
(* Requests and landings.  Every operator below completes a handler: `ss`  *)
(* is the session record as the handler has built it so far and `reqs` the *)
(* requests it leaves outstanding.                                         *)
(***************************************************************************)

\* Generation::bump: no outstanding token is current any more.
Bump(reqs) == {[r EXCEPT !.fresh = FALSE] : r \in reqs}

\* A fire takes the next token for its own request.
Posted(kind, s, p, id, reqs) ==
    Bump(reqs) \cup {[kind |-> kind, show |-> s, provider |-> p, id |-> id,
                      track |-> track', fresh |-> TRUE]}

\* Mutated form: a landing that leaves the walk armed.
LandedKeepsWalk(ss, p, l) ==
    [ss EXCEPT !.noSource = FALSE, !.loading = FALSE,
               !.aim = IF ss.armed THEN @ ELSE None, !.serving = p, !.grid = l]

\* Mutated form: a landing clears the aim of a press still in its window.
LandedEatsAim(ss, p, l) ==
    [ss EXCEPT !.walk = None, !.probing = None, !.noSource = FALSE, !.loading = FALSE,
               !.aim = None, !.serving = p, !.grid = l]

\* land: the single walk retirement point.
Landed(ss, p, l) ==
    [ss EXCEPT !.walk = None, !.probing = None, !.noSource = FALSE, !.loading = FALSE,
               !.aim = IF ss.armed THEN @ ELSE None, !.serving = p, !.grid = l]

Land(ss, p, l, reqs) ==
    /\ ses' = Landed(ss, p, l)
    /\ RememberLanding(ss.id, p)
    /\ inflight' = reqs

\* fire_fetch; a refused thread leaves no spinner behind.
FireFetch(ss, p, id, mint, reqs) ==
    /\ UNCHANGED lastUsed
    /\ \/ /\ ses' = [ss EXCEPT !.loading = TRUE, !.mint = mint]
          /\ inflight' = Posted("list", ss.id, p, id, reqs)
       \/ /\ MaySpawnFail
          /\ ses' = [ss EXCEPT !.loading = FALSE, !.mint = mint]
          /\ inflight' = Bump(reqs)

\* advance_walk with hop_unreachable: the walk takes its next hop; a hop whose
\* thread is refused is one more miss, and a bound hop with a cached listing
\* lands at once.  `fb` is what the handler has said already.
Advance(ss, reqs, announce, fb) ==
    LET w == World(ss.id)
        hops == Hops(w, ss.walk)
        At(i) == ss.walk.order[i]
        Painted(i) == At(i) \in w.bound /\ Cached(ss.id, At(i)) # None
        Refused(i) == {j \in hops : j < i}
        Reached(i) == \A j \in Refused(i) : MaySpawnFail /\ ~Painted(j)
        Minting(i) == At(i) \notin w.bound /\ At(i) \in w.keyed
        MintLeft(i) == IF Refused(i) = {} THEN ss.mint ELSE Minting(Max(Refused(i)))
        On(i) == [ss EXCEPT !.walk = Stepped(@, i), !.probing = At(i)]
        words == fb \cup (IF announce /\ ss.walk.origin = "auto" /\ hops # {}
                          THEN {"Hop"} ELSE {})
    IN  \/ \E i \in hops :
              /\ Reached(i) /\ Painted(i)
              /\ Land([On(i) EXCEPT !.mint = MintLeft(i)], At(i), Cached(ss.id, At(i)), reqs)
              /\ said' = words
        \/ \E i \in hops :
              /\ Reached(i) /\ ~Painted(i)
              /\ ses' = [On(i) EXCEPT !.loading = TRUE, !.mint = Minting(i)]
              /\ inflight' =
                    CASE At(i) \in w.bound -> Posted("list", ss.id, At(i), binding'[ss.id][At(i)], reqs)
                      [] Minting(i)        -> Posted("list", ss.id, At(i), ss.id, reqs)
                      [] OTHER             -> Posted("search", ss.id, At(i), None, reqs)
              /\ UNCHANGED lastUsed
              /\ said' = words
        \/ /\ Reached(Len(ss.walk.order) + 1)
           /\ ses' = [ss EXCEPT !.walk = None, !.probing = None, !.loading = FALSE,
                                !.noSource = @ \/ ss.grid = None,
                                !.mint = MintLeft(Len(ss.walk.order) + 1)]
           /\ inflight' = reqs
           /\ UNCHANGED lastUsed
           /\ said' = words \cup {"DeadEnd"}

\* fail_over: a fresh walk skips the provider that failed, a live one is past it.
FailOver(ss, p, reqs, fb) ==
    Advance(IF ss.walk = None THEN [ss EXCEPT !.walk = AutoWalk(World(ss.id), {p})] ELSE ss,
            reqs, TRUE, fb)

\* The open of an engage, after its reset.
Open(s, reqs) ==
    LET ss == [NoSession EXCEPT !.id = s, !.track = track']
        verdict == ClassifyOpen(World(s))
        p == verdict.provider
        old == Bump(reqs)
    IN  CASE verdict.tier = "bound" /\ Cached(s, p) # None ->
                 Land(ss, p, Cached(s, p), old) /\ said' = {}
          [] verdict.tier = "bound" /\ Cached(s, p) = None ->
                 FireFetch(ss, p, binding'[s][p], FALSE, old) /\ said' = {}
          [] verdict.tier = "key" ->
                 FireFetch(ss, p, s, TRUE, old) /\ said' = {}
          [] OTHER ->
                 Advance([ss EXCEPT !.walk = AutoWalk(World(s), {})], old, FALSE, {})

-----------------------------------------------------------------------------
(***************************************************************************)
(* Answers.  The guard of every handler: the token is current and the      *)
(* session is still on the show.                                           *)
(***************************************************************************)

\* Mutated form: only the show is compared.
AcceptsByShow(r) == ses.id = r.show

Accepts(r) == r.fresh /\ ses.id = r.show

ListingOf(r) == [show |-> r.show, provider |-> r.provider, id |-> r.id, track |-> r.track]

\* Mutated form: the grid lands and nothing is bound.
EpisodesListedUnbound(r) ==
    /\ r.kind = "list" /\ Accepts(r)
    /\ UNCHANGED <<track, shown, known, binding, absent>>
    /\ CacheListing(r.show, r.provider, ListingOf(r))
    /\ Land([ses EXCEPT !.mint = FALSE], r.provider, ListingOf(r), inflight \ {r})
    /\ said' = {}

\* on_done with episodes: bind, cache, land.
EpisodesListed(r) ==
    /\ r.kind = "list" /\ Accepts(r)
    /\ UNCHANGED <<track, shown>>
    /\ IF ses.mint THEN Bind(r.show, r.provider, r.id) ELSE UNCHANGED <<known, binding, absent>>
    /\ CacheListing(r.show, r.provider, ListingOf(r))
    /\ Land([ses EXCEPT !.mint = FALSE], r.provider, ListingOf(r), inflight \ {r})
    /\ said' = {}

\* on_done with none: not stocked, remember it and walk on.
EpisodesEmpty(r) ==
    /\ r.kind = "list" /\ Accepts(r)
    /\ UNCHANGED <<track, shown, cache>>
    /\ MarkAbsent(r.show, r.provider)
    /\ FailOver([ses EXCEPT !.loading = FALSE, !.mint = FALSE], r.provider, inflight \ {r}, {})

\* on_error: no absence mark, walk on.
EpisodesFail(r) ==
    /\ r.kind = "list" /\ Accepts(r)
    /\ UNCHANGED <<track, shown, known, binding, absent, cache>>
    /\ FailOver([ses EXCEPT !.loading = FALSE], r.provider, inflight \ {r}, {"Fail"})

\* on_search_done with a match: fetch what the search found, to be bound.
SearchHit(r, id) ==
    /\ r.kind = "search" /\ Accepts(r)
    /\ UNCHANGED <<track, shown, known, binding, absent, cache>>
    /\ FireFetch([ses EXCEPT !.loading = FALSE], r.provider, id, TRUE, inflight \ {r})
    /\ said' = {}

\* Mutated form: the search's failure stops the walk without a word.
SearchMissStops(r, fb) ==
    /\ r.kind = "search" /\ Accepts(r)
    /\ UNCHANGED <<track, shown, known, binding, absent, cache, lastUsed>>
    /\ ses' = [ses EXCEPT !.loading = FALSE, !.walk = None, !.probing = None]
    /\ inflight' = inflight \ {r}
    /\ said' = fb

\* on_search_done without a match, on_search_error: walk on.  A provider that
\* cannot search is passed over without a word.
SearchMiss(r, fb) ==
    /\ r.kind = "search" /\ Accepts(r)
    /\ UNCHANGED <<track, shown, known, binding, absent, cache>>
    /\ Advance([ses EXCEPT !.loading = FALSE], inflight \ {r}, TRUE, fb)

\* Any handler on an answer it does not accept.
AnswerDropped(r) ==
    /\ ~Accepts(r)
    /\ inflight' = inflight \ {r}
    /\ said' = {}
    /\ UNCHANGED <<storeVars, track, shown, ses>>

Answer ==
    \E r \in inflight :
        \/ EpisodesListed(r) \/ EpisodesEmpty(r) \/ EpisodesFail(r)
        \/ \E id \in Shows : SearchHit(r, id)
        \/ \E fb \in {{}, {"Fail"}} : SearchMiss(r, fb)
        \/ AnswerDropped(r)

-----------------------------------------------------------------------------
(***************************************************************************)
(* The user.                                                               *)
(***************************************************************************)

\* set_target / clear_target: another show on the surface voids the session.
Show(s) ==
    /\ s # shown
    /\ shown' = s
    /\ ses' = NoSession
    /\ inflight' = Bump(inflight)
    /\ said' = {}
    /\ UNCHANGED <<storeVars, track>>

HasAnswer == ses.loading \/ ses.grid # None \/ ses.noSource

\* Detail entry.  Entering again is a no-op while the session has an answer or
\* a fetch for this show and track.
Engage ==
    /\ shown # None
    /\ ~(ses.id = shown /\ ses.track = track /\ HasAnswer)
    /\ UNCHANGED <<known, binding, absent, cache, track, shown>>
    /\ Open(shown, inflight)

\* Mutated form: the flip waits while a fetch is in flight.
ToggleTrackIdleOnly ==
    /\ track' \in Tracks \ {track}
    /\ UNCHANGED <<known, binding, absent, cache, shown>>
    /\ IF shown # None /\ ses.id = shown /\ HasAnswer /\ ~ses.loading
       THEN Open(shown, inflight)
       ELSE UNCHANGED <<lastUsed, ses, inflight>> /\ said' = {}

\* :dub / :sub or the Settings row: an engaged session opens again, once.
ToggleTrack ==
    /\ track' \in Tracks \ {track}
    /\ UNCHANGED <<known, binding, absent, cache, shown>>
    /\ IF shown # None /\ ses.id = shown /\ HasAnswer
       THEN Open(shown, inflight)
       ELSE UNCHANGED <<lastUsed, ses, inflight>> /\ said' = {}

\* `v`: the aim moves one provider along the registry circle and the settle
\* window starts again; nothing is fetched.
CycleProvider ==
    /\ shown # None
    /\ UNCHANGED <<storeVars, track, shown, inflight>>
    /\ IF ses.serving # None
       THEN LET next == After(IF ses.aim # None THEN ses.aim ELSE ses.serving)
            IN  ses' = [ses EXCEPT !.aim = next, !.armed = TRUE] /\ said' = {"Hop"}
       ELSE /\ UNCHANGED ses
            /\ said' = IF ses.loading THEN {"CyclePending"} ELSE {"CycleNothing"}

\* drop_stale_walk: an earlier walk or fetch dies.
DropStaleWalk(ss) ==
    IF ss.walk = None /\ ~ss.loading THEN ss
    ELSE [ss EXCEPT !.walk = None, !.probing = None, !.loading = FALSE, !.mint = FALSE]

\* Mutated form: the walk is forgotten and its request stays current.
LeftByDropCurrent == inflight

LeftByDrop == IF ses.walk = None /\ ~ses.loading THEN inflight ELSE Bump(inflight)

\* The tick that finds the settle window over: one manual walk to the aim,
\* which outlives it, or none when the aim has wrapped back.
Settle ==
    LET calm == DropStaleWalk([ses EXCEPT !.armed = FALSE])
    IN  /\ ses.armed
        /\ UNCHANGED <<known, binding, absent, cache, track, shown>>
        /\ IF ses.aim = ses.serving
           THEN /\ ses' = [calm EXCEPT !.aim = None]
                /\ inflight' = LeftByDrop
                /\ UNCHANGED lastUsed
                /\ said' = {}
           ELSE Advance([calm EXCEPT !.walk = ManualWalk(ses.aim)], LeftByDrop, TRUE, {})

\* play_fail_over: a failed play walks on from the providers that failed it.
PlayFailOver(tried) ==
    IF ses.loading \/ ses.walk # None
    THEN UNCHANGED <<lastUsed, ses, inflight>> /\ said' = {}
    ELSE Advance([ses EXCEPT !.walk = AutoWalk(World(ses.id), tried), !.probing = None],
                 inflight, TRUE, {})

\* The confirmed delete cascades over everything keyed by the show.  With two
\* panes the deleted show is the one on the surface and the reload moves the
\* selection off it; below the split the surface keeps what it had.
Delete(s) ==
    /\ s \in known
    /\ known' = known \ {s}
    /\ binding' = [binding EXCEPT ![s] = [p \in Providers |-> None]]
    /\ absent' = [absent EXCEPT ![s] = {}]
    /\ lastUsed' = [lastUsed EXCEPT ![s] = None]
    /\ cache' = [cache EXCEPT ![s] = [p \in Providers |-> [t \in Tracks |-> None]]]
    /\ said' = {}
    /\ UNCHANGED track
    /\ IF Narrow
       THEN UNCHANGED <<shown, ses, inflight>>
       ELSE /\ shown = s
            /\ shown' \in (Shows \cup {None}) \ {s}
            /\ ses' = NoSession
            /\ inflight' = Bump(inflight)

-----------------------------------------------------------------------------
(***************************************************************************)
(* Time.  A row past its TTL reads as missing.                             *)
(***************************************************************************)
AbsenceExpires(s, p) ==
    /\ p \in absent[s]
    /\ absent' = [absent EXCEPT ![s] = @ \ {p}]
    /\ said' = {}
    /\ UNCHANGED <<known, binding, lastUsed, cache, track, shown, ses, inflight>>

CacheExpires(s, p, t) ==
    /\ cache[s][p][t] # None
    /\ cache' = [cache EXCEPT ![s][p][t] = None]
    /\ said' = {}
    /\ UNCHANGED <<known, binding, absent, lastUsed, track, shown, ses, inflight>>

Expiry ==
    \E s \in Shows, p \in Providers :
        AbsenceExpires(s, p) \/ \E t \in Tracks : CacheExpires(s, p, t)

-----------------------------------------------------------------------------
(***************************************************************************)
(* Properties.                                                             *)
(***************************************************************************)

\* The spinner turns exactly while a worker runs whose answer will be taken:
\* no stranded spinner, and no fetch behind a still screen (fire_fetch,
\* drop_stale_walk, the handlers' token guards).
SpinnerHonest ==
    ses.loading <=> \E r \in inflight : r.fresh /\ r.show = ses.id

\* The grid on the surface is the listing of the shown show, on the configured
\* track, by the provider marked as serving it (reset on target and track
\* changes, generation guards).
GridHonest ==
    ses.grid # None =>
        /\ ses.grid.show = ses.id /\ ses.id = shown
        /\ ses.grid.provider = ses.serving
        /\ ses.grid.track = track /\ ses.track = track

\* A cached listing is what the key says it is, whatever the track and the
\* show were when it was asked for and when it came back.
CacheHonest ==
    \A s \in Shows, p \in Providers, t \in Tracks :
        LET l == cache[s][p][t]
        IN  l # None => l.show = s /\ l.provider = p /\ l.track = t

\* An armed walk has a hop in flight: nothing else would ever advance it, and
\* armed it blocks play fail-overs and prewarm (land, hop_unreachable).
WalkAnswered == ses.walk # None => ses.loading

\* A grid has a binding to play it through (on_done binds before it caches,
\* App::fire_play_at refuses without one).
GridBound == ses.grid # None => binding[ses.id][ses.serving] # None

\* The record of who served the show last agrees with the screen, the walk
\* head being remembered as nothing (land, set_last_used).
ServingRemembered ==
    ses.grid # None =>
        lastUsed[ses.id] = IF ses.serving = WalkHead THEN None ELSE ses.serving

\* No fresh key is fetched for an open while any provider has a binding
\* (classify_open is tier-major).
BindingsWin ==
    ses.loading /\ ses.walk = None /\ ses.mint =>
        \A p \in Providers : binding[ses.id][p] = None

\* A walk that ends by itself has landed on a provider it was to ask or says
\* that it is a dead end; only a new open, another show or a settled `v` may
\* end it in silence (advance_walk, on_search_error, land).
SilentEndAllowed ==
    \/ ses'.id # ses.id \/ ses'.track # ses.track
    \/ ses.armed /\ ~ses'.armed

WalkEndsAloud ==
    ses.walk # None /\ ses'.walk = None =>
        \/ "DeadEnd" \in said'
        \/ ses'.serving \in Ahead(ses.walk) \cup {ses.probing}
        \/ SilentEndAllowed

NeverSilent == [][WalkEndsAloud]_sessionVars

\* A dead end leaves no binding unasked, whatever the absences say (03 5.2,
\* "bindings always win").
BindingsAsked ==
    [][ses.walk # None /\ "DeadEnd" \in said' =>
          \A p \in Ahead(ses.walk) : binding'[ses.id][p] = None]_sessionVars

\* Each walk asks each provider at most once and one at a time, and only a new
\* open or a settled `v` starts another (Walk::advance's cursor and skip mask,
\* fail_over's live walk, play_fail_over's single flight).
Promise == INSTANCE WalkPromise WITH
    errand <- <<ses.id, ses.track, ses.armed>>,
    walking <- ses.walk # None,
    left <- IF ses.walk = None THEN {} ELSE Ahead(ses.walk),
    asking <- ses.probing

KeepsPromise == Promise!PromiseSpec

\* Whatever the user does, the session comes to rest: every fetch, walk and
\* settle window ends.
ComesToRest == []<>(~ses.loading /\ ~ses.armed)

\* A walk waits for an answer or ends, and says how (advance_walk, land).
WalkSpeaks == []WalkAnswered /\ NeverSilent

\* "Bindings always win": before a fresh key at an open, and over an absence at a
\* dead end (classify_open, Walk::advance).
BindingsHonoured == []BindingsWin /\ BindingsAsked

\* What the grid shows, caches and plays through is one listing of one show
\* (on_done, reset).
GridTrue == GridHonest /\ CacheHonest /\ GridBound
=============================================================================
