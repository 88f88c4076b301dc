----------------------------- MODULE Enrichment -----------------------------
(***************************************************************************)
(* What is known of a show (src/store.rs, the enrichment writers and       *)
(* enrichment_stale; src/tui/view/detail.rs, DetailState; the enrichment   *)
(* handlers of src/tui/app.rs): search pages refresh the cache, `P` copies *)
(* a list entry into the library, and the shown show is re-fetched when it *)
(* is stale.  The fetch is single-flight, and its answer may land after    *)
(* the selection moved or the row was deleted.                             *)
(***************************************************************************)
EXTENDS Integers, Sequences, FiniteSets

CONSTANTS
    Titles,    \* the shows
    CatalogAnswers,   \* what AniList may say of a show: [text, total, cover, status]
    EnrichTtl, \* enrichment_ttl_secs, by status
    LastHour,  \* bound of the run: the clock
    MaxPages,  \* bound of the run: search pages
    MaxFetches \* bound of the run: enrich fetches

NoTitle == "none"
Null == "none"
NoEntry == [text |-> Null, total |-> Null, cover |-> Null, status |-> Null]
NoMeta == [known |-> NoEntry, stamp |-> -1, member |-> FALSE, row |-> FALSE]
NoHit == [known |-> NoEntry, expires |-> -1, row |-> FALSE]

\* What is known of a show is a record of what AniList may say, each field or null.
Word == {Null, "abs"} \cup UNION {{a.text, a.total, a.cover, a.status} : a \in CatalogAnswers}
Known == [text : Word, total : Word, cover : Word, status : Word]

ASSUME EnrichmentAssumption ==
    /\ NoTitle \notin Titles /\ LastHour \in Nat
    /\ CatalogAnswers \subseteq Known
    /\ EnrichTtl \in [{a.status : a \in CatalogAnswers} \cup {"none"} -> Nat]

VARIABLES
    meta,      \* show: the enrichment columns, the stamp, the membership
    hits,      \* catalog_cache
    cards,      \* the list's in-memory entries, from pages of this session
    chosen,    \* the selection
    shown,     \* DetailState.shown: the show and what is shown of it
    checked,   \* enrich_checked
    settling,  \* enrich_settle is armed
    inquiry,  \* the enrich worker under way
    mail,      \* answers posted and not yet handled
    hour,      \* the clock
    spent      \* pages and fetches so far

tableVars == <<meta, hits>>
detailVars == <<chosen, shown, checked, settling>>
enrichVars == <<meta, hits, cards, chosen, shown, checked, settling, inquiry, mail, hour, spent>>

Shown(s, k) == [id |-> s, known |-> k]
NothingShown == Shown(NoTitle, NoEntry)

EnrichTypeOK ==
    /\ \A s \in Titles : meta[s].stamp \in -1 .. LastHour /\ hits[s].expires >= -1
    /\ \A s \in Titles : ~meta[s].row => meta[s] = NoMeta
    /\ checked \in Titles \cup {NoTitle} /\ inquiry \in Titles \cup {NoTitle}
    /\ Len(mail) <= spent.fetches

EnrichInit ==
    /\ meta = [s \in Titles |-> NoMeta] /\ hits = [s \in Titles |-> NoHit]
    /\ cards = [s \in Titles |-> NoEntry]
    /\ chosen = NoTitle /\ shown = NothingShown /\ checked = NoTitle /\ settling = FALSE
    /\ inquiry = NoTitle /\ mail = <<>> /\ hour = 0
    /\ spent = [pages |-> 0, fetches |-> 0]

-----------------------------------------------------------------------------
(***************************************************************************)
(* The writers.                                                            *)
(***************************************************************************)
\* Mutated form: the incoming value is taken, null or not.
KeptWiped(new, old) == new

\* COALESCE(incoming, stored).
Kept(new, old) == IF new = Null THEN old ELSE new

\* The cover CASE of enrichment_merge_set.
Cover(new, old) == IF "abs" \in {new, old} THEN "abs" ELSE Kept(new, old)

\* enrichment_merge_set, and the total by COALESCE.
Merged(new, old) ==
    [text |-> Kept(new.text, old.text), total |-> Kept(new.total, old.total),
     cover |-> Cover(new.cover, old.cover), status |-> Kept(new.status, old.status)]

\* is_still_airing
Airing(k) == k.status = "RELEASING"

\* upsert_catalog_cache, with the lifetime its callers give it.
Cached(s, a) == [known |-> Merged(a, hits[s].known), expires |-> hour + EnrichTtl[a.status], row |-> TRUE]

\* add_to_library: the stamp of freshness is not touched.
Added(s, a) == [known |-> Merged(a, meta[s].known), stamp |-> meta[s].stamp, member |-> TRUE, row |-> TRUE]

\* Mutated form: an upsert, which brings a deleted row back.
PatchesAny(s) == TRUE

\* patch_show_enrichment is an UPDATE.
Patches(s) == meta[s].row

\* patch_show_enrichment with stamp_fresh: a complete answer of a show that
\* airs clears a total it does not state.
Patched(s, a) ==
    LET k == Merged(a, meta[s].known)
        total == IF a.total = Null /\ Airing(a) THEN Null ELSE k.total
    IN [meta[s] EXCEPT !.known = [k EXCEPT !.total = total], !.stamp = hour, !.row = TRUE]

\* enrichment_stale
Stale(s) ==
    IF meta[s].row
    THEN meta[s].stamp = -1 \/ hour >= meta[s].stamp + EnrichTtl[meta[s].known.status]
    ELSE ~hits[s].row \/ hits[s].expires = -1 \/ hour >= hits[s].expires

-----------------------------------------------------------------------------
(***************************************************************************)
(* The lists and the selection.                                            *)
(***************************************************************************)
\* BrowseState::on_done, DiscoverState::on_feed: the row of a page.
PageRow ==
    /\ spent.pages < MaxPages /\ spent' = [spent EXCEPT !.pages = @ + 1]
    /\ \E s \in Titles, a \in CatalogAnswers :
          /\ cards' = [cards EXCEPT ![s] = a]
          /\ hits' = [hits EXCEPT ![s] = Cached(s, a)]
    /\ UNCHANGED <<meta, detailVars, inquiry, mail, hour>>

\* DetailState::set_target.
SetTarget(s, k) ==
    /\ chosen' = s /\ shown' = Shown(s, k)
    /\ checked' = IF shown.id = s THEN checked ELSE NoTitle
    /\ settling' = TRUE

\* push_browse_selection, push_history_selection, open_discover_detail.
Choose(s) ==
    /\ \/ cards[s] # NoEntry /\ SetTarget(s, cards[s])
       \/ meta[s].row /\ SetTarget(s, meta[s].known)
    /\ UNCHANGED <<tableVars, cards, inquiry, mail, hour, spent>>

\* DetailState::clear_target.
ChooseNothing ==
    /\ chosen # NoTitle /\ chosen' = NoTitle /\ shown' = NothingShown
    /\ UNCHANGED <<tableVars, cards, checked, settling, inquiry, mail, hour, spent>>

\* App::on_plan: the entry of the list, not the shown snapshot.
PlanShow(s) ==
    /\ cards[s] # NoEntry /\ meta' = [meta EXCEPT ![s] = Added(s, cards[s])]
    /\ UNCHANGED <<hits, cards, detailVars, inquiry, mail, hour, spent>>

\* App::on_confirm_key: the row goes, and with it the selection.
DeleteShow(s) ==
    /\ meta[s].row /\ meta' = [meta EXCEPT ![s] = NoMeta]
    /\ IF chosen = s THEN chosen' = NoTitle /\ shown' = NothingShown ELSE UNCHANGED <<chosen, shown>>
    /\ UNCHANGED <<hits, cards, checked, settling, inquiry, mail, hour, spent>>

-----------------------------------------------------------------------------
(***************************************************************************)
(* Refresh on view.                                                        *)
(***************************************************************************)
SettleFires ==
    /\ settling /\ settling' = FALSE
    /\ UNCHANGED <<tableVars, cards, chosen, shown, checked, inquiry, mail, hour, spent>>

\* DetailState::maybe_enrich past its early returns; a refused thread leaves
\* the decision to the next tick.
MaybeEnrich ==
    /\ ~settling /\ shown.id # NoTitle /\ checked # shown.id /\ inquiry = NoTitle
    /\ \/ ~Stale(shown.id) /\ checked' = shown.id /\ UNCHANGED <<inquiry, spent>>
       \/ /\ Stale(shown.id) /\ spent.fetches < MaxFetches
          /\ checked' = shown.id /\ inquiry' = shown.id
          /\ spent' = [spent EXCEPT !.fetches = @ + 1]
    /\ UNCHANGED <<tableVars, cards, chosen, shown, settling, mail, hour>>

\* The drain counts a worker off when it ends.
AfterEnrich == NoTitle

\* spawn_enrich: metadata, a confirmed null, or no answer.
EnrichAnswers ==
    /\ inquiry # NoTitle /\ inquiry' = AfterEnrich
    /\ \E kind \in {"answer", "null", "failed"}, a \in CatalogAnswers :
          mail' = Append(mail, [id |-> inquiry, kind |-> kind, says |-> IF kind = "answer" THEN a ELSE NoEntry])
    /\ UNCHANGED <<tableVars, cards, detailVars, hour, spent>>

\* Mutated form: whatever arrives is shown.
ShowsAnswerAny(s) == shown.id # NoTitle

\* DetailState::on_enrichment drops an answer for another show.
ShowsAnswer(s) == shown.id = s

\* App::on_enrichment_refreshed: the rows, and then the merged row is shown.
Refreshed(s, a) ==
    /\ meta' = [meta EXCEPT ![s] = IF Patches(s) THEN Patched(s, a) ELSE @]
    /\ hits' = [hits EXCEPT ![s] = Cached(s, a)]
    /\ shown' = IF ShowsAnswer(s)
                THEN Shown(s, IF Patches(s) THEN meta'[s].known ELSE hits'[s].known) ELSE shown

\* App::on_enrichment_null, stamp_enrichment_checked.
CheckedNull(s) ==
    /\ meta' = [meta EXCEPT ![s] = IF Patches(s) THEN [@ EXCEPT !.stamp = hour] ELSE @]
    /\ hits' = [hits EXCEPT ![s] =
                    IF hits[s].row THEN [@ EXCEPT !.expires = hour + EnrichTtl[hits[s].known.status]] ELSE @]
    /\ UNCHANGED shown

EnrichHandled ==
    /\ mail # <<>> /\ mail' = Tail(mail)
    /\ LET m == Head(mail) IN
          CASE m.kind = "null" -> CheckedNull(m.id)
            [] m.kind = "failed" -> UNCHANGED <<tableVars, shown>>
            [] OTHER -> Refreshed(m.id, m.says)
    /\ UNCHANGED <<cards, chosen, checked, settling, inquiry, hour, spent>>

HourPasses ==
    /\ hour < LastHour /\ hour' = hour + 1
    /\ UNCHANGED <<tableVars, cards, detailVars, inquiry, mail, spent>>

EnrichProgress == SettleFires \/ MaybeEnrich \/ EnrichAnswers \/ EnrichHandled

EnrichNext ==
    \/ PageRow \/ ChooseNothing \/ HourPasses \/ EnrichProgress
    \/ \E s \in Titles : Choose(s) \/ PlanShow(s) \/ DeleteShow(s)

EnrichFairness ==
    /\ WF_enrichVars(SettleFires) /\ WF_enrichVars(MaybeEnrich)
    /\ WF_enrichVars(EnrichAnswers) /\ WF_enrichVars(EnrichHandled)

EnrichSpec == EnrichInit /\ [][EnrichNext]_enrichVars /\ EnrichFairness

-----------------------------------------------------------------------------
(***************************************************************************)
(* Properties.                                                             *)
(***************************************************************************)

\* The surface shows the selection's own metadata, whatever lands meanwhile
\* (DetailState::on_enrichment).
SurfaceOwn == shown.id = chosen

\* An answer that lands after the row was deleted does not bring it back: every
\* row is one the user added (patch_show_enrichment).
NeverMints == \A s \in Titles : meta[s].row => meta[s].member

\* What a row knows it never forgets while it lives, except the total of a show
\* that airs; an absolute cover never becomes a relative one (enrichment_merge_set).
KnownKept ==
    [][\A s \in Titles : meta[s].row /\ meta'[s].row =>
          LET a == meta[s].known  b == meta'[s].known IN
          /\ a.text # Null => b.text # Null
          /\ a.cover = "abs" => b.cover = "abs"
          /\ a.total # Null /\ b.total = Null => Airing(b) /\ meta'[s].stamp = hour]_enrichVars

\* A stale show that stays on screen is asked about, unless the run's fetches are
\* spent; a fetch for a show no longer shown does not block it for good
\* (maybe_enrich).
Unchecked == shown.id # NoTitle /\ checked # shown.id
AskedWhenStale == Unchecked ~> ~Unchecked \/ settling \/ spent.fetches = MaxFetches

\* An enrichment that lands late is shown for its own show only, brings no row back
\* and takes nothing away (App::on_enrichment_refreshed).
EnrichHonest == [](SurfaceOwn /\ NeverMints) /\ KnownKept
=============================================================================
