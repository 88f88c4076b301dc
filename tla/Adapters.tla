------------------------------ MODULE Adapters ------------------------------
(***************************************************************************)
(* One call of a stream provider (src/providers/*.rs, src/providers/http.rs*)
(* : the documents an operation must read in order, each of which the site *)
(* may refuse, garble or answer, then the tries that may fail without      *)
(* failing the call: detail pages, players, embed hosts, sidecars, cues,   *)
(* dub probes.  What the site really holds is `site`.                      *)
(***************************************************************************)
EXTENDS Integers, FiniteSets, Sequences, SequencesExt

CONSTANTS
    MaxEps,     \* episodes of the show on the site
    MaxHosts,   \* players or embeds offered for an episode
    HostTries,  \* MAX_PLAYER_TRIES, MAX_EMBED_TRIES
    SideTries   \* 1 + SUB_RETRY_BACKOFFS_MS.len()

ASSUME AdaptersAssumption == {MaxEps, MaxHosts, HostTries, SideTries} \subseteq Nat \ {0}

VARIABLES
    call,    \* [who, op, track]
    site,    \* [stocked, eps, dubbed]
    stage,   \* "read" while documents are missing, then the name of the tries
    candidates,   \* what is left to read or to try, but for the hosts
    kept,    \* what the tries have found; of the hosts, what was offered and what is left
    reply    \* the answer of the call

adapterVars == <<call, site, stage, candidates, kept, reply>>

Roster == {"megaplay", "senshi", "anibd", "anidbapp", "anineko", "allanime"}

\* The documents an operation cannot do without.  Two providers search nothing.
Reads(search, episodes, resolve) == [search |-> search, episodes |-> episodes, resolve |-> resolve]

MegaplayReads == Reads(<<>>, <<"embed">>, <<"embed", "sources">>)
SenshiReads == Reads(<<"filter">>, <<"episodes">>, <<"embeds">>)
AnibdReads == Reads(<<>>, <<"catalog">>, <<"catalog", "players">>)
AnidbappReads == Reads(<<"suggestions">>, <<"listing">>, <<"listing", "languages", "embed">>)
AninekoReads == Reads(<<"search">>, <<"show">>, <<"episode">>)
AllanimeReads == Reads(<<"search">>, <<"episodes">>, <<"video">>)

Documents ==
    [megaplay |-> MegaplayReads, senshi |-> SenshiReads, anibd |-> AnibdReads,
     anidbapp |-> AnidbappReads, anineko |-> AninekoReads, allanime |-> AllanimeReads]

Needed == Documents[call.who][call.op]

SupportsSearch(w) == Documents[w].search # <<>>

\* from_status, and the failures fetch finds for itself: no transport, a body
\* over the cap or one that does not parse.
FetchErrors == {"network", "forbidden", "server", "http", "decode"}

Unanswered == [kind |-> "none"]
Errs(e) == [kind |-> "err", error |-> e]
NotStocked == [kind |-> "absent"]

Links == {"dead", "live"}

AdaptersTypeOK ==
    /\ call \in [who : Roster, op : {"search", "episodes", "resolve"}, track : {"sub", "dub"}]
    /\ site.eps \in 1 .. MaxEps /\ site.dubbed \subseteq 1 .. site.eps
    /\ stage \in {"read", "probe", "bisect", "hosts", "sources", "cap", "sidecar", "cues", "done"}
    /\ (stage = "done") <=> (reply # Unanswered)
    /\ reply.kind \in {"none", "err", "absent", "hits", "listing", "link"}
    /\ stage = "bisect" => kept.lo <= kept.hi
    /\ stage = "hosts" => Cardinality(kept.left) <= HostTries

AdaptersInit ==
    /\ call \in [who : Roster, op : {"search", "episodes", "resolve"}, track : {"sub", "dub"}]
    /\ \E n \in 1 .. MaxEps :
          site \in [stocked : BOOLEAN, eps : {n}, dubbed : SUBSET (1 .. n)]
    /\ stage = "read" /\ candidates = Needed /\ kept = <<>> /\ reply = Unanswered

-----------------------------------------------------------------------------
(***************************************************************************)
(* The documents.                                                          *)
(***************************************************************************)
Replies(r) == reply' = r /\ stage' = "done" /\ candidates' = <<>> /\ kept' = <<>> /\ UNCHANGED <<call, site>>

Tries(name, q, k) == stage' = name /\ candidates' = q /\ kept' = k /\ UNCHANGED <<call, site, reply>>

\* megaplay, anibd: structurally incapable, an error of its own.
Unsupported == call.op = "search" /\ ~SupportsSearch(call.who) /\ stage = "read" /\ Replies(Errs("unsupported"))

Reading == stage = "read" /\ candidates # <<>>

DocumentFails == Reading /\ \E e \in FetchErrors : Replies(Errs(e))

\* Mutated form: the interstitial is read as a page that lists nothing.
ReadsChallengeAsPage == NotStocked

\* page_get: an interstitial served at 200 is a block.
ReadsChallenge == Errs("forbidden")

\* Only the pages of anidbapp are fetched through page_get.
Challenged ==
    /\ Reading /\ call.who = "anidbapp" /\ Head(candidates) \in {"suggestions", "embed"}
    /\ Replies(ReadsChallenge)

\* An empty search or listing is the site's word that it has nothing; a page of
\* anineko that lists nothing is an error, and so is a resolve without a stream.
ReadsEmpty ==
    IF call.op = "resolve" \/ (call.who = "anineko" /\ call.op = "episodes") THEN Errs("decode") ELSE NotStocked

\* A scraped page may parse to nothing although the show is there.
DocumentEmpty ==
    /\ Reading
    /\ ~site.stocked \/ call.op = "resolve" \/ (call.who = "anineko" /\ Head(candidates) = "show")
    /\ Replies(ReadsEmpty)

NextDocument ==
    /\ Reading /\ site.stocked /\ Len(candidates) > 1
    /\ Tries("read", Tail(candidates), kept)

LastRead == Reading /\ site.stocked /\ Len(candidates) = 1

\* search: anidbapp probes every card for its ids, the others answer.
SearchRead ==
    /\ LastRead /\ call.op = "search"
    /\ IF call.who = "anidbapp"
       THEN \E n \in 1 .. 2 : Tries("probe", [k \in 1 .. n |-> k], <<>>)
       ELSE Replies([kind |-> "hits", ids |-> <<>>])

\* episodes: the dub listing of anidbapp is bisected; senshi, anibd, anineko and
\* megaplay list without regard to the track.
ListingRead ==
    /\ LastRead /\ call.op = "episodes"
    /\ IF call.track = "dub" /\ call.who = "anidbapp"
       THEN Tries("bisect", <<>>, [lo |-> 0, hi |-> site.eps + 1])
       ELSE IF call.track = "dub" /\ call.who = "allanime"
       THEN Replies(IF site.dubbed = {} THEN NotStocked ELSE [kind |-> "listing", upto |-> Max(site.dubbed)])
       ELSE Replies([kind |-> "listing", upto |-> site.eps])

\* Mutated form: every host is tried.
BudgetNone(places) == places

\* The first HostTries of the places.
Budget(places) == {k \in places : Cardinality({j \in places : j < k}) < HostTries}

Vettable(offered) == {k \in DOMAIN offered : offered[k].clean}

\* Mutated form: the budget is spent before the vetting.
BudgetFirst(offered) == Budget(DOMAIN offered) \cap Vettable(offered)

\* anineko vets the embeds and then takes the budget.
Vetted(offered) == Budget(Vettable(offered))

\* anibd takes the budget of the players and skips what it cannot vet.
VettedLate(offered) == Budget(DOMAIN offered) \cap Vettable(offered)

Offers == BoundedSeq([clean : BOOLEAN, link : Links], MaxHosts)

\* What the last document of a resolve leads to.  megaplay refines the pick of its
\* captions by their cues.
MegaplayStream ==
    /\ call.who = "megaplay"
    /\ IF call.track = "dub" THEN Replies([kind |-> "link", sub |-> 0])
       ELSE \E cues \in [1 .. 3 -> 0 .. 2] : Tries("cues", <<1, 2, 3>>, [best |-> 0, cues |-> cues])

\* senshi and anidbapp hold a master playlist.
MasterStream == call.who \in {"senshi", "anidbapp"} /\ Tries("cap", <<>>, <<>>)

AnibdStream ==
    /\ call.who = "anibd"
    /\ \E offered \in Offers : Tries("hosts", <<>>, [offered |-> offered, left |-> VettedLate(offered)])

AninekoStream ==
    /\ call.who = "anineko"
    /\ \E offered \in Offers : Tries("hosts", <<>>, [offered |-> offered, left |-> Vetted(offered)])

\* allanime: a direct link, or the providers behind their ciphered paths.
AllanimeStream ==
    /\ call.who = "allanime"
    /\ \/ Replies([kind |-> "link", sub |-> 0])
       \/ \E n \in 0 .. 2 : Tries("sources", [k \in 1 .. n |-> k], <<>>)

StreamRead ==
    /\ LastRead /\ call.op = "resolve"
    /\ MegaplayStream \/ MasterStream \/ AnibdStream \/ AninekoStream \/ AllanimeStream

-----------------------------------------------------------------------------
(***************************************************************************)
(* The tries.                                                              *)
(***************************************************************************)

\* probe_ids of anidbapp: a block ends the search, another failure costs the
\* card its ids.
Probes ==
    /\ stage = "probe"
    /\ IF candidates = <<>> THEN Replies([kind |-> "hits", ids |-> kept])
       ELSE \/ Replies(Errs("forbidden"))
            \/ \E found \in {"ids", "none"} : Tries("probe", Tail(candidates), Append(kept, found))

\* Mutated form: the probed episode is skipped.
BisectsPast(lo, mid, hi, has) == IF has THEN [lo |-> mid + 1, hi |-> hi] ELSE [lo |-> lo, hi |-> mid]

Bisects(lo, mid, hi, has) == IF has THEN [lo |-> mid, hi |-> hi] ELSE [lo |-> lo, hi |-> mid]

\* The first episode, the last one, then the middle.
ProbePoint == IF kept.lo = 0 THEN 1 ELSE IF kept.hi > site.eps THEN site.eps ELSE (kept.lo + kept.hi) \div 2

\* dub_prefix of anidbapp: `lo` is dubbed, `hi` is not.
BisectDub ==
    /\ stage = "bisect"
    /\ \/ \E e \in FetchErrors : Replies(Errs(e))
       \/ kept.lo = 0 /\ 1 \notin site.dubbed /\ Replies(NotStocked)
       \/ kept.lo # 0 /\ kept.hi = kept.lo + 1 /\ Replies([kind |-> "listing", upto |-> kept.lo])
       \/ kept.lo # 0 /\ kept.hi = site.eps + 1 /\ site.eps \in site.dubbed
          /\ Replies([kind |-> "listing", upto |-> site.eps])
       \/ /\ kept.lo = 0 => 1 \in site.dubbed
          /\ kept.lo # 0 => kept.hi > kept.lo + 1
          /\ kept.hi > site.eps /\ kept.lo # 0 => site.eps \notin site.dubbed
          /\ Tries("bisect", <<>>, Bisects(kept.lo, ProbePoint, kept.hi, ProbePoint \in site.dubbed))

\* The players of anibd, the embeds of anineko, in their order: a dead one is
\* passed over.
HostTry ==
    /\ stage = "hosts"
    /\ \/ kept.left = {} /\ Replies(Errs("decode"))
       \/ \E k \in kept.left :
             /\ \A j \in kept.left : k <= j
             /\ \/ /\ kept.offered[k].link = "dead"
                   /\ Tries("hosts", <<>>, [kept EXCEPT !.left = kept.left \ {k}])
                \/ /\ kept.offered[k].link = "live"
                   /\ IF call.who = "anibd" THEN Replies([kind |-> "link", sub |-> 0])
                      ELSE Tries("cap", <<>>, <<>>)

\* cap_variant, when a cap is asked for: whatever happens to the master playlist the master plays.
CapVariant ==
    /\ stage = "cap"
    /\ IF call.who = "senshi" /\ call.track = "sub"
       THEN \E tries \in {0, SideTries} : Tries("sidecar", [k \in 1 .. tries |-> k], <<>>)
       ELSE Replies([kind |-> "link", sub |-> 0])

\* Mutated form: a sidecar that does not come is asked for again and again.
PersistsOn(q) == Append(Tail(q), Head(q))

Persists(q) == Tail(q)

\* fetch_subtitle of senshi: bounded retries, and no subtitle is no failure.
Sidecar ==
    /\ stage = "sidecar"
    /\ IF candidates = <<>> THEN Replies([kind |-> "link", sub |-> 0])
       ELSE \/ \E s \in {0, 1} : Replies([kind |-> "link", sub |-> s])
            \/ Tries("sidecar", Persists(candidates), kept)

\* follow_provider of allanime: a failed provider costs its variants only, and
\* what it gave before it failed stays.
FollowSource ==
    /\ stage = "sources"
    /\ IF candidates = <<>>
       THEN Replies(IF kept = <<>> THEN Errs("decode") ELSE [kind |-> "link", sub |-> 0])
       ELSE \E more \in {<<>>, <<Head(candidates)>>} : Tries("sources", Tail(candidates), kept \o more)

\* Mutated form: as many cues will do.
BetterOrEqual(new, old) == new >= old

Better(new, old) == new > old

\* refine_subtitle_by_cues of megaplay: the first of the queue is the pick by
\* metadata; without its count there is no upgrade (best 0), and a candidate
\* whose probe fails is passed over.
CueProbe ==
    /\ stage = "cues"
    /\ \/ candidates = <<>> /\ Replies([kind |-> "link", sub |-> IF kept.best = 0 THEN 1 ELSE kept.best, cues |-> kept.cues])
       \/ /\ candidates # <<>> /\ kept.best = 0
          /\ \/ Replies([kind |-> "link", sub |-> 1, cues |-> kept.cues])
             \/ Tries("cues", Tail(candidates), [kept EXCEPT !.best = Head(candidates)])
       \/ /\ candidates # <<>> /\ kept.best # 0
          /\ \/ Tries("cues", Tail(candidates), kept)
             \/ Tries("cues", Tail(candidates),
                      IF Better(kept.cues[Head(candidates)], kept.cues[kept.best])
                      THEN [kept EXCEPT !.best = Head(candidates)] ELSE kept)

Answered ==
    \/ Unsupported \/ DocumentFails \/ Challenged \/ DocumentEmpty \/ NextDocument
    \/ SearchRead \/ ListingRead \/ StreamRead
    \/ Probes \/ BisectDub \/ HostTry \/ CapVariant \/ Sidecar \/ FollowSource \/ CueProbe

AdaptersFairness == WF_adapterVars(Answered)

AdaptersSpec == AdaptersInit /\ [][Answered]_adapterVars /\ AdaptersFairness

-----------------------------------------------------------------------------
(***************************************************************************)
(* Properties.                                                             *)
(***************************************************************************)
DubIsPrefix == site.dubbed = 1 .. Cardinality(site.dubbed)

\* "Not stocked" is stored for a week: it is never read from a failure, a block
\* or a page that merely parsed to nothing (page_get, episodes, search).
AbsenceHonest ==
    reply = NotStocked =>
        \/ ~site.stocked
        \/ call.op = "episodes" /\ call.track = "dub" /\ call.who \in {"anidbapp", "allanime"}
           /\ (DubIsPrefix => site.dubbed = {})

\* dub_prefix: the listing ends at a dubbed episode, and at the last one when
\* the dub is a prefix of the show.
DubBoundary ==
    reply.kind = "listing" /\ call.who = "anidbapp" /\ call.track = "dub" =>
        reply.upto \in site.dubbed /\ (DubIsPrefix => reply.upto = Cardinality(site.dubbed))

\* resolve of anineko: a working embed is only missed behind HostTries others
\* that could be fetched; malformed entries do not spend the budget.
HostsServe ==
    [][stage = "hosts" /\ call.who = "anineko" /\ reply'.kind = "err" =>
          \A k \in DOMAIN kept.offered :
              kept.offered[k] = [clean |-> TRUE, link |-> "live"] =>
                  Cardinality({j \in 1 .. (k - 1) : kept.offered[j].clean}) >= HostTries]_adapterVars

\* refine_subtitle_by_cues: the pick by metadata only yields to a track that has
\* more cues.
CuesNeverWorse ==
    reply.kind = "link" /\ "cues" \in DOMAIN reply /\ reply.sub > 1 => reply.cues[reply.sub] > reply.cues[1]

\* A call ends whatever the site does: every request has a deadline and every
\* retry a bound.
CallEnds == <>(reply # Unanswered)

\* An answer of a provider says what its site says, and a failure is not an answer
\* (the operations of src/providers).
CallsHonest == [](AbsenceHonest /\ DubBoundary /\ CuesNeverWorse) /\ HostsServe
=============================================================================
