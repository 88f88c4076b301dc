------------------------------- MODULE MCData -------------------------------
(***************************************************************************)
(* TLC instances of the machines that keep data: what is on disk, in the   *)
(* tables, in the caches, on the screen.  They share no state with one     *)
(* another: a behaviour picks one part and runs it, the others stay parked *)
(* in an initial state, so each part is checked over all of its own        *)
(* behaviours and no product is built.                                     *)
(***************************************************************************)
EXTENDS StoreOpen, ResumeMark, LegacyImport, Discover, CoverCache, Navigation,
        Replicas, QueryPlay, Matching, Variants, Airing, Labels,
        Panes

VARIABLE part

dataVars == <<openVars, resumeVars, legacyVars, discoverVars, cacheVars, navVars, replicaVars,
              copiesVars, queryVars, matchVars, variantVars, airingVars, labelVars, paneVars,
              windowVars, part>>

DataInit ==
    /\ part \in {"open", "resume", "legacy", "discover", "cache", "navigation", "replicas",
              "collapse", "query", "match", "variants", "airing", "labels", "panes", "windows"}
    /\ ResumeInit
    /\ OpenInit /\ (part # "open" => file = Blank /\ ~readonly)
    /\ (part # "legacy" => zig = <<>> /\ pins = [s \in LegacyIds |-> "none"]) /\ LegacyInit
    /\ DiscoverInit /\ (part # "discover" => axis = CHOOSE a \in Axes : TRUE)
    /\ (part # "cache" => files = [u \in ArtUrls |-> "none"]) /\ CacheInit
    /\ (part # "navigation" => saved = {}) /\ NavInit
    /\ (part # "replicas" => entry = None) /\ ReplicasInit
    /\ (part # "query" => argv = <<>>) /\ QueryInit
    /\ (part # "match" => site = "senshi" /\ show = CHOOSE s \in Shows : TRUE) /\ MatchInit
    /\ (part # "variants" => quality = Best) /\ VariantsInit
    /\ AiringInit /\ (part # "airing" => date.year = 1970)
    /\ (part # "labels" => who = "megaplay" /\ rows = <<>>) /\ LabelsInit
    /\ PanesInit /\ (part # "panes" => place = "rows" /\ term.w = CHOOSE w \in TermWidths : TRUE)
    /\ WindowsInit /\ (part # "windows" => listView = "browse" /\ contents = <<>>
                                          /\ frame = CHOOSE f \in Frames : TRUE)
    /\ (part # "collapse" => list = <<CHOOSE c \in Copy : TRUE>>) /\ CollapseInit

PartSteps ==
    \/ part = "open" /\ OpenNext
    \/ part = "resume" /\ ResumeNext
    \/ part = "legacy" /\ LegacyNext
    \/ part = "discover" /\ DiscoverNext
    \/ part = "cache" /\ CacheNext
    \/ part = "navigation" /\ NavNext
    \/ part = "replicas" /\ ReplicasNext
    \/ part = "collapse" /\ Reorder
    \/ part = "query" /\ QueryNext
    \/ part = "match" /\ MatchNext
    \/ part = "variants" /\ VariantsNext
    \/ part = "airing" /\ AiringNext
    \/ part = "labels" /\ LabelsNext
    \/ part = "panes" /\ PanesNext
    \/ part = "windows" /\ WindowsNext

OthersRest ==
    /\ part # "open" => UNCHANGED openVars
    /\ part # "resume" => UNCHANGED resumeVars
    /\ part # "legacy" => UNCHANGED legacyVars
    /\ part # "discover" => UNCHANGED discoverVars
    /\ part # "cache" => UNCHANGED cacheVars
    /\ part # "navigation" => UNCHANGED navVars
    /\ part # "replicas" => UNCHANGED replicaVars
    /\ part # "collapse" => UNCHANGED copiesVars
    /\ part # "query" => UNCHANGED queryVars
    /\ part # "match" => UNCHANGED matchVars
    /\ part # "variants" => UNCHANGED variantVars
    /\ part # "airing" => UNCHANGED airingVars
    /\ part # "labels" => UNCHANGED labelVars
    /\ part # "panes" => UNCHANGED paneVars
    /\ part # "windows" => UNCHANGED windowVars

DataNext == OthersRest /\ UNCHANGED part /\ PartSteps

\* ReplicasFairness; nothing is due in the other parts.
DataSpec ==
    /\ DataInit /\ [][DataNext]_dataVars
    /\ \A d \in Devices : WF_replicaVars(part = "replicas" /\ Sync(d))

-----------------------------------------------------------------------------
\* The type invariants of the parts.
DataTypeOK ==
    /\ OpenTypeOK /\ ResumeTypeOK /\ LegacyTypeOK /\ DiscoverTypeOK
    /\ NavTypeOK /\ ReplicasTypeOK /\ QueryTypeOK
    /\ MatchTypeOK /\ VariantsTypeOK /\ AiringTypeOK /\ LabelsTypeOK
    /\ PanesTypeOK /\ WindowsTypeOK

\* What is picked is what is meant: of the hits of a search the work itself, of the
\* variants of a stream the one within the cap, of the rows of a site the episode of
\* the label, of its servers the track, and of the calendar the cour (resolver.rs,
\* hls.rs, domain.rs, providers/*.rs).
PicksHonest == MatchSound /\ VariantsSound /\ AiringSound /\ []LabelsHonest

-----------------------------------------------------------------------------
Sibling(i, s, l, st, se, p, v) ==
    [id |-> i, source |-> s, listing |-> l, status |-> st, seen |-> se, progress |-> p, visible |-> v]

\* Two ids, each with a bound, an older bound and an unbound sibling.
SomeZigRows ==
    {Sibling(1, "p", 1, "watching", 1, 0, TRUE), Sibling(1, "p", 2, "planning", -1, 1, FALSE),
     Sibling(1, "unbound", 1, "planning", 1, 1, TRUE), Sibling(2, "p", 1, "watching", -1, 0, TRUE),
     Sibling(2, "p", 2, "planning", 1, 0, FALSE), Sibling(2, "unbound", 2, "watching", 1, 1, TRUE)}

SomeFeeds == [a \in {"t", "s"} |-> IF a = "t" THEN 3 ELSE 2]

SomePixels == {[w |-> 0, h |-> 0], [w |-> 10, h |-> 20]}
FrameOf(w, h) == [w |-> w, h |-> h]
SomeFrames == {FrameOf(16, 5), FrameOf(34, 8), FrameOf(50, 22), FrameOf(90, 40)}
SomeListed == [l \in {"browse", "history", "discover"} |-> IF l = "discover" THEN 5 ELSE 3]

SomeSizes == [u \in {"u", "v"} |-> IF u = "u" THEN 2 ELSE 1]
SomeCaps == [raw |-> 2, decoded |-> 3]

SomeOffers == [l \in {1, 2} |-> IF l = 1 THEN 2 ELSE 1]

Sequel == <<"x", " ", "season", "2">>
SomeShows ==
    {[id |-> 7, titles |-> {<<"x", ":", "2", "nd", "season">>}, eps |-> m[1], year |-> 3, status |-> m[2]] :
        m \in {<<0, "none">>, <<12, "none">>, <<12, "RELEASING">>}}
SomeWorks ==
    {[id |-> i, titles |-> {t}, eps |-> m[1], year |-> m[2], plain |-> p] :
        i \in {7, 8}, t \in {Sequel, <<"x">>, <<"y", "x">>},
        m \in {<<0, 0>>, <<12, 3>>, <<24, 6>>, <<0, 3>>}, p \in BOOLEAN}

SomeDays ==
    {[day |-> 0, year |-> 1970, month |-> 1, dom |-> 1],
     [day |-> 10956, year |-> 1999, month |-> 12, dom |-> 31],
     [day |-> 47482, year |-> 2100, month |-> 1, dom |-> 1]}

SiteRow(n) == [no |-> n, ok |-> TRUE]
Absolute == <<SiteRow(30), SiteRow(40)>>
Shuffled == <<SiteRow(20), SiteRow(10), SiteRow(20)>>
Odd == <<SiteRow(15), SiteRow(10), SiteRow(SpecialLabel)>>
Holed == <<[no |-> 10, ok |-> FALSE], SiteRow(20), SiteRow(0)>>
SomeListings ==
    {[base |-> b, rows |-> r] : b \in {0, 20}, r \in {<<>>, Absolute}}
    \cup {[base |-> 0, rows |-> r] : r \in {Shuffled, Odd, Holed}}
Server(n, u) == [name |-> n, usable |-> u]
SomeServers ==
    BoundedSeq({Server("soft", FALSE), Server("hard", TRUE), Server("dub", TRUE),
                Server("softdub", TRUE)}, 2)
SomeCaptions ==
    BoundedSeq([english : BOOLEAN, default : BOOLEAN, kind : {"none"}, safe : BOOLEAN]
               \cup {[english |-> TRUE, default |-> TRUE, kind |-> "thumbnails", safe |-> TRUE]}, 2)
=============================================================================
