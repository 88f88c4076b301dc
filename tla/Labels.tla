------------------------------- MODULE Labels -------------------------------
(***************************************************************************)
(* What an episode label stands for (src/providers/*.rs): the grid is made *)
(* from the rows a site lists, a label of it is resolved later, when the   *)
(* site may list other rows, and out of the streams of that episode one is *)
(* taken for the track asked for, with one of the captions.  Numbers are   *)
(* in tenths: 15 is "1.5".                                                 *)
(***************************************************************************)
EXTENDS Integers, Sequences, SequencesExt, FiniteSets, FiniteSetsExt

CONSTANTS
    Listings,   \* what sites list at first: [base, rows]
    MaxNumber,  \* bound of the run: the last number a site lists
    ServerLists,\* the streams a site may offer for an episode
    Captions,   \* the caption lists a player page may hold
    HintCap     \* MAX_EPISODE_HINT, in episodes

\* A label that is not a number: "SP1".
SpecialLabel == 10000

\* What a site lists: a number, and whether there is a page behind it.
ListedRow == [no : (0 .. MaxNumber) \cup {SpecialLabel}, ok : BOOLEAN]

ASSUME LabelsAssumption ==
    /\ MaxNumber \in Nat /\ HintCap \in Nat \ {0}
    /\ \A l \in Listings : l.base \in Nat /\ l.rows \in Seq(ListedRow)
    /\ ServerLists \subseteq Seq([name : STRING, usable : BOOLEAN])
    /\ Captions \subseteq Seq([english : BOOLEAN, default : BOOLEAN, kind : STRING, safe : BOOLEAN])

VARIABLES
    who,     \* the provider
    base,    \* what the site's numbering is ahead of the canonical one
    rows,    \* what the site lists: [no, ok]
    grid,    \* the listing the program holds: [label, no], the row it was made from
    moved,   \* the site's first row has changed since the listing
    got,     \* the stream of the last resolve: [label, track, no, server] or NoStream
    cues     \* the captions of the last page and the one picked

labelVars == <<who, base, rows, grid, moved, got, cues>>

-----------------------------------------------------------------------------
(***************************************************************************)
(* Labels and rows.                                                        *)
(***************************************************************************)
\* episode_sort_key: specials come after all numbers, and tie.
Key(label) == IF label >= SpecialLabel THEN SpecialLabel ELSE label

Whole(n) == n % 10 = 0 /\ n < SpecialLabel

\* A stable insertion: after all that sort before it or tie.
RowInserted(row, sorted) ==
    InsertAt(sorted, Max({0} \cup {i \in DOMAIN sorted : Key(sorted[i].no) <= Key(row.no)}) + 1, row)

Sorting(rs) ==
    LET sorted[n \in 0 .. Len(rs)] == IF n = 0 THEN <<>> ELSE RowInserted(rs[n], sorted[n - 1])
    IN  sorted

SortedRows(rs) == Sorting(rs)[Len(rs)]

\* Of the first n rows those that are kept.
Keeping(rs, kept) ==
    LET rest[n \in 0 .. Len(rs)] ==
            IF n = 0 THEN <<>> ELSE IF n \in kept THEN Append(rest[n - 1], rs[n]) ELSE rest[n - 1]
    IN  rest

Kept(rs, kept) == Keeping(rs, kept)[Len(rs)]

\* dedup: of rows with one number the first listed stays.
Distinct(rs) == Kept(rs, {i \in DOMAIN rs : i = 1 \/ rs[i - 1].no # rs[i].no})

Cut(rs, n) == IF Len(rs) > n THEN SubSeq(rs, 1, n) ELSE rs

NumberedRows(rs) == Kept(rs, {i \in DOMAIN rs : rs[i].ok /\ Whole(rs[i].no) /\ rs[i].no > 0})

\* The rows a provider keeps of the site's, in its order.
AnidbappRows(rs) == Distinct(SortedRows(NumberedRows(rs)))
AnibdRows(rs) == Distinct(SortedRows(NumberedRows(rs)))
AninekoRows(rs) == Cut(Distinct(SortedRows(NumberedRows(rs))), HintCap)
SenshiRows(rs) == SortedRows(Kept(rs, {i \in DOMAIN rs : rs[i].no > 0 /\ rs[i].no < SpecialLabel}))
AllanimeRows(rs) == SortedRows(rs)

\* Mutated form: the offset is the first number itself.
OffsetOfFirst(parsed) == IF parsed = <<>> THEN 0 ELSE parsed[1].no

\* base_offset of anidbapp: a site that numbers through its seasons.
Offset(parsed) == IF parsed = <<>> THEN 0 ELSE parsed[1].no - 10

SiteOffers(rs, n) == \E i \in DOMAIN rs : rs[i].ok /\ rs[i].no = n

Cell(label, n) == [label |-> label, no |-> n]

Cells(parsed, offset) == [i \in DOMAIN parsed |-> Cell(parsed[i].no - offset, parsed[i].no)]

\* megaplay lists nothing, it counts up to the hint once the first is there.
MegaplayGrid(rs, hint) ==
    IF ~SiteOffers(rs, 10) THEN <<>>
    ELSE LET n == IF hint < 1 THEN 1 ELSE IF hint > HintCap THEN HintCap ELSE hint
         IN  [i \in 1 .. n |-> Cell(10 * i, 10 * i)]

\* episodes
Grid(w, rs, hint) ==
    CASE w = "megaplay" -> MegaplayGrid(rs, hint)
      [] w = "anidbapp" -> Cells(AnidbappRows(rs), Offset(AnidbappRows(rs)))
      [] w = "anibd" -> Cells(AnibdRows(rs), 0)
      [] w = "anineko" -> Cells(AninekoRows(rs), 0)
      [] w = "senshi" -> Cells(SenshiRows(rs), 0)
      [] w = "allanime" -> Cells(AllanimeRows(rs), 0)

\* resolve, the episode asked of the site: a label that is no number is refused by
\* all but allanime, one that is not whole by all but senshi too.
ReadsLabel(w, label) ==
    CASE w = "allanime" -> TRUE
      [] w = "senshi" -> label < SpecialLabel
      [] OTHER -> Whole(label) /\ label > 0

\* Mutated form: the label is the number of the site.
AskedForLabel(w, rs, label) == label

\* The number the site is asked for; the offset is that of the listing of today.
AskedFor(w, rs, label) == label + (IF w = "anidbapp" THEN Offset(AnidbappRows(rs)) ELSE 0)

-----------------------------------------------------------------------------
(***************************************************************************)
(* Streams and captions.                                                   *)
(***************************************************************************)
SaysDub(server) == server.name \in {"dub", "softdub"}

TrackOf(server) == IF SaysDub(server) THEN "dub" ELSE "sub"

\* Mutated form: what is soft is a sub.
MatchScoreSoft(server, track) ==
    IF track = "dub" THEN IF SaysDub(server) THEN 1 ELSE 0
    ELSE CASE server.name \in {"soft", "softdub"} -> 3
           [] server.name = "hard" -> 2
           [] OTHER -> 0

\* match_score of senshi: soft before hard before another sub, and never a dub.
MatchScore(server, track) ==
    IF track = "dub" THEN IF SaysDub(server) THEN 1 ELSE 0
    ELSE CASE SaysDub(server) -> 0
           [] server.name = "soft" -> 3
           [] server.name = "hard" -> 2
           [] server.name = "sub" -> 1

NoServer == 0
FirstOf(S) == IF S = {} THEN NoServer ELSE Min(S)

\* pick_embed of senshi: the first of the best.
BestServer(servers, track) ==
    LET scored == {i \in DOMAIN servers : servers[i].usable /\ MatchScore(servers[i], track) > 0}
    IN  FirstOf({i \in scored : \A j \in scored :
                    MatchScore(servers[j], track) <= MatchScore(servers[i], track)})

OfTrack(servers, track) == {i \in DOMAIN servers : TrackOf(servers[i]) = track}

\* The first server of a track, if it can be used.
OnlyFirst(servers, track) ==
    LET i == FirstOf(OfTrack(servers, track))
    IN  IF i # NoServer /\ servers[i].usable THEN i ELSE NoServer

\* megaplay and allanime ask for one page per track, anidbapp takes the first row of the
\* language, anibd the link of the first group of the kind.
MegaplayServer(servers, track) == OnlyFirst(servers, track)
AllanimeServer(servers, track) == OnlyFirst(servers, track)
AnidbappServer(servers, track) == OnlyFirst(servers, track)
AnibdServer(servers, track) == OnlyFirst(servers, track)

\* anineko vets its servers first and goes on to the next of the track.
AninekoServer(servers, track) == FirstOf({i \in OfTrack(servers, track) : servers[i].usable})

ServerFor(w, servers, track) ==
    CASE w = "senshi" -> BestServer(servers, track)
      [] w = "anineko" -> AninekoServer(servers, track)
      [] w = "megaplay" -> MegaplayServer(servers, track)
      [] w = "allanime" -> AllanimeServer(servers, track)
      [] w = "anidbapp" -> AnidbappServer(servers, track)
      [] w = "anibd" -> AnibdServer(servers, track)

\* is_subtitle_track of megaplay; parse_sub_track of anibd; senshi's sidecar holds
\* nothing else.
MegaplayCaption(cap) == cap.kind \in {"none", "captions"}
AnibdCaption(cap) == cap.kind \in {"none", "captions", "subtitles"}

IsCaption(w, cap) ==
    CASE w = "megaplay" -> MegaplayCaption(cap)
      [] w = "anibd" -> AnibdCaption(cap)
      [] w = "senshi" -> TRUE

\* Mutated form: the first caption, whatever its language.
PickCaptionFirst(w, caps) == FirstOf({i \in DOMAIN caps : IsCaption(w, caps[i])})

English(caps, some) ==
    LET english == {i \in some : caps[i].english}
    IN  IF english # {} THEN Min(english) ELSE FirstOf(some)

\* pick_subtitle of megaplay, pick_sub_track: the default of the host, else the first in
\* English, else the first.
DefaultOrEnglish(caps, some) ==
    LET chosen == {i \in some : caps[i].default}
    IN  IF chosen # {} THEN Min(chosen) ELSE English(caps, some)

PickCaption(w, caps) ==
    LET some == {i \in DOMAIN caps : IsCaption(w, caps[i])}
    IN  IF w = "anibd" THEN English(caps, some) ELSE DefaultOrEnglish(caps, some)

\* guarded_sub_track, guarded_subtitle: a caption the player may not load is none.
Guarded(caps, i) == IF i # NoServer /\ caps[i].safe THEN i ELSE NoServer

-----------------------------------------------------------------------------
Providers == {"megaplay", "senshi", "anibd", "anidbapp", "anineko", "allanime"}
Tracks == {"sub", "dub"}
NoStream == [label |-> 0]
NoPage == [caps |-> <<>>, picked |-> NoServer]

LabelsTypeOK ==
    /\ who \in Providers /\ moved \in BOOLEAN
    /\ \A i \in DOMAIN rows : rows[i].no \in (0 .. MaxNumber) \cup {SpecialLabel}
    /\ \A i \in DOMAIN grid : grid[i].label >= 0
    /\ cues.picked \in 0 .. Len(cues.caps)

LabelsInit ==
    /\ who \in Providers
    /\ \E l \in Listings :
          /\ who # "anidbapp" => l.base = 0
          /\ base = l.base /\ rows = l.rows
    /\ grid = <<>> /\ moved = FALSE /\ got = NoStream /\ cues = NoPage

Untouched == got = NoStream /\ cues = NoPage

\* The site lists the next episode.
SiteGrows ==
    LET last == Max({0} \cup ({rows[i].no : i \in DOMAIN rows} \ {SpecialLabel}))
    IN  /\ Untouched /\ last + 10 <= MaxNumber /\ rows # <<>>
        /\ rows' = Append(rows, [no |-> ((last + 10) \div 10) * 10, ok |-> TRUE])
        /\ UNCHANGED <<who, base, grid, moved, got, cues>>

\* It takes its first row down.
SiteDrops ==
    /\ Untouched /\ rows # <<>>
    /\ LET low == Min({rows[i].no : i \in DOMAIN rows})
       IN  rows' = Kept(rows, {i \in DOMAIN rows : rows[i].no # low})
    /\ moved' = (grid # <<>>)
    /\ UNCHANGED <<who, base, grid, got, cues>>

Lists(hint) ==
    /\ Untouched /\ grid' = Grid(who, rows, hint) /\ moved' = FALSE
    /\ UNCHANGED <<who, base, rows, got, cues>>

\* A label of the grid, or of another provider's grid.
Resolves(label, track, servers) ==
    LET n == AskedFor(who, rows, label)
        i == ServerFor(who, servers, track)
    IN  /\ Untouched /\ ReadsLabel(who, label) /\ SiteOffers(rows, n) /\ i # NoServer
        /\ got' = [label |-> label, track |-> track, no |-> n, server |-> servers[i]]
        /\ UNCHANGED <<who, base, rows, grid, moved, cues>>

\* The captions of a stream, for a sub only.
Captioned(caps) ==
    /\ Untouched /\ grid = <<>> /\ who \in {"megaplay", "senshi", "anibd"}
    /\ cues' = [caps |-> caps, picked |-> Guarded(caps, PickCaption(who, caps))]
    /\ UNCHANGED <<who, base, rows, grid, moved, got>>

Forgets ==
    /\ ~Untouched /\ got' = NoStream /\ cues' = NoPage
    /\ UNCHANGED <<who, base, rows, grid, moved>>

LabelsHeld == {grid[i].label : i \in DOMAIN grid} \cup {15, SpecialLabel}

LabelsNext ==
    \/ SiteGrows \/ SiteDrops \/ Forgets
    \/ \E hint \in 0 .. HintCap + 1 : Lists(hint)
    \/ \E label \in LabelsHeld, track \in Tracks, servers \in ServerLists :
          Resolves(label, track, servers)
    \/ \E caps \in Captions : Captioned(caps)

LabelsSpec == LabelsInit /\ [][LabelsNext]_labelVars

-----------------------------------------------------------------------------
(***************************************************************************)
(* Properties.                                                             *)
(***************************************************************************)

\* A label of the grid plays the episode it was listed for, however the site has
\* grown since; only a site that takes its first row down moves the labels of
\* anidbapp (base_offset is computed again at resolve).
LabelKeeps ==
    got # NoStream /\ ~moved =>
        \A i \in DOMAIN grid : grid[i].label = got.label => grid[i].no = got.no

\* One numbering for all providers: where a listing starts with the first episode,
\* its labels are the canonical numbers, whatever the site counts from.
OneNumbering ==
    grid # <<>> /\ grid[1].no = base + 10 =>
        \A i \in DOMAIN grid : grid[i].no < SpecialLabel => grid[i].label = grid[i].no - base

\* The grid is in the order of the episodes, the specials last, and repeats a label
\* only where the site does (senshi, allanime).
GridInOrder ==
    \A i, j \in DOMAIN grid : i < j =>
        /\ Key(grid[i].label) <= Key(grid[j].label)
        /\ who \notin {"senshi", "allanime"} => grid[i].label # grid[j].label

\* A sub is never answered with a dub, nor a dub with a sub, however the site words
\* its servers.
TrackHeld == got # NoStream => TrackOf(got.server) = got.track

\* The caption is one the player may load and none that is no caption; one in another
\* language is only taken where the page has none in English that could be, or the
\* host says so.
CaptionFits ==
    cues.picked # NoServer =>
        LET cap == cues.caps[cues.picked]
        IN  /\ cap.safe /\ IsCaption(who, cap)
            /\ cap.english \/ cap.default
               \/ \A i \in DOMAIN cues.caps : IsCaption(who, cues.caps[i]) => ~cues.caps[i].english

\* The five together.
LabelsHonest == LabelKeeps /\ OneNumbering /\ GridInOrder /\ TrackHeld /\ CaptionFits
=============================================================================
