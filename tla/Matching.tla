------------------------------ MODULE Matching ------------------------------
(***************************************************************************)
(* Which hit of a provider's search is bound to a show (src/resolver.rs),  *)
(* the title rule it shares with src/anilist.rs, and what a provider makes *)
(* of the works a site lists (src/providers/*.rs, search).  The list of    *)
(* one search grows and changes places: a site answers as it likes.        *)
(***************************************************************************)
EXTENDS Integers, Sequences, SequencesExt, FiniteSets, FiniteSetsExt

CONSTANTS
    Shows,    \* canonical records: [id, titles, eps, year, status]
    Works,    \* what a site may list: [id, titles, eps, year, plain]
    MaxWorks, \* bound of the run: works of one search
    MaxProbe  \* MAX_PROBE of anidbapp

ASSUME MatchAssumption ==
    /\ MaxProbe \in Nat \ {0} /\ MaxWorks \in Nat
    /\ \A s \in Shows : s.titles # {} /\ s.eps \in Nat /\ s.year \in Nat
    /\ \A w \in Works : w.titles # {} /\ w.eps \in Nat /\ w.year \in Nat

VARIABLES
    show,   \* the show that is looked for
    site,   \* the provider that is asked
    works,  \* what it lists, in its order
    bind    \* the index of the hit that matches, NoMatch without one

matchVars == <<show, site, works, bind>>

NoMatch == 0
Unknown == 0

-----------------------------------------------------------------------------
(***************************************************************************)
(* Titles: sequences of words, digits, ordinals, marks.                    *)
(***************************************************************************)
Digits == {"1", "2"}
Ordinals == {"st", "nd"}
TitleMarks == {":", " "}

\* normalize_title
Normalized(t) == SelectSeq(t, LAMBDA w : w \notin TitleMarks)

\* The length of the run of digits that starts, or ends, a title.
LeadingDigits(t) == Max({n \in 0 .. Len(t) : \A i \in 1 .. n : t[i] \in Digits})
TrailingDigits(t) == LeadingDigits(Reverse(t))

\* canon_season: "Season N" and "Nth Season" are both sN.
CanonSeason(t) ==
    IF ~Contains(t, "season") THEN t
    ELSE LET at == Min({i \in DOMAIN t : t[i] = "season"})
             before == SubSeq(t, 1, at - 1)
             after == SubSeq(t, at + 1, Len(t))
             bare == IF before # <<>> /\ Last(before) \in Ordinals THEN Front(before) ELSE before
             cut == Len(bare) - TrailingDigits(bare)
         IN  IF LeadingDigits(after) > 0 THEN before \o <<"s">> \o after
             ELSE IF TrailingDigits(bare) = 0 THEN t
             ELSE SubSeq(bare, 1, cut) \o <<"s">> \o SubSeq(bare, cut + 1, Len(bare)) \o after

Inside(s, t) == \E i \in 1 .. Len(t) - Len(s) + 1 : SubSeq(t, i, i + Len(s) - 1) = s

Exact == 1600
NoOverlap == -5000

\* title_score
TitleScore(a, b) ==
    LET na == CanonSeason(Normalized(a))
        nb == CanonSeason(Normalized(b))
    IN  IF na = <<>> \/ nb = <<>> THEN NoOverlap
        ELSE IF na = nb THEN Exact
        ELSE IF IsPrefix(na, nb) \/ IsPrefix(nb, na) THEN 1250
        ELSE IF Inside(na, nb) \/ Inside(nb, na) THEN 900
        ELSE NoOverlap

BestTitle(s, h) == Max({TitleScore(a, b) : a \in s.titles, b \in h.titles})

-----------------------------------------------------------------------------
Apart(x, y) == IF x > y THEN x - y ELSE y - x

BothKnown(x, y) == x # Unknown /\ y # Unknown

\* total_is_authoritative: an unknown status is.
Authoritative(s) == s.status \notin {"RELEASING", "HIATUS"}

\* A total of 0, or none, says nothing.
EpsKnown(s, h) == s.eps > 0 /\ h.eps > 0

\* Mutated form: an id is taken at its word.
ContradictedNever(s, h) == FALSE

\* id_match_contradicted
Contradicted(s, h) ==
    \/ EpsKnown(s, h) /\ Authoritative(s) /\ Apart(s.eps, h.eps) > 3
    \/ BothKnown(s.year, h.year) /\ Apart(s.year, h.year) > 1

\* id_match_corroborated
Corroborated(s, h) ==
    \/ EpsKnown(s, h) /\ Apart(s.eps, h.eps) <= 3
    \/ BothKnown(s.year, h.year) /\ Apart(s.year, h.year) <= 1

\* The hits whose id agrees and whose metadata does not contradict it.
Survivors(s, hs) == {i \in DOMAIN hs : hs[i].id = s.id /\ ~Contradicted(s, hs[i])}

\* Mutated form: the first survivor, corroborated or not.
IdMatchFirst(s, hs) == IF Survivors(s, hs) = {} THEN NoMatch ELSE Min(Survivors(s, hs))

\* best_id_match: the first corroborated survivor, else the first.
IdMatch(s, hs) ==
    LET sure == {i \in Survivors(s, hs) : Corroborated(s, hs[i])}
    IN  IF sure # {} THEN Min(sure)
        ELSE IF Survivors(s, hs) # {} THEN Min(Survivors(s, hs)) ELSE NoMatch

EpsScore(s, h) ==
    LET d == Apart(s.eps, h.eps)
    IN  IF ~EpsKnown(s, h) THEN 0
        ELSE IF d = 0 THEN 180 ELSE IF d <= 1 THEN 120 ELSE IF d <= 3 THEN 60 ELSE -120

YearScore(s, h) ==
    IF ~BothKnown(s.year, h.year) THEN 0
    ELSE IF s.year = h.year THEN 120 ELSE IF Apart(s.year, h.year) = 1 THEN 40 ELSE -160

\* An authoritative total that is far off is another work.
AnotherWork(s, h) == EpsKnown(s, h) /\ Authoritative(s) /\ Apart(s.eps, h.eps) > 3

\* candidate_score
Score(s, h) ==
    IF BestTitle(s, h) < 0 THEN BestTitle(s, h)
    ELSE IF AnotherWork(s, h) THEN -4000
    ELSE BestTitle(s, h) + EpsScore(s, h) + YearScore(s, h)

BestFloor == 1200

\* Mutated form: a lead of two hundred is enough.
LeadsBy200(best, second) == second < 0 \/ best - second >= 200

\* MATCH_MARGIN; a hopeless runner-up is none.
Leads(best, second) == second < 0 \/ best - second >= 250

\* best_provider_match: the first of the best, if it is good enough and leads.
ProviderMatch(s, hs) ==
    LET score == [i \in DOMAIN hs |-> Score(s, hs[i])]
        best == Max({score[i] : i \in DOMAIN hs})
        first == Min({i \in DOMAIN hs : score[i] = best})
    IN  IF hs # <<>> /\ best >= BestFloor
           /\ \A i \in DOMAIN hs \ {first} : Leads(best, score[i])
        THEN first ELSE NoMatch

\* The walk and the prewarm probe: the id first, the title if it finds none.
Match(s, hs) == IF IdMatch(s, hs) # NoMatch THEN IdMatch(s, hs) ELSE ProviderMatch(s, hs)

-----------------------------------------------------------------------------
(***************************************************************************)
(* The hits of a site.  plain: the page shows what the adapter looks for,  *)
(* the count in the slot that may hold a year (anineko), the cover of      *)
(* AniList (allanime), a detail page that answers (anidbapp).              *)
(***************************************************************************)
SearchSites == {"senshi", "anidbapp", "anineko", "allanime"}

HitRecord(id, w, eps, year) == [id |-> id, titles |-> w.titles, eps |-> eps, year |-> year]

\* map_anime: the id of MAL, and the episodes out so far as the count of an airing show.
SenshiHit(w) == HitRecord(w.id, w, w.eps, w.year)

\* search of anidbapp: a card, and the ids of its page if that answers.
AnidbappHit(w) == HitRecord(IF w.plain THEN w.id ELSE Unknown, w, Unknown, w.year)

\* Mutated form: any number of the slot is a count.
AninekoHitSlot(w) == HitRecord(Unknown, w, IF w.plain THEN w.eps ELSE w.year, Unknown)

\* parse_search of anineko, meta_episodes: a bare year is no count.
AninekoHit(w) == HitRecord(Unknown, w, IF w.plain THEN w.eps ELSE Unknown, Unknown)

\* edge_to_hit, anilist_id_from_thumb
AllanimeHit(w) == HitRecord(IF w.plain THEN w.id ELSE Unknown, w, w.eps, w.year)

HitOf(p, w) ==
    CASE p = "senshi" -> SenshiHit(w)
      [] p = "anidbapp" -> AnidbappHit(w)
      [] p = "anineko" -> AninekoHit(w)
      [] p = "allanime" -> AllanimeHit(w)

\* relevance: equal, starts with, contains; the number of episodes breaks a tie.
Relevance(w, q) ==
    LET n == CHOOSE t \in w.titles : TRUE
    IN  1000 * (IF n = q THEN 3 ELSE IF IsPrefix(q, n) THEN 2 ELSE IF Inside(q, n) THEN 1 ELSE 0) + w.eps

\* A stable insertion: after all that are as relevant.
Placed(w, ranked, q) ==
    InsertAt(ranked, Max({0} \cup {i \in DOMAIN ranked : Relevance(ranked[i], q) >= Relevance(w, q)}) + 1, w)

\* The first n works, the relevant ones first.
Ranking(ws, q) ==
    LET ranked[n \in 0 .. Len(ws)] == IF n = 0 THEN <<>> ELSE Placed(ws[n], ranked[n - 1], q)
    IN  ranked

\* allanime sorts what the site sends, anidbapp looks at the first few.
SiteHits(p, s, ws) ==
    LET q == CHOOSE t \in s.titles : TRUE
        kept == CASE p = "allanime" -> Ranking(ws, q)[Len(ws)]
                  [] p = "anidbapp" /\ Len(ws) > MaxProbe -> SubSeq(ws, 1, MaxProbe)
                  [] OTHER -> ws
    IN  [i \in DOMAIN kept |-> HitOf(p, kept[i])]

hits == SiteHits(site, show, works)

-----------------------------------------------------------------------------
MatchInit == show \in Shows /\ site \in SearchSites /\ works = <<>> /\ bind = NoMatch

\* The site answers with another list.
Answers(ws) ==
    works' = ws /\ bind' = Match(show, SiteHits(site, show, ws)) /\ UNCHANGED <<show, site>>

ListsAnother == Len(works) < MaxWorks /\ \E w \in Works : Answers(Append(works, w))

Reranks == \E i \in 1 .. Len(works) - 1 :
    Answers([works EXCEPT ![i] = works[i + 1], ![i + 1] = works[i]])

MatchNext == ListsAnother \/ Reranks

MatchSpec == MatchInit /\ [][MatchNext]_matchVars

-----------------------------------------------------------------------------
MatchTypeOK ==
    /\ show \in Shows /\ site \in SearchSites
    /\ Len(works) <= MaxWorks /\ Range(works) \subseteq Works /\ bind \in 0 .. Len(hits)

Chosen == IF bind = NoMatch THEN {} ELSE {hits[bind]}

\* The show itself, as a site that knows it describes it.
Own(w) ==
    /\ w.id = show.id /\ \E t \in w.titles : TitleScore(t, CHOOSE s \in show.titles : TRUE) = Exact
    /\ w.eps \in {Unknown, show.eps} /\ w.year \in {Unknown, show.year}

\* A site that lists the show and nothing else binds it, however little of it the page
\* says (meta_episodes: a year read as a count makes the scorer reject the show).
RightShowBinds == Len(works) = 1 /\ Own(works[1]) => bind # NoMatch

\* A hit whose length is that of another work is never bound, by its id or by its
\* title (id_match_contradicted, the hard reject of candidate_score).
NoOtherWork == \A h \in Chosen : ~AnotherWork(show, h)

\* No hit with a lesser title is bound beside one of the exact title, whatever
\* years and lengths say, unless that one is another work, or an id decided
\* (the margin against the weight of the tie-breakers).
ExactTitleStands ==
    (bind # NoMatch /\ IdMatch(show, hits) = NoMatch /\ BestTitle(show, hits[bind]) < Exact) =>
        \A i \in DOMAIN hits : BestTitle(show, hits[i]) = Exact => AnotherWork(show, hits[i])

\* One more work can be bound itself or make the match refuse; it never moves the
\* match to a third.
RivalOnlyRefuses ==
    [][Len(works') > Len(works) => Chosen' \subseteq Chosen \cup {HitOf(site, Last(works'))}]_matchVars

\* The order of the works decides nothing, except among hits the id vouches for alike
\* and of the cards anidbapp looks at.
OrderFree ==
    [][(/\ works' # works /\ Len(works') = Len(works)
        /\ site = "anidbapp" => Len(works) <= MaxProbe
        /\ \A i, j \in Survivors(show, hits) :
              Corroborated(show, hits[i]) = Corroborated(show, hits[j]) => i = j)
          => Chosen' = Chosen]_matchVars

\* The five together.
MatchSound == [](RightShowBinds /\ NoOtherWork /\ ExactTitleStands) /\ RivalOnlyRefuses /\ OrderFree
=============================================================================
