------------------------------ MODULE PlayProofs ------------------------------
(***************************************************************************)
(* Theorems about the episode session, the play session over it and the    *)
(* prewarm beside both, for any registry, preference, shows, tracks and    *)
(* keys, and any number of opens, presses, answers, plays, probes,         *)
(* failures and deletes in any order.  First the walk engine and the       *)
(* inductive invariant of the session; then a play and the watch it        *)
(* belongs to; last the prewarm's own safety, and that what it writes      *)
(* behind the sessions' back breaks none of their promises but             *)
(* BindingsWin, which speaks of the bindings there were when an open       *)
(* classified its show.                                                    *)
(***************************************************************************)
EXTENDS Prewarm, WellFoundedInduction, SequenceTheorems, FiniteSetTheorems, TLAPS

-----------------------------------------------------------------------------
(***************************************************************************)
(* The walk engine                                                         *)
(***************************************************************************)

\* An order asks every provider once.
OnceEach(order) ==
    /\ order \in Seq(Providers)
    /\ \A i, j \in DOMAIN order : order[i] = order[j] => i = j
    /\ \A p \in Providers : \E i \in DOMAIN order : order[i] = p

LEMMA RegistryFacts ==
    /\ Registry \in Seq(Providers)
    /\ Len(Registry) \in Nat \ {0} /\ DOMAIN Registry = 1 .. Len(Registry)
    /\ \A i \in 1 .. Len(Registry) : Registry[i] \in Providers
    /\ \A i, j \in 1 .. Len(Registry) : Registry[i] = Registry[j] => i = j
    /\ \A p \in Providers : PositionOf(p) \in 1 .. Len(Registry) /\ Registry[PositionOf(p)] = p
<1>1. /\ Registry \in Seq(Providers)
      /\ Len(Registry) \in Nat \ {0} /\ DOMAIN Registry = 1 .. Len(Registry)
  BY RegistryAssumption, LenProperties
<1>2. \A i \in DOMAIN Registry : Registry[i] \in Providers
  BY DEF Providers
<1>3. ASSUME NEW p \in Providers
      PROVE  PositionOf(p) \in DOMAIN Registry /\ Registry[PositionOf(p)] = p
  BY <1>3 DEF PositionOf, Providers
<1>4. QED
  BY <1>1, <1>2, <1>3, RegistryAssumption

\* ProviderRegistry::ordered lists every provider once, the preferred one first.
LEMMA OrderedOnceEach ==
    ASSUME NEW pref \in Providers \cup {None}
    PROVE  OnceEach(Ordered(pref)) /\ Len(Ordered(pref)) = Len(Registry)
<1>1. CASE pref = None
  BY <1>1, RegistryFacts DEF Ordered, OnceEach
<1>2. CASE pref \in Providers
  <2> DEFINE n == Len(Registry)
             pos == PositionOf(pref)
             order == Ordered(pref)
  <2>1. /\ n \in Nat \ {0} /\ pos \in 1 .. n /\ Registry[pos] = pref
        /\ \A i \in 1 .. n : Registry[i] \in Providers
        /\ \A i, j \in 1 .. n : Registry[i] = Registry[j] => i = j
    BY <1>2, RegistryFacts
  <2>2. order = [i \in 1 .. n |-> IF i = 1 THEN pref
                                  ELSE IF i <= pos THEN Registry[i - 1] ELSE Registry[i]]
    BY <1>2, RegistryFacts, RegistryAssumption DEF Ordered
  <2> HIDE DEF n, pos, order
  <2>3. order \in [1 .. n -> Providers]
    BY <1>2, <2>1, <2>2
  <2>4. order \in Seq(Providers) /\ Len(order) = n /\ DOMAIN order = 1 .. n
    BY <2>1, <2>3, SeqDef, LenProperties
  <2>5. ASSUME NEW i \in 1 .. n, NEW j \in 1 .. n, order[i] = order[j] PROVE i = j
    BY <2>1, <2>2, <2>5
  <2>6. ASSUME NEW p \in Providers PROVE \E i \in 1 .. n : order[i] = p
    <3>1. PICK k \in 1 .. n : Registry[k] = p
      BY RegistryFacts DEF n
    <3>2. CASE k = pos
      BY <2>1, <2>2, <3>1, <3>2
    <3>3. CASE k < pos
      <4>1. k + 1 \in 1 .. n /\ order[k + 1] = p
        BY <2>1, <2>2, <3>1, <3>3
      <4>2. QED
        BY <4>1
    <3>4. CASE k > pos
      BY <2>1, <2>2, <3>1, <3>4
    <3>5. QED
      BY <2>1, <3>2, <3>3, <3>4
  <2>7. QED
    BY <2>4, <2>5, <2>6 DEF OnceEach, order, n
<1>3. QED
  BY <1>1, <1>2

\* The circle from any provider on lists every provider once.
LEMMA ManualOnceEach ==
    ASSUME NEW p \in Providers
    PROVE  LET order == ManualWalk(p).order
           IN  OnceEach(order) /\ Len(order) = Len(Registry) /\ order[1] = p
<1> DEFINE n == Len(Registry)
           pos == PositionOf(p)
           order == ManualWalk(p).order
<1>1. /\ n \in Nat \ {0} /\ pos \in 1 .. n /\ Registry[pos] = p
      /\ \A i \in 1 .. n : Registry[i] \in Providers
      /\ \A i, j \in 1 .. n : Registry[i] = Registry[j] => i = j
  BY RegistryFacts
<1>2. order = [i \in 1 .. n |-> Registry[IF pos + i - 1 > n THEN pos + i - 1 - n ELSE pos + i - 1]]
  BY RegistryFacts DEF ManualWalk, Circle
<1> HIDE DEF n, pos, order
<1>3. order \in [1 .. n -> Providers]
  BY <1>1, <1>2
<1>4. order \in Seq(Providers) /\ Len(order) = n /\ DOMAIN order = 1 .. n
  BY <1>1, <1>3, SeqDef, LenProperties
<1>5. ASSUME NEW i \in 1 .. n, NEW j \in 1 .. n, order[i] = order[j] PROVE i = j
  BY <1>1, <1>2, <1>5
<1>6. ASSUME NEW q \in Providers PROVE \E i \in 1 .. n : order[i] = q
  <2>1. PICK k \in 1 .. n : Registry[k] = q
    BY RegistryFacts DEF n
  <2>2. CASE k >= pos
    <3>1. k - pos + 1 \in 1 .. n /\ order[k - pos + 1] = q
      BY <1>1, <1>2, <2>1, <2>2
    <3>2. QED
      BY <3>1
  <2>3. CASE k < pos
    <3>1. k + n - pos + 1 \in 1 .. n /\ order[k + n - pos + 1] = q
      BY <1>1, <1>2, <2>1, <2>3
    <3>2. QED
      BY <3>1
  <2>4. QED
    BY <1>1, <2>2, <2>3
<1>7. order[1] = p
  BY <1>1, <1>2
<1>8. QED
  BY <1>4, <1>5, <1>6, <1>7 DEF OnceEach, order, n

\* The next provider on the circle is a provider.
LEMMA AfterType == ASSUME NEW p \in Providers PROVE After(p) \in Providers
  BY RegistryFacts DEF After, Circle

\* A set of places that is not empty has a first one.
LEMMA LeastPlace ==
    ASSUME NEW D \in SUBSET Nat, D # {}
    PROVE  Min(D) \in D
<1>1. PICK x \in D : \A y \in D : <<y, x>> \notin OpToRel(<, Nat)
  BY NatLessThanWellFounded, WFMin
<1>2. ASSUME NEW y \in D PROVE x <= y
  <2>1. ~(y < x)
    <3> DEFINE pair == <<y, x>>
    <3>1. pair \in Nat \X Nat /\ pair[1] = y /\ pair[2] = x
      OBVIOUS
    <3>2. ~(pair[1] < pair[2])
      BY <1>1, <3>1 DEF OpToRel
    <3>3. QED
      BY <3>1, <3>2
  <2>2. QED
    BY <2>1
<1>3. QED
  BY <1>2 DEF Min

\* What the engine reads about a show is well typed.
WorldType(w) ==
    /\ w.bound \in SUBSET Providers /\ w.absent \in SUBSET Providers
    /\ w.keyed \in SUBSET Providers /\ w.last \in Providers \cup {None}

LEMMA PreferenceType ==
    ASSUME NEW w, WorldType(w)
    PROVE  Preference(w) \in Providers \cup {None}
  BY PrefAssumption DEF WorldType, Preference

\* The verdict of an open names a provider of its tier, and a key only where there
\* is no binding.
LEMMA VerdictType ==
    ASSUME NEW w, WorldType(w)
    PROVE  LET v == ClassifyOpen(w)
           IN  \/ v.tier = "bound" /\ v.provider \in w.bound
               \/ v.tier = "key" /\ v.provider \in w.keyed /\ w.bound = {}
               \/ v.tier = "search" /\ w.bound = {} /\ w.keyed = {}
<1> DEFINE order == Ordered(Preference(w))
           First(S) == order[Min({i \in DOMAIN order : order[i] \in S})]
<1>1. OnceEach(order)
  BY OrderedOnceEach, PreferenceType
<1>2. ASSUME NEW S \in SUBSET Providers, S # {} PROVE First(S) \in S
  <2> DEFINE D == {i \in DOMAIN order : order[i] \in S}
  <2>1. D \subseteq Nat /\ D # {}
    BY <1>1, <1>2, LenProperties DEF OnceEach
  <2>2. Min(D) \in D
    BY <2>1, LeastPlace
  <2>3. QED
    BY <2>2
<1>3. ClassifyOpen(w) =
        CASE w.bound # {} -> [tier |-> "bound", provider |-> First(w.bound)]
          [] w.bound = {} /\ w.keyed # {} -> [tier |-> "key", provider |-> First(w.keyed)]
          [] OTHER -> [tier |-> "search", provider |-> None]
  BY DEF ClassifyOpen
<1>4. /\ w.bound # {} => First(w.bound) \in w.bound
      /\ w.keyed # {} => First(w.keyed) \in w.keyed
  BY <1>2 DEF WorldType
<1> HIDE DEF First
<1>5. QED
  BY <1>3, <1>4

-----------------------------------------------------------------------------
(***************************************************************************)
(* The inductive invariant of the session.  sh and tr stand for the show   *)
(* on the surface and the configured track, b and lu for the bindings and  *)
(* the last-used record, so that a lemma can speak of the state a handler  *)
(* is half way through.                                                    *)
(***************************************************************************)
WalkGood(walk) == walk \in WalkRecord /\ OnceEach(walk.order) /\ walk.next > 0

\* One session: a walk or a grid belongs to an opened show, a live session is on
\* the configured track, and what serves is what the grid came from.
GoodSession(ss, sh, tr) ==
    /\ ss \in Session
    /\ ss.id \in {None, sh}
    /\ ss.walk # None => WalkGood(ss.walk) /\ ss.id # None
    /\ ss.probing # None => ss.walk # None
    /\ ss.armed => ss.aim # None /\ ss.grid # None
    /\ ss.serving # None <=> ss.grid # None
    /\ ss.grid # None => /\ ss.grid.show = ss.id /\ ss.grid.provider = ss.serving
                         /\ ss.grid.track = ss.track
    /\ ss.grid # None \/ ss.loading => ss.id # None /\ ss.track = tr

\* The requests: at most one has the current token, the spinner turns for it, and
\* while a walk is on it is the walk's.
GoodRequests(ss, reqs, tr) ==
    /\ reqs \subseteq Request
    /\ ss.loading <=> \E r \in reqs : r.fresh
    /\ \A q, r \in reqs : q.fresh /\ r.fresh => q = r
    /\ \A r \in reqs : r.fresh =>
          /\ r.show = ss.id /\ r.track = tr
          /\ ss.walk # None => r.provider = ss.probing
          /\ r.kind = "search" => ss.walk # None
          /\ r.kind = "list" => r.id # None

StoreInv ==
    /\ known \subseteq Shows
    /\ binding \in [Shows -> [Providers -> Shows \cup {None}]]
    /\ absent \in [Shows -> SUBSET Providers]
    /\ cache \in [Shows -> [Providers -> [Tracks -> Listing \cup {None}]]]
    /\ \A s \in Shows, p \in Providers : binding[s][p] # None => s \in known
    /\ CacheHonest

\* With two panes a delete takes the session along, so that its grid keeps its
\* binding and the record of who serves it, and a fetch that is not to be bound
\* goes through a binding.
WideGrid(ss, b, lu) ==
    ss.grid # None =>
        /\ b[ss.id][ss.serving] # None
        /\ lu[ss.id] = IF ss.serving = WalkHead THEN None ELSE ss.serving

WideFetch(ss, reqs, b) ==
    \A r \in reqs : r.fresh /\ r.kind = "list" /\ ~ss.mint => b[r.show][r.provider] # None

SessionInv ==
    /\ StoreInv
    /\ lastUsed \in [Shows -> Providers \cup {None}]
    /\ track \in Tracks /\ shown \in Shows \cup {None} /\ said \subseteq Feedback
    /\ GoodSession(ses, shown, track)
    /\ GoodRequests(ses, inflight, track)
    /\ ~MaySpawnFail => WalkAnswered
    /\ ~Narrow => WideGrid(ses, binding, lastUsed) /\ WideFetch(ses, inflight, binding)

\* A handler on its way: the session it has built so far, the requests it leaves.
Midway(ss, reqs, sh, tr) ==
    /\ GoodSession(ss, sh, tr)
    /\ ss.id \in Shows /\ ss.track = tr /\ tr \in Tracks
    /\ reqs \subseteq Request /\ \A r \in reqs : ~r.fresh

-----------------------------------------------------------------------------
(***************************************************************************)
(* What completes a handler                                                *)
(***************************************************************************)

\* A bump leaves requests that nobody waits for.
LEMMA BumpStale ==
    ASSUME NEW reqs \in SUBSET Request
    PROVE  Bump(reqs) \subseteq Request /\ \A r \in Bump(reqs) : ~r.fresh
  BY DEF Bump, Request

\* A landing: a grid, no walk, no spinner, the record of who serves.
LEMMA LandGood ==
    ASSUME NEW ss, NEW reqs, NEW p \in Providers, NEW l \in Listing,
           Midway(ss, reqs, shown', track'),
           l.show = ss.id, l.provider = p, l.track = ss.track,
           lastUsed \in [Shows -> Providers \cup {None}],
           Land(ss, p, l, reqs)
    PROVE  /\ GoodSession(ses', shown', track') /\ GoodRequests(ses', inflight', track')
           /\ lastUsed' \in [Shows -> Providers \cup {None}]
           /\ ses'.walk = None /\ ses'.probing = None /\ ~ses'.loading /\ ses'.serving = p
           /\ ses'.id = ss.id /\ ses'.track = ss.track /\ ses'.armed = ss.armed
           /\ ss.id \in known' /\ binding'[ss.id][p] # None
                 => /\ WideGrid(ses', binding', lastUsed')
                    /\ WideFetch(ses', inflight', binding')
<1>1. /\ ses' = Landed(ss, p, l) /\ inflight' = reqs
      /\ ss \in Session /\ ss.id \in Shows /\ ss.id # None /\ ss.track = track'
      /\ p # None /\ l # None
  BY RegistryAssumption, ListingAssumption, ShowsAssumption DEF Land, Midway, GoodSession
<1>2. /\ ses' \in Session
      /\ ses'.walk = None /\ ses'.probing = None /\ ses'.loading = FALSE
      /\ ses'.serving = p /\ ses'.grid = l
      /\ ses'.id = ss.id /\ ses'.track = ss.track /\ ses'.armed = ss.armed
      /\ ses'.aim = IF ss.armed THEN ss.aim ELSE None
  BY <1>1 DEF Landed, Session
<1>3. GoodSession(ses', shown', track')
  BY <1>1, <1>2 DEF Midway, GoodSession
<1>4. GoodRequests(ses', inflight', track')
  BY <1>1, <1>2 DEF Midway, GoodRequests
<1>5. /\ lastUsed' \in [Shows -> Providers \cup {None}]
      /\ ss.id \in known' => lastUsed'[ss.id] = IF p = WalkHead THEN None ELSE p
  BY <1>1 DEF Land, RememberLanding
<1>6. ASSUME ss.id \in known', binding'[ss.id][p] # None
      PROVE  WideGrid(ses', binding', lastUsed') /\ WideFetch(ses', inflight', binding')
  BY <1>1, <1>2, <1>5, <1>6 DEF WideGrid, WideFetch, Midway
<1>7. QED
  BY <1>2, <1>3, <1>4, <1>5, <1>6

\* One request of reqs has the current token, and it is this one.
FreshOne(reqs, kind, s, p, id, tr) ==
    \E mine \in Request :
       /\ mine.kind = kind /\ mine.show = s /\ mine.provider = p /\ mine.id = id
       /\ mine.track = tr /\ mine.fresh
       /\ mine \in reqs /\ reqs \subseteq Request
       /\ \A r \in reqs : r.fresh => r = mine

\* A request joins stale ones as the only current one.
LEMMA PostedFresh ==
    ASSUME NEW reqs \in SUBSET Request, NEW s \in Shows, NEW p \in Providers,
           NEW id \in Shows \cup {None}, track' \in Tracks
    PROVE  /\ FreshOne(Posted("list", s, p, id, reqs), "list", s, p, id, track')
           /\ FreshOne(Posted("search", s, p, id, reqs), "search", s, p, id, track')
<1>1. ASSUME NEW kind \in {"list", "search"}
      PROVE  FreshOne(Posted(kind, s, p, id, reqs), kind, s, p, id, track')
  <2> DEFINE mine == [kind |-> kind, show |-> s, provider |-> p, id |-> id,
                      track |-> track', fresh |-> TRUE]
  <2>1. mine \in Request
    BY DEF Request
  <2>2. Bump(reqs) \subseteq Request /\ \A r \in Bump(reqs) : ~r.fresh
    BY BumpStale
  <2>3. Posted(kind, s, p, id, reqs) = Bump(reqs) \cup {mine}
    BY DEF Posted
  <2>4. /\ mine.fresh /\ mine.show = s /\ mine.track = track' /\ mine.provider = p
        /\ mine.kind = kind /\ mine.id = id
    OBVIOUS
  <2> HIDE DEF mine
  <2>5. QED
    BY <2>1, <2>2, <2>3, <2>4 DEF FreshOne
<1>2. QED
  BY <1>1

\* A fetch: a spinner for it, or none when the thread is refused.
LEMMA FetchGood ==
    ASSUME NEW ss, NEW reqs, NEW p \in Providers, NEW id \in Shows, NEW mint \in BOOLEAN,
           Midway(ss, reqs, shown', track'),
           ss.walk # None => p = ss.probing,
           lastUsed \in [Shows -> Providers \cup {None}],
           FireFetch(ss, p, id, mint, reqs)
    PROVE  /\ GoodSession(ses', shown', track') /\ GoodRequests(ses', inflight', track')
           /\ lastUsed' = lastUsed
           /\ ses'.walk = ss.walk /\ ses'.probing = ss.probing /\ ses'.mint = mint
           /\ ses'.id = ss.id /\ ses'.track = ss.track /\ ses'.armed = ss.armed
           /\ ~MaySpawnFail => ses'.loading
           /\ WideGrid(ss, binding', lastUsed) /\ (mint \/ binding'[ss.id][p] # None)
                 => /\ WideGrid(ses', binding', lastUsed')
                    /\ WideFetch(ses', inflight', binding')
<1>1. /\ ss \in Session /\ ss.id \in Shows /\ ss.id # None
      /\ ss.track = track' /\ track' \in Tracks
      /\ reqs \in SUBSET Request /\ id # None /\ lastUsed' = lastUsed
  BY ShowsAssumption DEF Midway, GoodSession, FireFetch
<1>2. CASE /\ ses' = [ss EXCEPT !.loading = TRUE, !.mint = mint]
           /\ inflight' = Posted("list", ss.id, p, id, reqs)
  <2>1. /\ ses' \in Session /\ ses'.loading = TRUE /\ ses'.mint = mint
        /\ ses'.id = ss.id /\ ses'.track = ss.track /\ ses'.armed = ss.armed
        /\ ses'.walk = ss.walk /\ ses'.probing = ss.probing /\ ses'.grid = ss.grid
        /\ ses'.serving = ss.serving /\ ses'.aim = ss.aim
    BY <1>1, <1>2 DEF Session
  <2>2. GoodSession(ses', shown', track')
    BY <1>1, <2>1 DEF Midway, GoodSession
  <2>3. /\ GoodRequests(ses', inflight', track')
        /\ \A r \in inflight' : r.fresh => r.show = ss.id /\ r.provider = p
    <3>1. ss.id \in Shows /\ id \in Shows \cup {None}
      BY <1>1
    <3>2. FreshOne(Posted("list", ss.id, p, id, reqs), "list", ss.id, p, id, track')
      BY <1>1, <3>1, PostedFresh
    <3>3. FreshOne(inflight', "list", ss.id, p, id, track')
      BY <1>2, <3>2
    <3>4. QED
      BY <1>1, <2>1, <3>3 DEF GoodRequests, FreshOne
  <2>4. WideGrid(ss, binding', lastUsed) => WideGrid(ses', binding', lastUsed')
    BY <1>1, <2>1 DEF WideGrid
  <2>5. mint \/ binding'[ss.id][p] # None => WideFetch(ses', inflight', binding')
    BY <2>1, <2>3 DEF WideFetch
  <2>6. QED
    BY <1>1, <2>1, <2>2, <2>3, <2>4, <2>5
<1>3. CASE /\ MaySpawnFail
           /\ ses' = [ss EXCEPT !.loading = FALSE, !.mint = mint]
           /\ inflight' = Bump(reqs)
  <2>1. /\ ses' \in Session /\ ses'.loading = FALSE /\ ses'.mint = mint
        /\ ses'.id = ss.id /\ ses'.track = ss.track /\ ses'.armed = ss.armed
        /\ ses'.walk = ss.walk /\ ses'.probing = ss.probing /\ ses'.grid = ss.grid
        /\ ses'.serving = ss.serving /\ ses'.aim = ss.aim
    BY <1>1, <1>3 DEF Session
  <2>2. GoodSession(ses', shown', track')
    BY <1>1, <2>1 DEF Midway, GoodSession
  <2>3. inflight' \subseteq Request /\ \A r \in inflight' : ~r.fresh
    BY <1>1, <1>3, BumpStale
  <2>4. GoodRequests(ses', inflight', track') /\ WideFetch(ses', inflight', binding')
    BY <2>1, <2>3 DEF GoodRequests, WideFetch
  <2>5. WideGrid(ss, binding', lastUsed) => WideGrid(ses', binding', lastUsed')
    BY <1>1, <2>1 DEF WideGrid
  <2>6. QED
    BY <1>1, <1>3, <2>1, <2>2, <2>4, <2>5
<1>4. QED
  BY <1>2, <1>3 DEF FireFetch

\* A hop is a provider the walk had still to ask, and once taken is behind it.
LEMMA HopAhead ==
    ASSUME NEW w, NEW walk, WalkGood(walk), NEW i \in Hops(w, walk)
    PROVE  /\ walk.order[i] \in Providers /\ walk.order[i] \in Ahead(walk)
           /\ WalkGood(Stepped(walk, i))
           /\ Ahead(Stepped(walk, i)) \subseteq Ahead(walk) \ {walk.order[i]}
<1>1. /\ walk.order \in Seq(Providers) /\ walk.next \in Nat /\ walk.next > 0
      /\ Len(walk.order) \in Nat /\ DOMAIN walk.order = 1 .. Len(walk.order)
      /\ \A j, k \in 1 .. Len(walk.order) : walk.order[j] = walk.order[k] => j = k
      /\ walk \in WalkRecord
  BY LenProperties DEF WalkGood, WalkRecord, OnceEach
<1>2. i \in walk.next .. Len(walk.order) /\ i \in 1 .. Len(walk.order) /\ i \in Nat
      /\ walk.order[i] \notin walk.tried
  BY <1>1 DEF Hops
<1>3. walk.order[i] \in Providers /\ walk.order[i] \in Ahead(walk)
  BY <1>1, <1>2, ElementOfSeq DEF Ahead
<1>4. /\ Stepped(walk, i) \in WalkRecord /\ Stepped(walk, i).order = walk.order
      /\ Stepped(walk, i).tried = walk.tried /\ Stepped(walk, i).next = i + 1
  BY <1>1, <1>2 DEF Stepped, WalkRecord
<1>5. WalkGood(Stepped(walk, i))
  BY <1>2, <1>4 DEF WalkGood
<1>6. ASSUME NEW p \in Ahead(Stepped(walk, i))
      PROVE  p \in Ahead(walk) /\ p # walk.order[i]
  <2>1. PICK j \in (i + 1) .. Len(walk.order) : p = walk.order[j] /\ p \notin walk.tried
    BY <1>4, <1>6 DEF Ahead
  <2>2. j \in walk.next .. Len(walk.order) /\ j \in 1 .. Len(walk.order) /\ j # i
    BY <1>1, <1>2, <2>1
  <2>3. QED
    BY <1>1, <1>2, <2>1, <2>2 DEF Ahead
<1>7. QED
  BY <1>3, <1>5, <1>6

\* How an advance may come out.
WalkLands(ss) ==
    ses'.walk = None /\ "DeadEnd" \notin said' /\ ses'.serving \in Ahead(ss.walk)

WalkAsks(ss) ==
    /\ ses'.walk # None /\ "DeadEnd" \notin said'
    /\ ses'.probing \in Ahead(ss.walk)
    /\ Ahead(ses'.walk) \subseteq Ahead(ss.walk) \ {ses'.probing}

WalkDies(ss) ==
    /\ ses'.walk = None /\ "DeadEnd" \in said'
    /\ ~MaySpawnFail => Hops(World(ss.id), ss.walk) = {}

LEMMA AdvanceGood ==
    ASSUME NEW ss, NEW reqs, NEW announce, NEW fb \in SUBSET Feedback, "DeadEnd" \notin fb,
           Midway(ss, reqs, shown', track'), ss.walk # None,
           StoreInv', lastUsed \in [Shows -> Providers \cup {None}],
           Advance(ss, reqs, announce, fb)
    PROVE  /\ GoodSession(ses', shown', track') /\ GoodRequests(ses', inflight', track')
           /\ lastUsed' \in [Shows -> Providers \cup {None}] /\ said' \subseteq Feedback
           /\ ses'.id = ss.id /\ ses'.track = ss.track /\ ses'.armed = ss.armed
           /\ ses'.loading <=> ses'.walk # None
           /\ WalkLands(ss) \/ WalkAsks(ss) \/ WalkDies(ss)
           /\ WideGrid(ss, binding', lastUsed)
                 => /\ WideGrid(ses', binding', lastUsed')
                    /\ WideFetch(ses', inflight', binding')
<1> DEFINE w == World(ss.id)
           hops == Hops(w, ss.walk)
           At(i) == ss.walk.order[i]
           Painted(i) == At(i) \in w.bound /\ Cached(ss.id, At(i)) # None
           Refused(i) == {j \in hops : j < i}
           Reached(i) == \A j \in Refused(i) : MaySpawnFail /\ ~Painted(j)
           Minting(i) == At(i) \notin w.bound /\ At(i) \in w.keyed
           MintLeft(i) == IF Refused(i) = {} THEN ss.mint ELSE Minting(Max(Refused(i)))
           On(i) == [ss EXCEPT !.walk = Stepped(@, i), !.probing = At(i)]
           words == fb \cup (IF announce /\ ss.walk.origin = "auto" /\ hops # {}
                             THEN {"Hop"} ELSE {})
           wide == WideGrid(ss, binding', lastUsed)
           Wide == WideGrid(ses', binding', lastUsed') /\ WideFetch(ses', inflight', binding')
<1>1. /\ ss \in Session /\ ss.id \in Shows /\ ss.id # None /\ ss.track = track'
      /\ track' \in Tracks /\ reqs \in SUBSET Request /\ WalkGood(ss.walk) /\ ss.mint \in BOOLEAN
      /\ ss.walk # None
  BY ShowsAssumption DEF Midway, GoodSession, Session
<1>2. /\ binding' \in [Shows -> [Providers -> Shows \cup {None}]]
      /\ cache' \in [Shows -> [Providers -> [Tracks -> Listing \cup {None}]]]
      /\ \A p \in Providers : Cached(ss.id, p) # None =>
            /\ Cached(ss.id, p) \in Listing /\ Cached(ss.id, p).show = ss.id
            /\ Cached(ss.id, p).provider = p /\ Cached(ss.id, p).track = ss.track
      /\ \A p \in Providers : binding'[ss.id][p] # None => ss.id \in known'
  BY <1>1 DEF StoreInv, CacheHonest, Cached
<1>3. \A p \in w.bound : binding'[ss.id][p] # None
  BY DEF World
<1>4. words \in SUBSET Feedback /\ "DeadEnd" \notin words
  BY DEF Feedback
<1>5. \A i : MintLeft(i) \in BOOLEAN /\ Minting(i) \in BOOLEAN
  BY <1>1
<1>6. ASSUME NEW i \in hops
      PROVE  /\ At(i) \in Providers /\ At(i) # None /\ At(i) \in Ahead(ss.walk)
             /\ WalkGood(Stepped(ss.walk, i)) /\ Stepped(ss.walk, i) # None
             /\ Ahead(Stepped(ss.walk, i)) \subseteq Ahead(ss.walk) \ {At(i)}
  BY <1>1, HopAhead, RegistryAssumption, WalkAssumption DEF WalkGood
<1> HIDE DEF w, hops
<1> DEFINE Hopped(mid, i, m) ==
        /\ Midway(mid, reqs, shown', track') /\ mid.walk = Stepped(ss.walk, i)
        /\ mid.probing = At(i) /\ mid.mint = m /\ mid.id = ss.id
        /\ mid.track = ss.track /\ mid.armed = ss.armed /\ mid.grid = ss.grid
        /\ mid.serving = ss.serving /\ mid.aim = ss.aim
<1>7. ASSUME NEW i \in hops, NEW m \in BOOLEAN
      PROVE  Hopped([On(i) EXCEPT !.mint = m], i, m)
  <2> DEFINE mid == [On(i) EXCEPT !.mint = m]
  <2>1. /\ mid.walk = Stepped(ss.walk, i) /\ mid.probing = At(i) /\ mid.mint = m
        /\ mid.id = ss.id /\ mid.track = ss.track /\ mid.armed = ss.armed
        /\ mid.grid = ss.grid /\ mid.serving = ss.serving /\ mid.aim = ss.aim
        /\ mid.loading = ss.loading
    BY <1>1 DEF Session
  <2>2. mid \in Session
    BY <1>1, <1>6 DEF Session, WalkGood
  <2> HIDE DEF mid
  <2>3. Midway(mid, reqs, shown', track')
    BY <1>1, <1>6, <2>1, <2>2 DEF Midway, GoodSession
  <2>4. QED
    BY <2>1, <2>3 DEF mid
<1> DEFINE Goal ==
        /\ GoodSession(ses', shown', track') /\ GoodRequests(ses', inflight', track')
        /\ lastUsed' \in [Shows -> Providers \cup {None}] /\ said' \subseteq Feedback
        /\ ses'.id = ss.id /\ ses'.track = ss.track /\ ses'.armed = ss.armed
        /\ ses'.loading <=> ses'.walk # None
        /\ WalkLands(ss) \/ WalkAsks(ss) \/ WalkDies(ss)
        /\ wide => Wide
<1>8. ASSUME NEW i \in hops, Painted(i),
             Land([On(i) EXCEPT !.mint = MintLeft(i)], At(i), Cached(ss.id, At(i)), reqs),
             said' = words
      PROVE  Goal
  <2>0. PICK m \in BOOLEAN : m = MintLeft(i)
    BY <1>5
  <2> DEFINE mid == [On(i) EXCEPT !.mint = m]
             l == Cached(ss.id, At(i))
  <2> HIDE DEF MintLeft
  <2>1. /\ Midway(mid, reqs, shown', track') /\ mid.id = ss.id /\ mid.track = ss.track
        /\ mid.armed = ss.armed
    BY <1>7
  <2>2. /\ At(i) \in Providers /\ l \in Listing /\ l.show = mid.id /\ l.provider = At(i)
        /\ l.track = mid.track
    BY <1>2, <1>6, <1>8, <2>1
  <2>3. Land(mid, At(i), l, reqs)
    BY <1>8, <2>0
  <2> HIDE DEF mid, l
  <2>4. /\ GoodSession(ses', shown', track') /\ GoodRequests(ses', inflight', track')
        /\ lastUsed' \in [Shows -> Providers \cup {None}]
        /\ ses'.walk = None /\ ~ses'.loading /\ ses'.serving = At(i)
        /\ ses'.id = mid.id /\ ses'.track = mid.track /\ ses'.armed = mid.armed
        /\ mid.id \in known' /\ binding'[mid.id][At(i)] # None => Wide
    <3>1. lastUsed \in [Shows -> Providers \cup {None}]
      OBVIOUS
    <3>2. QED
      BY ONLY <2>1, <2>2, <2>3, <3>1, LandGood
  <2>5. mid.id \in known' /\ binding'[mid.id][At(i)] # None
    BY <1>2, <1>3, <1>6, <1>8, <2>1
  <2>6. WalkLands(ss)
    BY <1>4, <1>6, <1>8, <2>4 DEF WalkLands
  <2>7. QED
    BY <1>4, <1>8, <2>1, <2>4, <2>5, <2>6
<1>9. ASSUME NEW i \in hops, ~Painted(i),
             ses' = [On(i) EXCEPT !.loading = TRUE, !.mint = Minting(i)],
             inflight' =
                 CASE At(i) \in w.bound -> Posted("list", ss.id, At(i), binding'[ss.id][At(i)], reqs)
                   [] Minting(i)        -> Posted("list", ss.id, At(i), ss.id, reqs)
                   [] OTHER             -> Posted("search", ss.id, At(i), None, reqs),
             UNCHANGED lastUsed, said' = words
      PROVE  Goal
  <2>0. PICK m \in BOOLEAN : m = Minting(i)
    BY <1>5
  <2> DEFINE mid == [On(i) EXCEPT !.mint = m]
  <2>1. /\ Midway(mid, reqs, shown', track') /\ mid.walk = Stepped(ss.walk, i)
        /\ mid.probing = At(i) /\ mid.mint = m /\ mid.id = ss.id
        /\ mid.track = ss.track /\ mid.armed = ss.armed /\ mid.grid = ss.grid
        /\ mid.serving = ss.serving /\ mid.aim = ss.aim
    <3>1. Hopped(mid, i, m)
      <4> HIDE DEF Hopped, On
      <4> QED
        BY <1>7
    <3>2. QED
      BY <3>1
  <2>2. mid \in Session
    BY <2>1 DEF Midway, GoodSession
  <2>3. ses' = [mid EXCEPT !.loading = TRUE]
    <3> HIDE DEF Minting
    <3> QED
      BY <1>1, <1>9, <2>0 DEF Session
  <2> HIDE DEF mid
  <2>4. /\ ses' \in Session /\ ses'.loading = TRUE
        /\ ses'.walk = Stepped(ss.walk, i) /\ ses'.probing = At(i) /\ ses'.mint = m
        /\ ses'.id = ss.id /\ ses'.track = ss.track /\ ses'.armed = ss.armed
        /\ ses'.grid = ss.grid /\ ses'.serving = ss.serving /\ ses'.aim = mid.aim
    BY <2>1, <2>2, <2>3 DEF Session
  <2>5. GoodSession(ses', shown', track')
    BY <1>1, <1>6, <2>1, <2>4 DEF Midway, GoodSession
  <2> DEFINE p == At(i)
  <2>6. p \in Providers /\ ss.id \in Shows \cup {None} /\ None \in Shows \cup {None}
    BY <1>1, <1>6
  <2>7. \/ FreshOne(inflight', "search", ss.id, p, None, track')
        \/ \E id \in Shows : /\ FreshOne(inflight', "list", ss.id, p, id, track')
                             /\ ~m => binding'[ss.id][p] # None
    <3>1. CASE p \in w.bound
      <4> DEFINE id == binding'[ss.id][p]
      <4>1. /\ inflight' = Posted("list", ss.id, p, id, reqs)
            /\ id \in Shows /\ id \in Shows \cup {None} /\ id # None
        BY <1>1, <1>2, <1>3, <1>6, <1>9, <3>1
      <4> HIDE DEF p, id
      <4>2. FreshOne(Posted("list", ss.id, p, id, reqs), "list", ss.id, p, id, track')
        BY <1>1, <2>6, <4>1, PostedFresh
      <4>3. QED
        BY <4>1, <4>2 DEF id
    <3>2. CASE p \notin w.bound /\ Minting(i)
      <4>1. inflight' = Posted("list", ss.id, p, ss.id, reqs)
        BY <1>9, <3>2
      <4> HIDE DEF p
      <4>2. FreshOne(Posted("list", ss.id, p, ss.id, reqs), "list", ss.id, p, ss.id, track')
        BY <1>1, <2>6, PostedFresh
      <4>3. QED
        BY <1>1, <2>0, <3>2, <4>1, <4>2
    <3>3. CASE p \notin w.bound /\ ~Minting(i)
      <4>1. inflight' = Posted("search", ss.id, p, None, reqs)
        BY <1>9, <3>3
      <4> HIDE DEF p
      <4>2. FreshOne(Posted("search", ss.id, p, None, reqs), "search", ss.id, p, None, track')
        BY <1>1, <2>6, PostedFresh
      <4>3. QED
        BY <4>1, <4>2
    <3>4. QED
      BY <3>1, <3>2, <3>3
  <2> HIDE DEF p
  <2> DEFINE OurOwn(mine) ==
           /\ mine.show = ss.id /\ mine.provider = p /\ mine.track = track' /\ mine.fresh
           /\ mine \in inflight' /\ inflight' \subseteq Request
           /\ \A r \in inflight' : r.fresh => r = mine
           /\ \/ mine.kind = "search"
              \/ mine.kind = "list" /\ mine.id # None /\ (~m => binding'[ss.id][p] # None)
  <2>8. PICK mine \in Request : OurOwn(mine)
    <3>1. CASE FreshOne(inflight', "search", ss.id, p, None, track')
      BY ONLY <3>1 DEF FreshOne
    <3>2. ASSUME NEW id \in Shows, FreshOne(inflight', "list", ss.id, p, id, track'),
                 ~m => binding'[ss.id][p] # None
          PROVE  \E mine \in Request : OurOwn(mine)
      <4>1. id # None
        BY ShowsAssumption
      <4>2. QED
        BY ONLY <3>2, <4>1 DEF FreshOne
    <3> HIDE DEF OurOwn
    <3>3. QED
      BY <2>7, <3>1, <3>2
  <2>9. ses'.walk # None /\ WalkAsks(ss)
    BY <1>4, <1>6, <1>9, <2>4 DEF WalkAsks
  <2>10. GoodRequests(ses', inflight', track') /\ WideFetch(ses', inflight', binding')
    <3>1. ses'.probing = p /\ ses'.id = ss.id /\ ses'.loading = TRUE /\ ses'.mint = m
      BY <2>0, <2>4 DEF p
    <3>2. GoodRequests(ses', inflight', track')
      BY <2>8, <2>9, <3>1 DEF GoodRequests
    <3>3. WideFetch(ses', inflight', binding')
      BY <2>8, <3>1 DEF WideFetch
    <3>4. QED
      BY <3>2, <3>3
  <2>11. wide => WideGrid(ses', binding', lastUsed')
    BY <1>9, <2>4 DEF WideGrid
  <2>12. QED
    BY <1>4, <1>9, <2>4, <2>5, <2>9, <2>10, <2>11
<1>10. ASSUME Reached(Len(ss.walk.order) + 1),
              ses' = [ss EXCEPT !.walk = None, !.probing = None, !.loading = FALSE,
                                !.noSource = @ \/ ss.grid = None,
                                !.mint = MintLeft(Len(ss.walk.order) + 1)],
              inflight' = reqs, UNCHANGED lastUsed, said' = words \cup {"DeadEnd"}
       PROVE  Goal
  <2>0. PICK m \in BOOLEAN, none \in BOOLEAN :
           m = MintLeft(Len(ss.walk.order) + 1) /\ none = (ss.noSource \/ ss.grid = None)
    BY <1>5
  <2> HIDE DEF MintLeft
  <2>1. /\ ses' \in Session /\ ses'.loading = FALSE /\ ses'.walk = None /\ ses'.probing = None
        /\ ses'.id = ss.id /\ ses'.track = ss.track /\ ses'.armed = ss.armed
        /\ ses'.grid = ss.grid /\ ses'.serving = ss.serving /\ ses'.aim = ss.aim
    <3>1. ses' = [ss EXCEPT !.walk = None, !.probing = None, !.loading = FALSE,
                            !.noSource = none, !.mint = m]
      BY <1>10, <2>0
    <3>2. QED
      BY <1>1, <3>1 DEF Session
  <2>2. GoodSession(ses', shown', track')
    BY <1>1, <2>1 DEF Midway, GoodSession
  <2>3. GoodRequests(ses', inflight', track') /\ WideFetch(ses', inflight', binding')
    BY <1>10, <2>1 DEF Midway, GoodRequests, WideFetch
  <2>4. wide => WideGrid(ses', binding', lastUsed')
    BY <1>10, <2>1 DEF WideGrid
  <2>5. said' \subseteq Feedback /\ "DeadEnd" \in said'
    BY <1>4, <1>10 DEF Feedback
  <2>6. ASSUME ~MaySpawnFail PROVE hops = {}
    <3>1. Refused(Len(ss.walk.order) + 1) = {}
      BY <1>10, <2>6
    <3>2. \A i \in hops : i < Len(ss.walk.order) + 1
      BY <1>1, LenProperties DEF hops, Hops, WalkGood, OnceEach, WalkRecord
    <3>3. QED
      BY <3>1, <3>2
  <2>7. WalkDies(ss)
    BY <2>1, <2>5, <2>6 DEF WalkDies, hops, w
  <2>8. QED
    BY <1>10, <2>1, <2>2, <2>3, <2>4, <2>5, <2>7
<1>11. QED
  BY <1>8, <1>9, <1>10 DEF Advance, w, hops

\* What a walk has still to ask are providers, and a walk with no hop left has no
\* binding among them.
LEMMA AheadType ==
    ASSUME NEW walk, WalkGood(walk)
    PROVE  /\ Ahead(walk) \subseteq Providers
           /\ \A w : Hops(w, walk) = {} => \A p \in Ahead(walk) : p \notin w.bound
<1>1. /\ walk.order \in Seq(Providers) /\ walk.next \in Nat /\ walk.next > 0
      /\ Len(walk.order) \in Nat
  BY LenProperties DEF WalkGood, WalkRecord, OnceEach
<1>2. ASSUME NEW p \in Ahead(walk)
      PROVE  p \in Providers /\ \A w : Hops(w, walk) = {} => p \notin w.bound
  <2>1. PICK i \in walk.next .. Len(walk.order) : p = walk.order[i] /\ p \notin walk.tried
    BY <1>2 DEF Ahead
  <2>2. i \in 1 .. Len(walk.order)
    BY <1>1
  <2>3. p \in Providers
    BY <1>1, <2>1, <2>2, ElementOfSeq
  <2>4. ASSUME NEW w, p \in w.bound PROVE i \in Hops(w, walk)
    BY <2>1, <2>4 DEF Hops
  <2>5. QED
    BY <2>3, <2>4
<1>3. QED
  BY <1>2

LEMMA AutoGood ==
    ASSUME NEW w, WorldType(w), NEW tried \in SUBSET Providers
    PROVE  WalkGood(AutoWalk(w, tried)) /\ AutoWalk(w, tried) # None
<1>1. OnceEach(Ordered(Preference(w)))
  BY OrderedOnceEach, PreferenceType
<1>2. AutoWalk(w, tried) \in WalkRecord
  BY <1>1 DEF AutoWalk, WalkRecord, OnceEach
<1>3. QED
  BY <1>1, <1>2, WalkAssumption DEF WalkGood, AutoWalk

\* A manual walk always has its first hop.
LEMMA ManualGood ==
    ASSUME NEW p \in Providers
    PROVE  /\ WalkGood(ManualWalk(p)) /\ ManualWalk(p) # None
           /\ \A w : Hops(w, ManualWalk(p)) # {}
<1> DEFINE walk == ManualWalk(p)
<1>1. OnceEach(walk.order) /\ Len(walk.order) \in Nat \ {0}
  BY ManualOnceEach, RegistryFacts
<1>2. walk.origin = "manual" /\ walk.tried = {} /\ walk.next = 1
  BY DEF ManualWalk
<1>3. walk \in WalkRecord
  <2>1. walk.order \in Seq(Providers)
    BY <1>1 DEF OnceEach
  <2>2. QED
    BY <2>1 DEF ManualWalk, WalkRecord
<1> HIDE DEF walk
<1>4. \A w : 1 \in Hops(w, walk)
  BY <1>1, <1>2 DEF Hops
<1>5. QED
  BY <1>1, <1>2, <1>3, <1>4, WalkAssumption DEF WalkGood, walk

\* What the engine reads is well typed whatever the handler has written.
LEMMA WorldGood ==
    ASSUME NEW s \in Shows, StoreInv', lastUsed \in [Shows -> Providers \cup {None}]
    PROVE  WorldType(World(s))
  BY KeyedAssumption DEF StoreInv, WorldType, World

\* What a cached listing can be.
LEMMA CachedGood ==
    ASSUME NEW s \in Shows, NEW p \in Providers, StoreInv', track' \in Tracks,
           Cached(s, p) # None
    PROVE  /\ Cached(s, p) \in Listing /\ Cached(s, p).show = s
           /\ Cached(s, p).provider = p /\ Cached(s, p).track = track'
  BY DEF StoreInv, CacheHonest, Cached

\* A walk on which its first provider is being asked.
Asking(ss) ==
    ss.walk # None => /\ ss.probing \in Providers
                      /\ Ahead(ss.walk) \subseteq Providers \ {ss.probing}

\* An open leaves a session for the shown show: a grid, a fetch or a walk.
LEMMA OpenGood ==
    ASSUME NEW s \in Shows, s = shown', track' \in Tracks, StoreInv',
           inflight \in SUBSET Request, lastUsed \in [Shows -> Providers \cup {None}],
           Open(s, inflight)
    PROVE  /\ GoodSession(ses', shown', track') /\ GoodRequests(ses', inflight', track')
           /\ lastUsed' \in [Shows -> Providers \cup {None}] /\ said' \subseteq Feedback
           /\ BindingsWin' /\ WalkAnswered' /\ Asking(ses')
           /\ ses'.id = s /\ ses'.track = track'
           /\ "DeadEnd" \in said' => \A p \in Providers : binding'[s][p] = None
           /\ WideGrid(ses', binding', lastUsed') /\ WideFetch(ses', inflight', binding')
<1> DEFINE ss == [NoSession EXCEPT !.id = s, !.track = track']
           verdict == ClassifyOpen(World(s))
           p == verdict.provider
           old == Bump(inflight)
           walking == [ss EXCEPT !.walk = AutoWalk(World(s), {})]
           Goal ==
               /\ GoodSession(ses', shown', track') /\ GoodRequests(ses', inflight', track')
               /\ lastUsed' \in [Shows -> Providers \cup {None}] /\ said' \subseteq Feedback
               /\ BindingsWin' /\ WalkAnswered' /\ Asking(ses')
               /\ ses'.id = s /\ ses'.track = track'
               /\ "DeadEnd" \in said' => \A q \in Providers : binding'[s][q] = None
               /\ WideGrid(ses', binding', lastUsed') /\ WideFetch(ses', inflight', binding')
<1>1. /\ World(s).bound = {q \in Providers : binding'[s][q] # None}
      /\ World(s).bound \subseteq Providers /\ World(s).keyed \subseteq Providers
      /\ WorldType(World(s))
  <2>1. WorldType(World(s))
    BY WorldGood
  <2>2. QED
    BY <2>1 DEF WorldType, World
<1>2. /\ ss \in Session /\ ss.id = s /\ ss.track = track' /\ ss.walk = None /\ ss.grid = None
      /\ ss.serving = None /\ ss.probing = None /\ ss.aim = None /\ ~ss.armed /\ ~ss.loading
      /\ s # None
  BY ShowsAssumption DEF NoSession, Session
<1>3. old \subseteq Request /\ \A r \in old : ~r.fresh
  BY BumpStale
<1> HIDE DEF ss, old
<1>4. Midway(ss, old, shown', track') /\ WideGrid(ss, binding', lastUsed)
  BY <1>2, <1>3 DEF Midway, GoodSession, WideGrid
<1>5. \/ verdict.tier = "bound" /\ p \in World(s).bound
      \/ verdict.tier = "key" /\ p \in World(s).keyed /\ World(s).bound = {}
      \/ verdict.tier = "search" /\ World(s).bound = {} /\ World(s).keyed = {}
  BY <1>1, VerdictType
<1> HIDE DEF verdict
<1>6. CASE verdict.tier = "bound"
  <2>1. p \in Providers /\ binding'[s][p] # None /\ p # None
    BY <1>1, <1>5, <1>6, RegistryAssumption
  <2>2. binding'[s][p] \in Shows /\ s \in known'
    BY <2>1 DEF StoreInv
  <2>3. CASE Cached(s, p) # None
    <3> DEFINE l == Cached(s, p)
    <3>1. Land(ss, p, l, old) /\ said' = {}
      BY <1>6, <2>3 DEF Open, ss, old, verdict
    <3>2. l \in Listing /\ l.show = ss.id /\ l.provider = p /\ l.track = ss.track
      BY <1>2, <2>1, <2>3, CachedGood
    <3> HIDE DEF l, p
    <3>3. /\ GoodSession(ses', shown', track') /\ GoodRequests(ses', inflight', track')
          /\ lastUsed' \in [Shows -> Providers \cup {None}]
          /\ ses'.walk = None /\ ~ses'.loading
          /\ ses'.id = ss.id /\ ses'.track = ss.track
          /\ ss.id \in known' /\ binding'[ss.id][p] # None
                 => /\ WideGrid(ses', binding', lastUsed')
                    /\ WideFetch(ses', inflight', binding')
      BY <1>4, <2>1, <3>1, <3>2, LandGood
    <3>4. BindingsWin' /\ WalkAnswered' /\ Asking(ses')
      BY <3>3 DEF BindingsWin, WalkAnswered, Asking
    <3>5. QED
      BY <1>2, <2>1, <2>2, <3>1, <3>3, <3>4
  <2>4. CASE Cached(s, p) = None
    <3>1. FireFetch(ss, p, binding'[s][p], FALSE, old) /\ said' = {}
      BY <1>6, <2>4 DEF Open, ss, old, verdict
    <3> HIDE DEF p
    <3>2. /\ GoodSession(ses', shown', track') /\ GoodRequests(ses', inflight', track')
          /\ lastUsed' = lastUsed
          /\ ses'.walk = ss.walk /\ ses'.mint = FALSE
          /\ ses'.id = ss.id /\ ses'.track = ss.track
          /\ WideGrid(ss, binding', lastUsed) /\ (FALSE \/ binding'[ss.id][p] # None)
                 => /\ WideGrid(ses', binding', lastUsed')
                    /\ WideFetch(ses', inflight', binding')
      BY <1>2, <1>4, <2>1, <2>2, <3>1, FetchGood
    <3>3. BindingsWin' /\ WalkAnswered' /\ Asking(ses')
      BY <1>2, <3>2 DEF BindingsWin, WalkAnswered, Asking
    <3>4. QED
      BY <1>2, <1>4, <2>1, <3>1, <3>2, <3>3
  <2>5. QED
    BY <2>3, <2>4
<1>7. CASE verdict.tier = "key"
  <2>1. p \in Providers /\ \A q \in Providers : binding'[s][q] = None
    BY <1>1, <1>5, <1>7
  <2>2. FireFetch(ss, p, s, TRUE, old) /\ said' = {}
    BY <1>7 DEF Open, ss, old, verdict
  <2> HIDE DEF p
  <2>3. /\ GoodSession(ses', shown', track') /\ GoodRequests(ses', inflight', track')
        /\ lastUsed' = lastUsed
        /\ ses'.walk = ss.walk /\ ses'.mint = TRUE
        /\ ses'.id = ss.id /\ ses'.track = ss.track
        /\ WideGrid(ss, binding', lastUsed) /\ (TRUE \/ binding'[ss.id][p] # None)
               => /\ WideGrid(ses', binding', lastUsed')
                  /\ WideFetch(ses', inflight', binding')
    BY <1>2, <1>4, <2>1, <2>2, FetchGood
  <2>4. BindingsWin' /\ WalkAnswered' /\ Asking(ses')
    BY <1>2, <2>1, <2>3 DEF BindingsWin, WalkAnswered, Asking
  <2>5. QED
    BY <1>2, <1>4, <2>1, <2>2, <2>3, <2>4
<1>8. CASE verdict.tier = "search"
  <2>1. \A q \in Providers : binding'[s][q] = None
    BY <1>1, <1>5, <1>8
  <2> DEFINE quiet == FALSE
             nothing == {}
  <2>2. Advance(walking, old, quiet, nothing)
    BY <1>8 DEF Open, ss, old, verdict
  <2>3. WalkGood(AutoWalk(World(s), {})) /\ AutoWalk(World(s), {}) # None
    BY <1>1, AutoGood
  <2>4. /\ walking \in Session /\ walking.id = s /\ walking.track = track'
        /\ walking.walk = AutoWalk(World(s), {}) /\ walking.grid = None
        /\ walking.serving = None /\ walking.probing = None /\ ~walking.armed
        /\ ~walking.loading
    BY <1>2, <2>3 DEF Session, WalkGood
  <2> HIDE DEF walking, quiet
  <2>5. Midway(walking, old, shown', track') /\ WideGrid(walking, binding', lastUsed)
    BY <1>2, <1>3, <2>3, <2>4 DEF Midway, GoodSession, WideGrid
  <2>6. /\ GoodSession(ses', shown', track') /\ GoodRequests(ses', inflight', track')
        /\ lastUsed' \in [Shows -> Providers \cup {None}] /\ said' \subseteq Feedback
        /\ ses'.id = walking.id /\ ses'.track = walking.track
        /\ ses'.loading <=> ses'.walk # None
        /\ WalkLands(walking) \/ WalkAsks(walking) \/ WalkDies(walking)
        /\ WideGrid(walking, binding', lastUsed)
             => WideGrid(ses', binding', lastUsed') /\ WideFetch(ses', inflight', binding')
    <3>1. nothing \in SUBSET Feedback /\ "DeadEnd" \notin nothing
      OBVIOUS
    <3> HIDE DEF nothing
    <3>2. QED
      BY <2>2, <2>3, <2>4, <2>5, <3>1, AdvanceGood
  <2>7. Ahead(walking.walk) \subseteq Providers
    BY <2>3, <2>4, AheadType
  <2>8. BindingsWin' /\ WalkAnswered' /\ Asking(ses')
    BY <2>6, <2>7 DEF BindingsWin, WalkAnswered, Asking, WalkLands, WalkAsks, WalkDies
  <2>9. QED
    BY <2>1, <2>4, <2>5, <2>6, <2>8
<1>9. QED
  BY <1>5, <1>6, <1>7, <1>8

-----------------------------------------------------------------------------
(***************************************************************************)
(* What one step does to the walk                                          *)
(***************************************************************************)

\* BindingsAsked of one step.
AskedFirst ==
    ses.walk # None /\ "DeadEnd" \in said' =>
        \A p \in Ahead(ses.walk) : binding'[ses.id][p] = None

\* KeepsPromise of one step.
Promised ==
    [Promise!PromiseNext]_<<ses.walk # None,
                            IF ses.walk = None THEN {} ELSE Ahead(ses.walk),
                            ses.probing>>

\* What a step of the session promises.  Only a probe beside the session may bind a
\* provider while an open fetches a fresh key, so BindingsWin is kept by the session's
\* own steps and is no part of its invariant.
Steps ==
    /\ BindingsWin => BindingsWin'
    /\ ~MaySpawnFail => WalkEndsAloud /\ AskedFirst /\ Promised

\* A step that leaves the walk alone.
LEMMA SameWalk ==
    ASSUME UNCHANGED ses, "DeadEnd" \notin said', BindingsWin => BindingsWin'
    PROVE  Steps
  BY DEF Steps, WalkEndsAloud, AskedFirst, Promised

\* A walk begins, is at its next hop or is over.
LEMMA PromiseKept ==
    ASSUME \/ ses'.walk = None /\ ses'.probing = None
           \/ ses'.walk # None /\ Asking(ses') /\ ses.walk = None
           \/ /\ ses'.walk # None /\ Asking(ses')
              /\ <<ses'.id, ses'.track, ses'.armed>> # <<ses.id, ses.track, ses.armed>>
           \/ /\ ses'.walk # None /\ ses.walk # None /\ ses'.probing \in Ahead(ses.walk)
              /\ Ahead(ses'.walk) \subseteq Ahead(ses.walk) \ {ses'.probing}
    PROVE  Promised
<1>1. CASE ses'.walk = None /\ ses'.probing = None
  BY <1>1 DEF Promised, Promise!PromiseNext, Promise!Over
<1>2. CASE /\ ses'.walk # None /\ Asking(ses')
           /\ \/ ses.walk = None
              \/ <<ses'.id, ses'.track, ses'.armed>> # <<ses.id, ses.track, ses.armed>>
  <2>1. Promise!Ask(Providers)
    BY <1>2 DEF Promise!Ask, Asking
  <2>2. QED
    BY <1>2, <2>1 DEF Promised, Promise!PromiseNext, Promise!Begin
<1>3. CASE /\ ses'.walk # None /\ ses.walk # None /\ ses'.probing \in Ahead(ses.walk)
           /\ Ahead(ses'.walk) \subseteq Ahead(ses.walk) \ {ses'.probing}
  <2>1. Promise!Ask(IF ses.walk = None THEN {} ELSE Ahead(ses.walk))
    BY <1>3 DEF Promise!Ask
  <2>2. QED
    BY <1>3, <2>1 DEF Promised, Promise!PromiseNext, Promise!Hop
<1>4. QED
  BY <1>1, <1>2, <1>3

\* An advance of the walk there is, of a fresh one, or of a settled `v`'s.
LEMMA AdvanceStep ==
    ASSUME SessionInv, StoreInv', UNCHANGED <<binding, shown, track>>,
           NEW ss, NEW reqs, NEW announce, NEW fb \in SUBSET Feedback, "DeadEnd" \notin fb,
           Midway(ss, reqs, shown', track'), ss.walk # None,
           ss.id = ses.id, ss.track = ses.track, ss.grid = ses.grid, ss.serving = ses.serving,
           \/ ss.walk = ses.walk
           \/ ses.walk = None
           \/ ses.armed /\ ~ss.armed /\ \A w : Hops(w, ss.walk) # {},
           Advance(ss, reqs, announce, fb)
    PROVE  SessionInv' /\ Steps
<1>1. /\ lastUsed \in [Shows -> Providers \cup {None}] /\ track' \in Tracks
      /\ shown' \in Shows \cup {None}
      /\ ~Narrow => WideGrid(ses, binding, lastUsed)
      /\ ss.id \in Shows /\ WalkGood(ss.walk)
  BY DEF SessionInv, Midway, GoodSession
<1>2. /\ GoodSession(ses', shown', track') /\ GoodRequests(ses', inflight', track')
      /\ lastUsed' \in [Shows -> Providers \cup {None}] /\ said' \subseteq Feedback
      /\ ses'.id = ss.id /\ ses'.track = ss.track /\ ses'.armed = ss.armed
      /\ ses'.loading <=> ses'.walk # None
      /\ WalkLands(ss) \/ WalkAsks(ss) \/ WalkDies(ss)
      /\ WideGrid(ss, binding', lastUsed)
           => WideGrid(ses', binding', lastUsed') /\ WideFetch(ses', inflight', binding')
  BY <1>1, AdvanceGood
<1>3. BindingsWin' /\ WalkAnswered'
  BY <1>2 DEF BindingsWin, WalkAnswered
<1>4. ~Narrow => WideGrid(ses', binding', lastUsed') /\ WideFetch(ses', inflight', binding')
  <2>1. WideGrid(ses, binding, lastUsed) => WideGrid(ss, binding', lastUsed)
    BY DEF WideGrid
  <2>2. QED
    BY <1>1, <1>2, <2>1
<1>5. SessionInv'
  BY <1>1, <1>2, <1>3, <1>4 DEF SessionInv
<1>6. ASSUME ~MaySpawnFail PROVE WalkEndsAloud
  BY <1>2 DEF WalkEndsAloud, SilentEndAllowed, WalkLands, WalkAsks, WalkDies
<1>7. ASSUME ~MaySpawnFail, ses.walk # None, "DeadEnd" \in said', NEW p \in Ahead(ses.walk)
      PROVE  binding'[ses.id][p] = None
  <2>1. Hops(World(ss.id), ss.walk) = {} /\ ss.walk = ses.walk
    BY <1>2, <1>7 DEF WalkLands, WalkAsks, WalkDies
  <2>2. p \in Providers /\ p \notin World(ss.id).bound
    BY <1>1, <1>7, <2>1, AheadType
  <2>3. QED
    BY <2>2 DEF World
<1>8. Ahead(ss.walk) \subseteq Providers
  BY <1>1, AheadType
<1>9. Promised
  <2>1. CASE ses'.walk = None
    BY <1>2, <2>1, PromiseKept DEF GoodSession
  <2>2. CASE ses'.walk # None
    <3>1. WalkAsks(ss) /\ Asking(ses')
      BY <1>2, <1>8, <2>2 DEF WalkLands, WalkAsks, WalkDies, Asking
    <3>2. CASE ss.walk = ses.walk
      BY <2>2, <3>1, <3>2, PromiseKept DEF WalkAsks
    <3>3. CASE ses.walk = None
      BY <2>2, <3>1, <3>3, PromiseKept
    <3>4. CASE ses.armed /\ ~ss.armed
      BY <1>2, <2>2, <3>1, <3>4, PromiseKept
    <3>5. QED
      BY <3>2, <3>3, <3>4
  <2>3. QED
    BY <2>1, <2>2
<1>10. QED
  BY <1>3, <1>5, <1>6, <1>7, <1>9 DEF Steps, AskedFirst

-----------------------------------------------------------------------------
(***************************************************************************)
(* The answers                                                             *)
(***************************************************************************)

\* An accepted answer is the one the spinner turns for: the session is open on the
\* configured track and nothing else is waited for.
LEMMA AcceptedGood ==
    ASSUME SessionInv, NEW r \in inflight, Accepts(r)
    PROVE  /\ r.show \in Shows /\ r.provider \in Providers /\ r.show = ses.id /\ ses.id # None
           /\ r.track = track /\ ses.track = track /\ ses.loading
           /\ ses.walk # None => r.provider = ses.probing
           /\ r.kind = "search" => ses.walk # None
           /\ r.kind = "list" => r.id \in Shows
           /\ r.kind = "list" => ListingOf(r) \in Listing
           /\ r.kind = "list" /\ ~ses.mint /\ ~Narrow => binding[r.show][r.provider] # None
           /\ inflight \ {r} \subseteq Request /\ \A q \in inflight \ {r} : ~q.fresh
<1>1. /\ r \in Request /\ r.fresh /\ r.show = ses.id /\ inflight \subseteq Request
      /\ GoodSession(ses, shown, track) /\ GoodRequests(ses, inflight, track)
      /\ ~Narrow => WideFetch(ses, inflight, binding)
  BY DEF SessionInv, GoodRequests, Accepts
<1>2. /\ r.show \in Shows /\ r.provider \in Providers /\ r.track \in Tracks
      /\ r.id \in Shows \cup {None} /\ r.show # None
  BY <1>1, ShowsAssumption DEF Request
<1>3. /\ r.track = track /\ ses.loading
      /\ ses.walk # None => r.provider = ses.probing
      /\ r.kind = "search" => ses.walk # None
      /\ r.kind = "list" => r.id # None
      /\ \A q \in inflight \ {r} : ~q.fresh
  BY <1>1 DEF GoodRequests
<1>4. ses.track = track
  BY <1>1, <1>3 DEF GoodSession
<1>5. r.kind = "list" /\ ~ses.mint /\ ~Narrow => binding[r.show][r.provider] # None
  BY <1>1 DEF WideFetch
<1>6. r.kind = "list" => ListingOf(r) \in Listing
  BY <1>2, <1>3 DEF ListingOf, Listing
<1>7. QED
  BY <1>1, <1>2, <1>3, <1>4, <1>5, <1>6

\* bind_provider and set_episode_cache keep the store true.
LEMMA BindGood ==
    ASSUME StoreInv, NEW s \in Shows, NEW p \in Providers, NEW id \in Shows,
           Bind(s, p, id)
    PROVE  /\ binding' \in [Shows -> [Providers -> Shows \cup {None}]]
           /\ known' \subseteq Shows /\ absent' \in [Shows -> SUBSET Providers]
           /\ \A t \in Shows, q \in Providers : binding'[t][q] # None => t \in known'
           /\ binding'[s][p] # None
<1>1. /\ known \subseteq Shows /\ known' = known \cup {s}
      /\ binding \in [Shows -> [Providers -> Shows \cup {None}]]
      /\ absent \in [Shows -> SUBSET Providers] /\ absent' \in [Shows -> SUBSET Providers]
      /\ \A t \in Shows, q \in Providers : binding[t][q] # None => t \in known
  BY DEF StoreInv, Bind
<1>2. binding' = [t \in Shows |->
                     IF t = s THEN [binding[s] EXCEPT ![p] = id]
                     ELSE [binding[t] EXCEPT ![p] = IF @ = id THEN None ELSE @]]
  BY DEF Bind
<1>3. binding' \in [Shows -> [Providers -> Shows \cup {None}]]
  BY <1>1, <1>2
<1>4. \A t \in Shows, q \in Providers : binding'[t][q] # None => t = s \/ binding[t][q] # None
  BY <1>1, <1>2
<1>5. binding'[s][p] = id /\ id # None
  BY <1>1, <1>2, ShowsAssumption
<1>6. \A t \in Shows, q \in Providers : binding'[t][q] # None => t \in known'
  BY <1>1, <1>4
<1>7. QED
  BY <1>1, <1>3, <1>5, <1>6

LEMMA CacheGood ==
    ASSUME NEW l \in Listing, NEW s \in Shows, NEW p \in Providers, track' \in Tracks,
           l.show = s, l.provider = p, l.track = track',
           cache \in [Shows -> [Providers -> [Tracks -> Listing \cup {None}]]],
           CacheHonest, CacheListing(s, p, l)
    PROVE  /\ cache' \in [Shows -> [Providers -> [Tracks -> Listing \cup {None}]]]
           /\ CacheHonest'
<1>1. \A t \in Shows, q \in Providers, u \in Tracks :
         \/ cache'[t][q][u] = cache[t][q][u]
         \/ t = s /\ q = p /\ u = track' /\ cache'[t][q][u] = l
  <2>1. CASE cache' = cache
    BY <2>1
  <2>2. CASE cache' = [cache EXCEPT ![s][p][track'] = l]
    <3> SUFFICES ASSUME NEW t \in Shows, NEW q \in Providers, NEW u \in Tracks
                 PROVE  \/ cache'[t][q][u] = cache[t][q][u]
                        \/ t = s /\ q = p /\ u = track' /\ cache'[t][q][u] = l
      OBVIOUS
    <3>1. cache'[t] = IF t = s THEN [cache[s] EXCEPT ![p][track'] = l] ELSE cache[t]
      BY <2>2
    <3>2. cache[s] \in [Providers -> [Tracks -> Listing \cup {None}]]
      OBVIOUS
    <3>3. [cache[s] EXCEPT ![p][track'] = l][q] =
             IF q = p THEN [cache[s][p] EXCEPT ![track'] = l] ELSE cache[s][q]
      BY <3>2
    <3>4. cache[s][p] \in [Tracks -> Listing \cup {None}]
      OBVIOUS
    <3>5. [cache[s][p] EXCEPT ![track'] = l][u] = IF u = track' THEN l ELSE cache[s][p][u]
      BY <3>4
    <3>6. QED
      BY <3>1, <3>3, <3>5
  <2>3. QED
    BY <2>1, <2>2 DEF CacheListing
<1>2. cache' \in [Shows -> [Providers -> [Tracks -> Listing \cup {None}]]]
  BY DEF CacheListing
<1>3. CacheHonest'
  <2> SUFFICES ASSUME NEW t \in Shows, NEW q \in Providers, NEW u \in Tracks,
                      cache'[t][q][u] # None
               PROVE  /\ cache'[t][q][u].show = t /\ cache'[t][q][u].provider = q
                      /\ cache'[t][q][u].track = u
    BY DEF CacheHonest
  <2>1. QED
    BY <1>1 DEF CacheHonest
<1>4. QED
  BY <1>2, <1>3

\* on_done with episodes.
LEMMA EpisodesListedGood ==
    ASSUME SessionInv, NEW r \in inflight, EpisodesListed(r)
    PROVE  SessionInv' /\ Steps
<1> DEFINE l == ListingOf(r)
           ss == [ses EXCEPT !.mint = FALSE]
           reqs == inflight \ {r}
<1>1. /\ r.kind = "list" /\ Accepts(r) /\ track' = track /\ shown' = shown
      /\ CacheListing(r.show, r.provider, l) /\ Land(ss, r.provider, l, reqs)
      /\ said' = {}
  BY DEF EpisodesListed
<1>2. /\ r.show \in Shows /\ r.provider \in Providers /\ r.show = ses.id /\ ses.id # None
      /\ r.track = track /\ ses.track = track /\ ses.loading /\ r.id \in Shows /\ l \in Listing
      /\ ses.walk # None => r.provider = ses.probing
      /\ ~ses.mint /\ ~Narrow => binding[r.show][r.provider] # None
      /\ reqs \subseteq Request /\ \A q \in reqs : ~q.fresh
  BY <1>1, AcceptedGood
<1>3. l.show = r.show /\ l.provider = r.provider /\ l.track = r.track
  BY DEF ListingOf
<1>4. /\ StoreInv /\ track \in Tracks /\ shown \in Shows \cup {None}
      /\ lastUsed \in [Shows -> Providers \cup {None}]
      /\ GoodSession(ses, shown, track)
  BY DEF SessionInv
<1> HIDE DEF l
<1>5. /\ StoreInv'
      /\ ses.mint \/ binding[r.show][r.provider] # None => binding'[r.show][r.provider] # None
  <2>1. /\ cache' \in [Shows -> [Providers -> [Tracks -> Listing \cup {None}]]]
        /\ CacheHonest'
    BY <1>1, <1>2, <1>3, <1>4, CacheGood DEF StoreInv
  <2>2. CASE ses.mint
    <3>1. Bind(r.show, r.provider, r.id)
      BY <2>2 DEF EpisodesListed
    <3>2. /\ binding' \in [Shows -> [Providers -> Shows \cup {None}]]
          /\ known' \subseteq Shows /\ absent' \in [Shows -> SUBSET Providers]
          /\ \A s \in Shows, p \in Providers : binding'[s][p] # None => s \in known'
          /\ binding'[r.show][r.provider] # None
      BY <1>2, <1>4, <3>1, BindGood
    <3>3. QED
      BY <2>1, <3>2 DEF StoreInv
  <2>3. CASE ~ses.mint
    BY <1>4, <2>1, <2>3 DEF StoreInv, EpisodesListed
  <2>4. QED
    BY <2>2, <2>3
<1>6. /\ ss \in Session /\ ss.id = ses.id /\ ss.track = ses.track
      /\ Midway(ss, reqs, shown', track')
  <2>1. /\ ss \in Session /\ ss.id = ses.id /\ ss.track = ses.track /\ ss.walk = ses.walk
        /\ ss.probing = ses.probing /\ ss.armed = ses.armed /\ ss.aim = ses.aim
        /\ ss.grid = ses.grid /\ ss.serving = ses.serving /\ ss.loading = ses.loading
    BY <1>4 DEF GoodSession, Session
  <2> HIDE DEF ss
  <2>2. QED
    BY <1>1, <1>2, <1>4, <2>1 DEF Midway, GoodSession
<1> HIDE DEF ss, reqs
<1>7. /\ GoodSession(ses', shown', track') /\ GoodRequests(ses', inflight', track')
      /\ lastUsed' \in [Shows -> Providers \cup {None}]
      /\ ses'.walk = None /\ ses'.probing = None /\ ~ses'.loading /\ ses'.serving = r.provider
      /\ ss.id \in known' /\ binding'[ss.id][r.provider] # None
            => WideGrid(ses', binding', lastUsed') /\ WideFetch(ses', inflight', binding')
  BY <1>1, <1>2, <1>3, <1>4, <1>6, LandGood
<1>8. ~Narrow => WideGrid(ses', binding', lastUsed') /\ WideFetch(ses', inflight', binding')
  <2>1. ASSUME ~Narrow PROVE binding'[ses.id][r.provider] # None
    BY <1>2, <1>5, <2>1
  <2>2. binding'[ses.id][r.provider] # None => ses.id \in known'
    BY <1>2, <1>5 DEF StoreInv
  <2>3. QED
    BY <1>6, <1>7, <2>1, <2>2
<1>9. BindingsWin' /\ WalkAnswered'
  BY <1>7 DEF BindingsWin, WalkAnswered
<1>10. SessionInv'
  BY <1>1, <1>4, <1>5, <1>7, <1>8, <1>9 DEF SessionInv
<1>11. WalkEndsAloud
  BY <1>2, <1>7 DEF WalkEndsAloud
<1>12. Promised /\ AskedFirst
  BY <1>1, <1>7, PromiseKept DEF AskedFirst
<1>13. QED
  BY <1>9, <1>10, <1>11, <1>12 DEF Steps

\* A session that differs in its spinner and its mint flag at most.
SameButFlags(ss) ==
    /\ ss \in Session
    /\ ss.id = ses.id /\ ss.track = ses.track /\ ss.grid = ses.grid /\ ss.serving = ses.serving
    /\ ss.walk = ses.walk /\ ss.probing = ses.probing /\ ss.aim = ses.aim /\ ss.armed = ses.armed

LEMMA AnsweredMidway ==
    ASSUME SessionInv, NEW r \in inflight, Accepts(r), UNCHANGED <<shown, track>>,
           NEW ss, SameButFlags(ss)
    PROVE  Midway(ss, inflight \ {r}, shown', track')
<1>1. /\ GoodSession(ses, shown, track) /\ track \in Tracks
      /\ ses.id \in Shows /\ ses.id # None /\ ses.track = track
      /\ inflight \ {r} \subseteq Request /\ \A q \in inflight \ {r} : ~q.fresh
  BY AcceptedGood DEF SessionInv
<1>2. QED
  BY <1>1 DEF Midway, GoodSession, SameButFlags

\* fail_over and play_fail_over: a fresh walk past what has failed, or the live one's
\* next hop.
LEMMA FailOverGood ==
    ASSUME SessionInv, StoreInv', UNCHANGED <<binding, shown, track>>,
           NEW ss, SameButFlags(ss), NEW reqs, Midway(ss, reqs, shown', track'),
           NEW p \in Providers, NEW fb \in SUBSET Feedback, "DeadEnd" \notin fb,
           FailOver(ss, p, reqs, fb)
    PROVE  SessionInv' /\ Steps
<1> DEFINE auto == AutoWalk(World(ss.id), {p})
           mid == IF ss.walk = None THEN [ss EXCEPT !.walk = auto] ELSE ss
           yes == TRUE
<1>1. ss \in Session /\ ss.id \in Shows /\ ss.id # None
  BY ShowsAssumption DEF Midway, SameButFlags
<1>2. WalkGood(auto) /\ auto # None
  BY <1>1, WorldGood, AutoGood DEF SessionInv
<1>3. Advance(mid, reqs, yes, fb)
  BY DEF FailOver
<1> HIDE DEF yes, auto
<1>4. /\ mid \in Session /\ mid.walk # None /\ mid.id = ss.id /\ mid.track = ss.track
      /\ mid.grid = ss.grid /\ mid.serving = ss.serving /\ mid.probing = ss.probing
      /\ mid.aim = ss.aim /\ mid.armed = ss.armed /\ mid.loading = ss.loading
      /\ mid.walk = ss.walk \/ (ss.walk = None /\ mid.walk = auto)
  <2>1. CASE ss.walk = None
    BY <1>1, <1>2, <2>1 DEF Session, WalkGood
  <2>2. CASE ss.walk # None
    BY <1>1, <2>2
  <2>3. QED
    BY <2>1, <2>2
<1> HIDE DEF mid
<1>5. Midway(mid, reqs, shown', track')
  BY <1>1, <1>2, <1>4 DEF Midway, GoodSession
<1>6. mid.walk = ses.walk \/ ses.walk = None
  BY <1>4 DEF SameButFlags
<1>7. mid.id = ses.id /\ mid.track = ses.track /\ mid.grid = ses.grid /\ mid.serving = ses.serving
  BY <1>4 DEF SameButFlags
<1>8. QED
  BY <1>3, <1>4, <1>5, <1>6, <1>7, AdvanceStep

\* on_done with no episodes.
LEMMA EpisodesEmptyGood ==
    ASSUME SessionInv, NEW r \in inflight, EpisodesEmpty(r)
    PROVE  SessionInv' /\ Steps
<1> DEFINE ss == [ses EXCEPT !.loading = FALSE, !.mint = FALSE]
           none == {}
<1>1. /\ r.kind = "list" /\ Accepts(r) /\ UNCHANGED <<binding, shown, track>>
      /\ FailOver(ss, r.provider, inflight \ {r}, none)
      /\ UNCHANGED cache /\ MarkAbsent(r.show, r.provider)
  BY DEF EpisodesEmpty, MarkAbsent
<1>2. r.provider \in Providers /\ r.show \in Shows
  BY <1>1, AcceptedGood
<1>3. StoreInv'
  BY <1>1, <1>2 DEF SessionInv, StoreInv, MarkAbsent, CacheHonest
<1>4. SameButFlags(ss)
  BY DEF SameButFlags, SessionInv, GoodSession, Session
<1>5. none \in SUBSET Feedback /\ "DeadEnd" \notin none
  OBVIOUS
<1> HIDE DEF ss, none
<1>6. Midway(ss, inflight \ {r}, shown', track')
  BY <1>1, <1>4, AnsweredMidway
<1>7. QED
  BY <1>1, <1>2, <1>3, <1>4, <1>5, <1>6, FailOverGood

\* on_error.
LEMMA EpisodesFailGood ==
    ASSUME SessionInv, NEW r \in inflight, EpisodesFail(r)
    PROVE  SessionInv' /\ Steps
<1> DEFINE ss == [ses EXCEPT !.loading = FALSE]
           words == {"Fail"}
<1>1. /\ r.kind = "list" /\ Accepts(r) /\ UNCHANGED <<binding, shown, track>>
      /\ FailOver(ss, r.provider, inflight \ {r}, words)
      /\ UNCHANGED <<known, absent, cache>>
  BY DEF EpisodesFail
<1>2. r.provider \in Providers
  BY <1>1, AcceptedGood
<1>3. StoreInv'
  BY <1>1 DEF SessionInv, StoreInv, CacheHonest
<1>4. SameButFlags(ss)
  BY DEF SameButFlags, SessionInv, GoodSession, Session
<1>5. words \in SUBSET Feedback /\ "DeadEnd" \notin words
  BY DEF Feedback
<1> HIDE DEF ss, words
<1>6. Midway(ss, inflight \ {r}, shown', track')
  BY <1>1, <1>4, AnsweredMidway
<1>7. QED
  BY <1>1, <1>2, <1>3, <1>4, <1>5, <1>6, FailOverGood

\* on_search_done without a match, on_search_error.
LEMMA SearchMissGood ==
    ASSUME SessionInv, NEW r \in inflight, NEW fb \in {{}, {"Fail"}}, SearchMiss(r, fb)
    PROVE  SessionInv' /\ Steps
<1> DEFINE ss == [ses EXCEPT !.loading = FALSE]
           yes == TRUE
<1>1. /\ r.kind = "search" /\ Accepts(r) /\ UNCHANGED <<binding, shown, track>>
      /\ Advance(ss, inflight \ {r}, yes, fb)
      /\ UNCHANGED <<known, absent, cache>>
  BY DEF SearchMiss
<1>2. ses.walk # None
  BY <1>1, AcceptedGood
<1>3. StoreInv'
  BY <1>1 DEF SessionInv, StoreInv, CacheHonest
<1>4. SameButFlags(ss)
  BY DEF SameButFlags, SessionInv, GoodSession, Session
<1>5. fb \in SUBSET Feedback /\ "DeadEnd" \notin fb
  BY DEF Feedback
<1> HIDE DEF ss, yes
<1>6. Midway(ss, inflight \ {r}, shown', track')
  BY <1>1, <1>4, AnsweredMidway
<1>7. /\ ss.id = ses.id /\ ss.track = ses.track /\ ss.grid = ses.grid
      /\ ss.serving = ses.serving /\ ss.walk = ses.walk
  BY <1>4 DEF SameButFlags
<1>8. QED
  BY <1>1, <1>2, <1>3, <1>5, <1>6, <1>7, AdvanceStep

\* on_search_done with a match.
LEMMA SearchHitGood ==
    ASSUME SessionInv, NEW r \in inflight, NEW id \in Shows, SearchHit(r, id)
    PROVE  SessionInv' /\ Steps
<1> DEFINE ss == [ses EXCEPT !.loading = FALSE]
<1>1. /\ r.kind = "search" /\ Accepts(r) /\ UNCHANGED <<binding, shown, track>>
      /\ FireFetch(ss, r.provider, id, TRUE, inflight \ {r}) /\ said' = {}
      /\ UNCHANGED <<known, absent, cache>>
  BY DEF SearchHit
<1>2. ses.walk # None /\ r.provider \in Providers /\ r.provider = ses.probing
  BY <1>1, AcceptedGood
<1>3. StoreInv'
  BY <1>1 DEF SessionInv, StoreInv, CacheHonest
<1>4. SameButFlags(ss)
  BY DEF SameButFlags, SessionInv, GoodSession, Session
<1> HIDE DEF ss
<1>6. Midway(ss, inflight \ {r}, shown', track')
  BY <1>1, <1>4, AnsweredMidway
<1>7. /\ ss.id = ses.id /\ ss.track = ses.track /\ ss.grid = ses.grid /\ ss.armed = ses.armed
      /\ ss.serving = ses.serving /\ ss.walk = ses.walk /\ ss.probing = ses.probing
  BY <1>4 DEF SameButFlags
<1>8. lastUsed \in [Shows -> Providers \cup {None}] /\ (~Narrow => WideGrid(ss, binding', lastUsed))
  BY <1>1, <1>7 DEF SessionInv, WideGrid
<1>9. /\ GoodSession(ses', shown', track') /\ GoodRequests(ses', inflight', track')
      /\ lastUsed' = lastUsed
      /\ ses'.walk = ss.walk /\ ses'.probing = ss.probing
      /\ ses'.id = ss.id /\ ses'.track = ss.track /\ ses'.armed = ss.armed
      /\ ~MaySpawnFail => ses'.loading
      /\ WideGrid(ss, binding', lastUsed) /\ (TRUE \/ binding'[ss.id][r.provider] # None)
           => WideGrid(ses', binding', lastUsed') /\ WideFetch(ses', inflight', binding')
  BY <1>1, <1>2, <1>6, <1>7, <1>8, FetchGood
<1>10. BindingsWin' /\ (~MaySpawnFail => WalkAnswered')
  BY <1>2, <1>7, <1>9 DEF BindingsWin, WalkAnswered
<1>11. SessionInv'
  BY <1>1, <1>3, <1>8, <1>9, <1>10 DEF SessionInv
<1>12. Steps
  BY <1>1, <1>2, <1>7, <1>9, <1>10 DEF Steps, WalkEndsAloud, AskedFirst, Promised
<1>13. QED
  BY <1>11, <1>12

\* An answer nobody waits for.
LEMMA AnswerDroppedGood ==
    ASSUME SessionInv, NEW r \in inflight, AnswerDropped(r)
    PROVE  SessionInv' /\ Steps
<1>1. /\ ~Accepts(r) /\ inflight' = inflight \ {r} /\ said' = {}
      /\ UNCHANGED <<storeVars, track, shown, ses>>
  BY DEF AnswerDropped
<1>2. GoodRequests(ses, inflight, track) /\ ~r.fresh
  BY <1>1 DEF SessionInv, GoodRequests, Accepts
<1>3. GoodRequests(ses', inflight', track')
  BY <1>1, <1>2 DEF GoodRequests
<1>4. StoreInv'
  BY <1>1 DEF SessionInv, StoreInv, CacheHonest, storeVars
<1>5. /\ ~Narrow => WideGrid(ses', binding', lastUsed') /\ WideFetch(ses', inflight', binding')
      /\ (BindingsWin => BindingsWin') /\ (~MaySpawnFail => WalkAnswered')
  BY <1>1 DEF SessionInv, WideGrid, WideFetch, BindingsWin, WalkAnswered, storeVars
<1>6. QED
  BY <1>1, <1>3, <1>4, <1>5, SameWalk DEF SessionInv, storeVars

LEMMA AnswerGood == ASSUME SessionInv, Answer PROVE SessionInv' /\ Steps
  BY EpisodesListedGood, EpisodesEmptyGood, EpisodesFailGood, SearchHitGood, SearchMissGood,
     AnswerDroppedGood DEF Answer

-----------------------------------------------------------------------------
(***************************************************************************)
(* The user, the play's hop and time                                       *)
(***************************************************************************)
LEMMA StoreKept == ASSUME StoreInv, UNCHANGED <<known, binding, absent, cache>> PROVE StoreInv'
  BY DEF StoreInv, CacheHonest

\* A step that leaves the session, its requests and what it reads alone.
LEMMA SessionKept ==
    ASSUME SessionInv, UNCHANGED <<storeVars, track, shown, ses, inflight>>,
           said' \subseteq Feedback, "DeadEnd" \notin said'
    PROVE  SessionInv' /\ Steps
<1>1. /\ ~Narrow => WideGrid(ses', binding', lastUsed') /\ WideFetch(ses', inflight', binding')
      /\ (BindingsWin => BindingsWin') /\ (~MaySpawnFail => WalkAnswered')
  BY DEF SessionInv, WideGrid, WideFetch, BindingsWin, WalkAnswered, storeVars
<1>2. StoreInv' /\ Steps
  BY <1>1, StoreKept, SameWalk DEF SessionInv, storeVars
<1>3. QED
  BY <1>1, <1>2 DEF SessionInv, storeVars

\* A surface without a session is good whatever is still under way.
LEMMA NoSessionGood ==
    ASSUME SessionInv, StoreInv', lastUsed' \in [Shows -> Providers \cup {None}],
           UNCHANGED track, shown' \in Shows \cup {None},
           ses' = NoSession, inflight' = Bump(inflight), said' = {}
    PROVE  SessionInv' /\ Steps
<1>1. /\ ses' \in Session /\ ses'.id = None /\ ses'.walk = None /\ ses'.grid = None
      /\ ses'.serving = None /\ ses'.probing = None /\ ses'.aim = None
      /\ ~ses'.armed /\ ~ses'.loading
  BY DEF NoSession, Session
<1>2. inflight' \subseteq Request /\ \A r \in inflight' : ~r.fresh
  BY BumpStale DEF SessionInv, GoodRequests
<1>3. GoodSession(ses', shown', track') /\ GoodRequests(ses', inflight', track')
  BY <1>1, <1>2 DEF GoodSession, GoodRequests
<1>4. /\ WideGrid(ses', binding', lastUsed') /\ WideFetch(ses', inflight', binding')
      /\ BindingsWin' /\ WalkAnswered'
  BY <1>1, <1>2 DEF WideGrid, WideFetch, BindingsWin, WalkAnswered
<1>5. SessionInv'
  BY <1>3, <1>4 DEF SessionInv
<1>6. WalkEndsAloud /\ AskedFirst
  BY <1>1 DEF WalkEndsAloud, AskedFirst, SilentEndAllowed, SessionInv, GoodSession
<1>7. QED
  BY <1>1, <1>4, <1>5, <1>6, PromiseKept DEF Steps

LEMMA ShowGood ==
    ASSUME SessionInv, NEW s \in Shows \cup {None}, Show(s)
    PROVE  SessionInv' /\ Steps
<1>1. /\ StoreInv' /\ lastUsed' \in [Shows -> Providers \cup {None}] /\ UNCHANGED track
      /\ shown' \in Shows \cup {None} /\ ses' = NoSession /\ inflight' = Bump(inflight)
      /\ said' = {}
  BY StoreKept DEF Show, SessionInv, storeVars
<1>2. QED
  BY <1>1, NoSessionGood

\* Detail entry.
LEMMA EngageGood ==
    ASSUME SessionInv, Engage
    PROVE  SessionInv' /\ Steps
<1>1. /\ shown' = shown /\ track' = track /\ track \in Tracks /\ shown \in Shows
      /\ UNCHANGED <<known, binding, absent, cache>> /\ Open(shown, inflight)
      /\ inflight \in SUBSET Request /\ lastUsed \in [Shows -> Providers \cup {None}]
      /\ GoodSession(ses, shown, track) /\ StoreInv
  BY DEF Engage, SessionInv, GoodRequests
<1>2. StoreInv'
  BY <1>1, StoreKept
<1>3. /\ GoodSession(ses', shown', track') /\ GoodRequests(ses', inflight', track')
      /\ lastUsed' \in [Shows -> Providers \cup {None}] /\ said' \subseteq Feedback
      /\ BindingsWin' /\ WalkAnswered' /\ Asking(ses')
      /\ WideGrid(ses', binding', lastUsed') /\ WideFetch(ses', inflight', binding')
  BY <1>1, <1>2, OpenGood
<1>4. SessionInv'
  BY <1>1, <1>2, <1>3 DEF SessionInv
<1>5. ASSUME ~MaySpawnFail PROVE ses.walk = None
  BY <1>1, <1>5 DEF SessionInv, WalkAnswered, GoodSession, Engage, HasAnswer
<1>6. ASSUME ses.walk = None PROVE WalkEndsAloud /\ AskedFirst /\ Promised
  <2>1. Promised
    BY <1>3, <1>6, PromiseKept DEF GoodSession
  <2>2. QED
    BY <1>6, <2>1 DEF WalkEndsAloud, AskedFirst
<1>7. QED
  BY <1>3, <1>4, <1>5, <1>6 DEF Steps

\* The track flips under an engaged session, or under none.
LEMMA ToggleTrackGood ==
    ASSUME SessionInv, ToggleTrack
    PROVE  SessionInv' /\ Steps
<1>1. /\ track' \in Tracks /\ track' # track /\ shown' = shown
      /\ UNCHANGED <<known, binding, absent, cache>>
      /\ shown \in Shows \cup {None} /\ inflight \in SUBSET Request
      /\ lastUsed \in [Shows -> Providers \cup {None}]
      /\ GoodSession(ses, shown, track) /\ GoodRequests(ses, inflight, track)
  BY DEF ToggleTrack, SessionInv, GoodRequests
<1>2. StoreInv'
  BY <1>1, StoreKept DEF SessionInv
<1>3. CASE shown # None /\ ses.id = shown /\ HasAnswer
  <2>1. Open(shown, inflight) /\ shown \in Shows
    BY <1>1, <1>3 DEF ToggleTrack
  <2>2. /\ GoodSession(ses', shown', track') /\ GoodRequests(ses', inflight', track')
        /\ lastUsed' \in [Shows -> Providers \cup {None}] /\ said' \subseteq Feedback
        /\ BindingsWin' /\ WalkAnswered' /\ Asking(ses')
        /\ ses'.id = shown /\ ses'.track = track'
        /\ "DeadEnd" \in said' => \A p \in Providers : binding'[shown][p] = None
        /\ WideGrid(ses', binding', lastUsed') /\ WideFetch(ses', inflight', binding')
    BY <1>1, <1>2, <2>1, OpenGood
  <2>3. SessionInv'
    BY <1>1, <1>2, <2>2 DEF SessionInv
  <2>4. ASSUME ~MaySpawnFail PROVE WalkEndsAloud /\ AskedFirst /\ Promised
    <3>1. ses.walk # None => ses.track # ses'.track /\ WalkGood(ses.walk)
      BY <1>1, <2>2, <2>4 DEF SessionInv, WalkAnswered, GoodSession
    <3>2. ses.walk # None => Ahead(ses.walk) \subseteq Providers
      BY <3>1, AheadType
    <3>3. WalkEndsAloud
      BY <3>1 DEF WalkEndsAloud, SilentEndAllowed
    <3>4. AskedFirst
      BY <1>3, <2>2, <3>2 DEF AskedFirst
    <3>5. Promised
      BY <2>2, <3>1, PromiseKept DEF GoodSession
    <3>6. QED
      BY <3>3, <3>4, <3>5
  <2>5. QED
    BY <2>2, <2>3, <2>4 DEF Steps
<1>4. CASE ~(shown # None /\ ses.id = shown /\ HasAnswer)
  <2>1. UNCHANGED <<lastUsed, ses, inflight>> /\ said' = {}
    BY <1>4 DEF ToggleTrack
  <2>2. ~ses.loading /\ ses.grid = None
    BY <1>1, <1>4 DEF GoodSession, HasAnswer
  <2>3. GoodSession(ses', shown', track') /\ GoodRequests(ses', inflight', track')
    BY <1>1, <2>1, <2>2 DEF GoodSession, GoodRequests
  <2>4. /\ ~Narrow => WideGrid(ses', binding', lastUsed') /\ WideFetch(ses', inflight', binding')
        /\ (BindingsWin => BindingsWin') /\ (~MaySpawnFail => WalkAnswered')
    BY <1>1, <2>1 DEF SessionInv, WideGrid, WideFetch, BindingsWin, WalkAnswered
  <2>5. QED
    BY <1>1, <1>2, <2>1, <2>3, <2>4, SameWalk DEF SessionInv
<1>5. QED
  BY <1>3, <1>4

\* `v`: only the aim and the settle window move.
LEMMA CycleProviderGood ==
    ASSUME SessionInv, CycleProvider
    PROVE  SessionInv' /\ Steps
<1>1. /\ UNCHANGED <<storeVars, track, shown, inflight>>
      /\ GoodSession(ses, shown, track) /\ GoodRequests(ses, inflight, track)
  BY DEF CycleProvider, SessionInv
<1>2. CASE ses.serving = None
  <2>1. UNCHANGED ses /\ said' \subseteq Feedback /\ "DeadEnd" \notin said'
    BY <1>2 DEF CycleProvider, Feedback
  <2>2. QED
    BY <1>1, <2>1, SessionKept
<1>3. CASE ses.serving # None
  <2> DEFINE next == After(IF ses.aim # None THEN ses.aim ELSE ses.serving)
  <2>1. ses' = [ses EXCEPT !.aim = next, !.armed = TRUE] /\ said' = {"Hop"}
    BY <1>3 DEF CycleProvider
  <2>2. next \in Providers /\ next # None
    BY <1>1, <1>3, AfterType, RegistryAssumption DEF GoodSession, Session
  <2> HIDE DEF next
  <2>3. /\ ses' \in Session /\ ses'.aim = next /\ ses'.armed /\ ses'.id = ses.id
        /\ ses'.track = ses.track /\ ses'.grid = ses.grid /\ ses'.serving = ses.serving
        /\ ses'.walk = ses.walk /\ ses'.probing = ses.probing /\ ses'.loading = ses.loading
        /\ ses'.mint = ses.mint
    BY <1>1, <2>1, <2>2 DEF GoodSession, Session
  <2>4. GoodSession(ses', shown', track') /\ GoodRequests(ses', inflight', track')
    BY <1>1, <1>3, <2>2, <2>3 DEF GoodSession, GoodRequests
  <2>5. /\ ~Narrow => WideGrid(ses', binding', lastUsed') /\ WideFetch(ses', inflight', binding')
        /\ (BindingsWin => BindingsWin') /\ (~MaySpawnFail => WalkAnswered')
    BY <1>1, <2>3 DEF SessionInv, WideGrid, WideFetch, BindingsWin, WalkAnswered, storeVars
  <2>6. SessionInv'
    BY <1>1, <2>1, <2>4, <2>5, StoreKept DEF SessionInv, storeVars, Feedback
  <2>7. Steps
    BY <2>1, <2>3, <2>5 DEF Steps, WalkEndsAloud, AskedFirst, Promised
  <2>8. QED
    BY <2>6, <2>7
<1>4. QED
  BY <1>2, <1>3

\* The settled `v`: what was under way is dropped, and the walk to the aim begins.
LEMMA SettleGood ==
    ASSUME SessionInv, Settle
    PROVE  SessionInv' /\ Steps
<1> DEFINE calm == DropStaleWalk([ses EXCEPT !.armed = FALSE])
           aimed == [calm EXCEPT !.walk = ManualWalk(ses.aim)]
           none == {}
           yes == TRUE
<1>1. /\ ses.armed /\ UNCHANGED <<known, binding, absent, cache, track, shown>>
      /\ GoodSession(ses, shown, track) /\ GoodRequests(ses, inflight, track)
      /\ ses.aim # None /\ ses.grid # None /\ ses.aim \in Providers
      /\ ses.id \in Shows /\ ses.id # None /\ ses.track = track /\ track \in Tracks
      /\ inflight \in SUBSET Request /\ ses \in Session
      /\ lastUsed \in [Shows -> Providers \cup {None}]
  BY DEF Settle, SessionInv, GoodSession, GoodRequests, Session
<1>2. StoreInv'
  BY <1>1, StoreKept DEF SessionInv
<1>3. /\ calm \in Session /\ calm.id = ses.id /\ calm.track = ses.track /\ calm.grid = ses.grid
      /\ calm.serving = ses.serving /\ calm.aim = ses.aim /\ ~calm.armed
      /\ calm.walk = None /\ calm.probing = None /\ ~calm.loading
  <2>1. CASE ses.walk = None /\ ~ses.loading
    <3>1. calm = [ses EXCEPT !.armed = FALSE]
      BY <1>1, <2>1 DEF DropStaleWalk, Session
    <3>2. ses.probing = None
      BY <1>1, <2>1 DEF GoodSession
    <3>3. QED
      BY <1>1, <2>1, <3>1, <3>2 DEF Session
  <2>2. CASE ~(ses.walk = None /\ ~ses.loading)
    <3>1. calm = [ses EXCEPT !.armed = FALSE, !.walk = None, !.probing = None,
                             !.loading = FALSE, !.mint = FALSE]
      BY <1>1, <2>2 DEF DropStaleWalk, Session
    <3>2. QED
      BY <1>1, <3>1 DEF Session
  <2>3. QED
    BY <2>1, <2>2
<1>4. LeftByDrop \subseteq Request /\ \A r \in LeftByDrop : ~r.fresh
  BY <1>1, BumpStale DEF LeftByDrop, GoodRequests
<1> HIDE DEF calm
<1>5. CASE ses.aim = ses.serving
  <2>1. /\ ses' = [calm EXCEPT !.aim = None] /\ inflight' = LeftByDrop
        /\ lastUsed' = lastUsed /\ said' = {}
    BY <1>5 DEF Settle, calm
  <2>2. /\ ses' \in Session /\ ses'.id = ses.id /\ ses'.track = ses.track /\ ses'.grid = ses.grid
        /\ ses'.serving = ses.serving /\ ses'.aim = None /\ ~ses'.armed
        /\ ses'.walk = None /\ ses'.probing = None /\ ~ses'.loading
    BY <1>3, <2>1 DEF Session
  <2>3. GoodSession(ses', shown', track') /\ GoodRequests(ses', inflight', track')
    BY <1>1, <1>4, <2>1, <2>2 DEF GoodSession, GoodRequests
  <2>4. /\ ~Narrow => WideGrid(ses', binding', lastUsed') /\ WideFetch(ses', inflight', binding')
        /\ BindingsWin' /\ WalkAnswered'
    BY <1>1, <1>4, <2>1, <2>2 DEF SessionInv, WideGrid, WideFetch, BindingsWin, WalkAnswered
  <2>5. SessionInv'
    BY <1>1, <1>2, <2>1, <2>3, <2>4 DEF SessionInv
  <2>6. WalkEndsAloud /\ AskedFirst /\ Promised
    BY <1>1, <2>1, <2>2, PromiseKept DEF WalkEndsAloud, SilentEndAllowed, AskedFirst
  <2>7. QED
    BY <2>4, <2>5, <2>6 DEF Steps
<1>6. CASE ses.aim # ses.serving
  <2>1. Advance(aimed, LeftByDrop, yes, none)
    BY <1>6 DEF Settle, calm
  <2>2. /\ WalkGood(ManualWalk(ses.aim)) /\ ManualWalk(ses.aim) # None
        /\ \A w : Hops(w, ManualWalk(ses.aim)) # {}
    BY <1>1, ManualGood
  <2>3. /\ aimed \in Session /\ aimed.walk = ManualWalk(ses.aim) /\ aimed.id = ses.id
        /\ aimed.track = ses.track /\ aimed.grid = ses.grid /\ aimed.serving = ses.serving
        /\ aimed.aim = ses.aim /\ ~aimed.armed /\ aimed.probing = None /\ ~aimed.loading
    BY <1>3, <2>2 DEF Session, WalkGood
  <2>4. none \in SUBSET Feedback /\ "DeadEnd" \notin none
    OBVIOUS
  <2> HIDE DEF aimed, none, yes
  <2>5. Midway(aimed, LeftByDrop, shown', track')
    BY <1>1, <1>4, <2>2, <2>3 DEF Midway, GoodSession
  <2>6. aimed.walk # None /\ \A w : Hops(w, aimed.walk) # {}
    BY <2>2, <2>3
  <2>7. QED
    BY <1>1, <1>2, <2>1, <2>3, <2>4, <2>5, <2>6, AdvanceStep
<1>7. QED
  BY <1>5, <1>6

\* play_fail_over on the grid on the surface.
LEMMA PlayFailOverGood ==
    ASSUME SessionInv, UNCHANGED <<known, binding, absent, cache, track, shown>>,
           ses.serving # None, NEW tried \in SUBSET Providers, PlayFailOver(tried)
    PROVE  SessionInv' /\ Steps
<1> DEFINE auto == AutoWalk(World(ses.id), tried)
           ss == [ses EXCEPT !.walk = auto, !.probing = None]
           none == {}
           yes == TRUE
<1>1. /\ GoodSession(ses, shown, track) /\ GoodRequests(ses, inflight, track)
      /\ ses \in Session /\ ses.id \in Shows /\ ses.id # None /\ ses.track = track
      /\ track \in Tracks /\ inflight \subseteq Request
      /\ lastUsed \in [Shows -> Providers \cup {None}]
  BY DEF SessionInv, GoodSession, GoodRequests, Session
<1>2. StoreInv'
  BY StoreKept DEF SessionInv
<1>3. CASE ses.loading \/ ses.walk # None
  <2>1. UNCHANGED <<lastUsed, ses, inflight>> /\ said' = {}
    BY <1>3 DEF PlayFailOver
  <2>2. QED
    BY <2>1, SessionKept DEF storeVars
<1>4. CASE ~(ses.loading \/ ses.walk # None)
  <2>1. Advance(ss, inflight, yes, none) /\ ses.walk = None
    BY <1>4 DEF PlayFailOver
  <2>2. WalkGood(auto) /\ auto # None
    BY <1>1, <1>2, WorldGood, AutoGood
  <2>3. none \in SUBSET Feedback /\ "DeadEnd" \notin none
    OBVIOUS
  <2> HIDE DEF auto, none, yes
  <2>4. /\ ss \in Session /\ ss.walk = auto /\ ss.probing = None /\ ss.id = ses.id
        /\ ss.track = ses.track /\ ss.grid = ses.grid /\ ss.serving = ses.serving
        /\ ss.aim = ses.aim /\ ss.armed = ses.armed /\ ss.loading = ses.loading
    BY <1>1, <2>2 DEF Session, WalkGood
  <2> HIDE DEF ss
  <2>5. Midway(ss, inflight, shown', track')
    BY <1>1, <1>4, <2>2, <2>4 DEF Midway, GoodSession, GoodRequests
  <2>6. ss.walk # None
    BY <2>2, <2>4
  <2>7. QED
    BY <1>2, <2>1, <2>3, <2>4, <2>5, <2>6, AdvanceStep
<1>5. QED
  BY <1>3, <1>4

\* A delete takes the session along, or with one pane leaves it as it is.
LEMMA DeleteGood ==
    ASSUME SessionInv, NEW s \in Shows, Delete(s)
    PROVE  SessionInv' /\ Steps
<1>1. /\ StoreInv /\ known' = known \ {s} /\ said' = {} /\ track' = track
      /\ binding' = [binding EXCEPT ![s] = [p \in Providers |-> None]]
      /\ absent' = [absent EXCEPT ![s] = {}]
      /\ lastUsed' = [lastUsed EXCEPT ![s] = None]
      /\ cache' = [cache EXCEPT ![s] = [p \in Providers |-> [t \in Tracks |-> None]]]
      /\ lastUsed \in [Shows -> Providers \cup {None}]
  BY DEF Delete, SessionInv
<1>2. lastUsed' \in [Shows -> Providers \cup {None}]
  BY <1>1
<1>3. \A t \in Shows, p \in Providers :
         binding'[t][p] # None => binding[t][p] # None /\ t # s
  BY <1>1 DEF StoreInv
<1>4. StoreInv'
  <2>1. binding' \in [Shows -> [Providers -> Shows \cup {None}]] /\ known' \subseteq Shows
    BY <1>1 DEF StoreInv
  <2>2. absent' \in [Shows -> SUBSET Providers]
    BY <1>1 DEF StoreInv
  <2>3. cache' \in [Shows -> [Providers -> [Tracks -> Listing \cup {None}]]]
    BY <1>1 DEF StoreInv
  <2>4. CacheHonest'
    BY <1>1 DEF StoreInv, CacheHonest
  <2>5. \A t \in Shows, p \in Providers : binding'[t][p] # None => t \in known'
    BY <1>1, <1>3 DEF StoreInv
  <2>6. QED
    BY <2>1, <2>2, <2>3, <2>4, <2>5 DEF StoreInv
<1>5. CASE Narrow
  <2>1. UNCHANGED <<shown, ses, inflight>>
    BY <1>5 DEF Delete
  <2>2. (BindingsWin => BindingsWin') /\ (~MaySpawnFail => WalkAnswered')
    <3>1. ~MaySpawnFail => WalkAnswered'
      BY <2>1 DEF SessionInv, WalkAnswered
    <3>2. ASSUME BindingsWin, ses'.loading, ses'.walk = None, ses'.mint, NEW p \in Providers
          PROVE  binding'[ses'.id][p] = None
      <4>1. ses.id \in Shows /\ binding[ses.id][p] = None
        BY <2>1, <3>2 DEF SessionInv, BindingsWin, GoodSession, Session
      <4>2. QED
        BY <1>3, <2>1, <4>1
    <3>3. BindingsWin => BindingsWin'
      BY <3>2 DEF BindingsWin
    <3>4. QED
      BY <3>1, <3>3
  <2>3. SessionInv'
    BY <1>1, <1>2, <1>4, <1>5, <2>1, <2>2 DEF SessionInv
  <2>4. QED
    BY <1>1, <2>1, <2>2, <2>3, SameWalk
<1>6. CASE ~Narrow
  <2>1. shown' \in Shows \cup {None} /\ ses' = NoSession /\ inflight' = Bump(inflight)
    BY <1>6 DEF Delete
  <2>2. QED
    BY <1>1, <1>2, <1>4, <2>1, NoSessionGood
<1>7. QED
  BY <1>5, <1>6

LEMMA ExpiryGood ==
    ASSUME SessionInv, Expiry
    PROVE  SessionInv' /\ Steps
<1>1. PICK s \in Shows, p \in Providers :
         AbsenceExpires(s, p) \/ \E t \in Tracks : CacheExpires(s, p, t)
  BY DEF Expiry
<1>2. /\ UNCHANGED <<known, binding, lastUsed, track, shown, ses, inflight>> /\ said' = {}
      /\ StoreInv
  BY <1>1 DEF AbsenceExpires, CacheExpires, SessionInv
<1>3. StoreInv'
  <2>1. CASE AbsenceExpires(s, p)
    BY <1>2, <2>1 DEF AbsenceExpires, StoreInv, CacheHonest
  <2>2. ASSUME NEW t \in Tracks, CacheExpires(s, p, t) PROVE StoreInv'
    <3>1. /\ cache' = [cache EXCEPT ![s][p][t] = None] /\ absent' = absent
          /\ cache \in [Shows -> [Providers -> [Tracks -> Listing \cup {None}]]]
      BY <1>2, <2>2 DEF CacheExpires, StoreInv
    <3>2. cache' \in [Shows -> [Providers -> [Tracks -> Listing \cup {None}]]]
      BY <3>1
    <3>3. \A x \in Shows, q \in Providers, u \in Tracks :
             cache'[x][q][u] # None => cache'[x][q][u] = cache[x][q][u]
      <4> SUFFICES ASSUME NEW x \in Shows, NEW q \in Providers, NEW u \in Tracks
                   PROVE  cache'[x][q][u] # None => cache'[x][q][u] = cache[x][q][u]
        OBVIOUS
      <4>1. cache'[x] = IF x = s THEN [cache[s] EXCEPT ![p][t] = None] ELSE cache[x]
        BY <3>1
      <4>2. cache[s] \in [Providers -> [Tracks -> Listing \cup {None}]]
        BY <3>1
      <4>3. [cache[s] EXCEPT ![p][t] = None][q] =
               IF q = p THEN [cache[s][p] EXCEPT ![t] = None] ELSE cache[s][q]
        BY <4>2
      <4>4. cache[s][p] \in [Tracks -> Listing \cup {None}]
        BY <4>2
      <4>5. [cache[s][p] EXCEPT ![t] = None][u] = IF u = t THEN None ELSE cache[s][p][u]
        BY <4>4
      <4>6. QED
        BY <4>1, <4>3, <4>5
    <3>4. CacheHonest'
      BY <1>2, <3>3 DEF StoreInv, CacheHonest
    <3>5. QED
      BY <1>2, <3>1, <3>2, <3>4 DEF StoreInv
  <2>3. QED
    BY <1>1, <2>1, <2>2
<1>4. /\ ~Narrow => WideGrid(ses', binding', lastUsed') /\ WideFetch(ses', inflight', binding')
      /\ (BindingsWin => BindingsWin') /\ (~MaySpawnFail => WalkAnswered')
  BY <1>2 DEF SessionInv, WideGrid, WideFetch, BindingsWin, WalkAnswered
<1>5. SessionInv'
  BY <1>2, <1>3, <1>4 DEF SessionInv
<1>6. QED
  BY <1>2, <1>4, <1>5, SameWalk

LEMMA SessionInitGood == ASSUME SessionInit PROVE SessionInv /\ BindingsWin
<1>1. ses = NoSession /\ inflight = {} /\ said = {} /\ shown = None
  BY DEF SessionInit
<1>2. /\ ses \in Session /\ ses.id = None /\ ses.walk = None /\ ses.grid = None
      /\ ses.serving = None /\ ses.probing = None /\ ses.aim = None
      /\ ~ses.armed /\ ~ses.loading
  BY <1>1 DEF NoSession, Session
<1>3. GoodSession(ses, shown, track) /\ GoodRequests(ses, inflight, track)
  BY <1>1, <1>2 DEF GoodSession, GoodRequests
<1>4. StoreInv
  BY DEF SessionInit, StoreInv, CacheHonest
<1>5. /\ WideGrid(ses, binding, lastUsed) /\ WideFetch(ses, inflight, binding)
      /\ BindingsWin /\ WalkAnswered
  BY <1>1, <1>2 DEF WideGrid, WideFetch, BindingsWin, WalkAnswered
<1>6. QED
  BY <1>1, <1>3, <1>4, <1>5 DEF SessionInit, SessionInv

-----------------------------------------------------------------------------
(***************************************************************************)
(* The inductive invariant: the session's, and a play that one user's      *)
(* watch has launched.  A watch has been launched on providers that failed *)
(* it and on the one that plays.                                           *)
(***************************************************************************)
PlayInv ==
    /\ active \in Active \cup {None}
    /\ continuation \in Continuation \cup {None}
    /\ shots \subseteq Providers /\ gone \in BOOLEAN
    /\ ContinuedPlay /\ PlayRowKept
    /\ continuation # None =>
          shots \subseteq TriedSet(continuation)
                            \cup (IF active = None THEN {} ELSE {active.provider})
    /\ active # None /\ continuation = None => shots = {active.provider}

Inv == SessionInv /\ PlayInv

OneShotStep == Relaunched => active'.provider \notin shots

\* The play of a grid with a binding is a play.
LEMMA PlayOfGridType ==
    ASSUME SessionInv', ses'.serving # None, binding'[ses'.id][ses'.serving] # None
    PROVE  /\ PlayOfGrid \in Active /\ PlayOfGrid # None
           /\ PlayOfGrid.show = ses'.id /\ PlayOfGrid.provider = ses'.serving
           /\ PlayOfGrid.track = track' /\ ses'.id \in known' /\ ses'.serving \in Providers
<1>1. /\ ses'.id \in Shows /\ ses'.serving \in Providers /\ track' \in Tracks
      /\ binding' \in [Shows -> [Providers -> Shows \cup {None}]]
      /\ \A s \in Shows, p \in Providers : binding'[s][p] # None => s \in known'
  BY DEF SessionInv, GoodSession, Session, StoreInv
<1>2. binding'[ses'.id][ses'.serving] \in Shows
  BY <1>1
<1>3. PlayOfGrid \in Active
  BY <1>1, <1>2 DEF PlayOfGrid, Active
<1>4. QED
  BY <1>1, <1>3, PlayAssumption DEF PlayOfGrid

\* maybe_continue_play launches where the watch has not been.
LEMMA ContinueGood ==
    ASSUME SessionInv', NEW c \in Continuation, shots \subseteq TriedSet(c),
           shots \subseteq Providers, gone' \in BOOLEAN, Continue(c)
    PROVE  PlayInv' /\ (active' # None => active'.provider \notin shots)
<1>1. c # None
  BY PlayAssumption
<1>2. CASE active' = None /\ continuation' = None /\ UNCHANGED shots
  BY <1>2 DEF PlayInv, ContinuedPlay, PlayRowKept
<1>3. CASE active' = None /\ continuation' = c /\ UNCHANGED shots
  BY <1>1, <1>3 DEF PlayInv, ContinuedPlay, PlayRowKept
<1>4. CASE /\ active' = PlayOfGrid /\ continuation' = c /\ shots' = shots \cup {ses'.serving}
           /\ ses'.id = c.show /\ c.track = track' /\ ses'.serving # None
           /\ binding'[ses'.id][ses'.serving] # None /\ ~Burned(c)
  <2>1. /\ active' \in Active /\ active' # None /\ active'.show = c.show
        /\ active'.provider = ses'.serving /\ active'.track = c.track
        /\ active'.show \in known' /\ ses'.serving \in Providers
    BY <1>4, PlayOfGridType
  <2>2. ~Contains(c.tried, active'.provider)
    BY <1>4, <2>1 DEF Burned
  <2>3. ContinuedPlay' /\ PlayRowKept'
    BY <1>4, <2>1, <2>2 DEF ContinuedPlay, PlayRowKept
  <2>4. active'.provider \notin shots
    BY <2>2 DEF Contains, TriedSet
  <2>5. QED
    BY <1>1, <1>4, <2>1, <2>3, <2>4 DEF PlayInv
<1>5. QED
  BY <1>2, <1>3, <1>4 DEF Continue

\* A continuation grows by the provider that failed.
LEMMA ArmedGood ==
    ASSUME PlayInv, active # None
    PROVE  /\ Armed \in Continuation /\ TriedSet(Armed) \subseteq Providers
           /\ shots \subseteq TriedSet(Armed)
           /\ LastTried(Armed) # None
<1>1. active \in Active /\ active.provider \in Providers /\ active.show \in Shows
      /\ active.track \in Tracks
  BY DEF PlayInv, Active
<1>2. CASE continuation = None
  <2> DEFINE c == [show |-> active.show, track |-> active.track, tried |-> <<active.provider>>]
  <2>1. Armed = c /\ c \in Continuation
    BY <1>1, <1>2 DEF Armed, Continuation
  <2>2. TriedSet(c) = {active.provider} /\ LastTried(c) = active.provider
    BY DEF TriedSet, LastTried
  <2>3. QED
    BY <1>1, <1>2, <2>1, <2>2, RegistryAssumption DEF PlayInv
<1>3. CASE continuation # None
  <2> DEFINE tried == continuation.tried
             p == active.provider
  <2>1. /\ continuation \in Continuation /\ tried \in Seq(Providers)
        /\ ~Contains(tried, p) /\ shots \subseteq TriedSet(continuation) \cup {p}
    BY <1>3 DEF PlayInv, Continuation, ContinuedPlay
  <2>2. Armed = [continuation EXCEPT !.tried = Append(tried, p)]
    BY <1>3, <2>1 DEF Armed
  <2>3. /\ Append(tried, p) \in Seq(Providers) /\ Len(Append(tried, p)) = Len(tried) + 1
        /\ Append(tried, p)[Len(tried) + 1] = p
        /\ \A i \in 1 .. Len(tried) : Append(tried, p)[i] = tried[i]
    BY <1>1, <2>1, AppendProperties
  <2>4. Len(tried) \in Nat /\ DOMAIN tried = 1 .. Len(tried)
        /\ DOMAIN Append(tried, p) = 1 .. Len(tried) + 1
    BY <2>1, <2>3, LenProperties
  <2>5. Armed \in Continuation /\ Armed.tried = Append(tried, p)
    BY <2>1, <2>2, <2>3 DEF Continuation
  <2>6. TriedSet(continuation) \cup {p} \subseteq TriedSet(Armed)
    BY <2>3, <2>4, <2>5 DEF TriedSet
  <2>7. \A i \in DOMAIN Armed.tried : Armed.tried[i] \in Providers
    BY <2>3, <2>5, ElementOfSeq, LenProperties
  <2>8. LastTried(Armed) = p
    BY <2>3, <2>5 DEF LastTried
  <2>9. QED
    BY <1>1, <2>1, <2>5, <2>6, <2>7, <2>8, RegistryAssumption DEF TriedSet
<1>4. QED
  BY <1>2, <1>3

\* An answer takes no row away.
LEMMA AnswerKeepsRows == ASSUME Answer PROVE known \subseteq known'
<1>1. PICK r \in inflight :
        \/ EpisodesListed(r) \/ EpisodesEmpty(r) \/ EpisodesFail(r)
        \/ \E id \in Shows : SearchHit(r, id)
        \/ \E fb \in {{}, {"Fail"}} : SearchMiss(r, fb)
        \/ AnswerDropped(r)
  BY DEF Answer
<1>2. QED
  BY <1>1 DEF EpisodesListed, EpisodesEmpty, EpisodesFail, SearchHit, SearchMiss, AnswerDropped,
              Bind, MarkAbsent, storeVars

LEMMA InitGood == Init => Inv
  BY SessionInitGood DEF Init, Inv, PlayInv, ContinuedPlay, PlayRowKept

-----------------------------------------------------------------------------
(***************************************************************************)
(* One step                                                                *)
(***************************************************************************)

\* A step that launches nothing and keeps every playing show's row.
LEMMA PlayKeptGood ==
    ASSUME PlayInv, UNCHANGED <<active, continuation, shots>>, gone' \in BOOLEAN,
           active # None => active.show \in known'
    PROVE  PlayInv' /\ OneShotStep
  BY DEF PlayInv, OneShotStep, Relaunched, ContinuedPlay, PlayRowKept

StepGood == SessionInv' /\ (Steps \/ UNCHANGED sessionVars) /\ PlayInv' /\ OneShotStep

LEMMA EpisodeEventStep == ASSUME Inv, OnEpisodeEvent PROVE StepGood
<1>1. SessionInv' /\ Steps
  BY AnswerGood DEF Inv, OnEpisodeEvent
<1>2. gone' \in BOOLEAN
  BY DEF Inv, PlayInv, OnEpisodeEvent
<1>3. CASE active = None /\ continuation # None
  <2>1. Continue(continuation) /\ continuation \in Continuation
        /\ shots \subseteq TriedSet(continuation) /\ shots \subseteq Providers
    BY <1>3 DEF Inv, PlayInv, OnEpisodeEvent
  <2>2. PlayInv' /\ (active' # None => active'.provider \notin shots)
    BY <1>1, <1>2, <2>1, ContinueGood
  <2>3. QED
    BY <1>1, <2>2 DEF StepGood, OneShotStep, Relaunched
<1>4. CASE ~(active = None /\ continuation # None)
  <2>1. UNCHANGED <<active, continuation, shots>>
    BY <1>4 DEF OnEpisodeEvent
  <2>2. active # None => active.show \in known'
    BY AnswerKeepsRows DEF Inv, PlayInv, PlayRowKept, OnEpisodeEvent
  <2>3. QED
    BY <1>1, <1>2, <2>1, <2>2, PlayKeptGood DEF Inv, StepGood
<1>5. QED
  BY <1>3, <1>4

LEMMA TickStep == ASSUME Inv, Tick PROVE StepGood
<1>1. SessionInv' /\ Steps
  BY SettleGood DEF Inv, Tick
<1>2. gone' \in BOOLEAN /\ UNCHANGED <<active, continuation, shots, known>>
  BY DEF Inv, PlayInv, Tick, Settle, Waits
<1>3. QED
  BY <1>1, <1>2, PlayKeptGood DEF Inv, PlayInv, PlayRowKept, StepGood

LEMMA AgeStep == ASSUME Inv, Age PROVE StepGood
<1>1. SessionInv' /\ Steps
  BY ExpiryGood DEF Inv, Age
<1>2. known' = known /\ UNCHANGED playVars
  BY DEF Age, Expiry, AbsenceExpires, CacheExpires
<1>3. QED
  BY <1>1, <1>2, PlayKeptGood DEF Inv, PlayInv, PlayRowKept, StepGood, playVars

LEMMA EnterStep == ASSUME Inv, Enter PROVE StepGood
<1>1. SessionInv' /\ Steps
  BY EngageGood DEF Inv, Enter
<1>2. known' = known /\ UNCHANGED playVars
  BY DEF Enter, Engage
<1>3. QED
  BY <1>1, <1>2, PlayKeptGood DEF Inv, PlayInv, PlayRowKept, StepGood, playVars

LEMMA RerouteStep == ASSUME Inv, Reroute PROVE StepGood
<1>1. SessionInv' /\ Steps
  BY ToggleTrackGood, CycleProviderGood DEF Inv, Reroute
<1>2. known' = known /\ UNCHANGED playVars
  BY DEF Reroute, ToggleTrack, CycleProvider, storeVars
<1>3. QED
  BY <1>1, <1>2, PlayKeptGood DEF Inv, PlayInv, PlayRowKept, StepGood, playVars

LEMMA NavigateStep ==
    ASSUME Inv, NEW s \in Shows \cup {None}, Navigate(s) PROVE StepGood
<1>1. SessionInv' /\ Steps
  BY ShowGood DEF Inv, Navigate
<1>2. gone' \in BOOLEAN /\ UNCHANGED <<active, continuation, shots, known>>
  BY DEF Inv, PlayInv, Navigate, Show, Waits, storeVars
<1>3. QED
  BY <1>1, <1>2, PlayKeptGood DEF Inv, PlayInv, PlayRowKept, StepGood

\* The refusal in on_confirm_key is what keeps the playing show's row.
LEMMA DeleteStep ==
    ASSUME Inv, NEW s \in Shows, DeleteShow(s) PROVE StepGood
<1>1. SessionInv' /\ Steps
  BY DeleteGood DEF Inv, DeleteShow
<1>2. /\ known' = known \ {s} /\ UNCHANGED playVars
      /\ active # None => active.show # s
  BY DEF DeleteShow, Delete
<1>3. QED
  BY <1>1, <1>2, PlayKeptGood DEF Inv, PlayInv, PlayRowKept, StepGood, playVars

LEMMA SessionStays == ASSUME SessionInv, UNCHANGED sessionVars PROVE SessionInv'
<1>1. UNCHANGED <<storeVars, track, shown, ses, inflight, said>>
  BY DEF sessionVars
<1>2. StoreInv'
  BY <1>1, StoreKept DEF SessionInv, storeVars
<1>3. QED
  BY <1>1, <1>2 DEF SessionInv, WalkAnswered, storeVars

LEMMA PlayStep == ASSUME Inv, Play PROVE StepGood
<1>1. /\ UNCHANGED sessionVars /\ continuation' = None /\ gone' = FALSE
      /\ ses.grid # None /\ ses.id = shown /\ binding[shown][ses.serving] # None
      /\ active = None
      /\ \/ active' = PlayOfGrid /\ shots' = {ses.serving}
         \/ active' = None /\ shots' = {}
  BY DEF Play
<1>2. SessionInv'
  BY <1>1, SessionStays DEF Inv
<1>3. ses'.serving # None /\ binding'[ses'.id][ses'.serving] # None
  BY <1>1 DEF Inv, SessionInv, GoodSession, sessionVars, storeVars
<1>4. /\ PlayOfGrid \in Active /\ PlayOfGrid # None /\ PlayOfGrid.provider = ses'.serving
      /\ PlayOfGrid.show \in known' /\ ses'.serving \in Providers
  BY <1>2, <1>3, PlayOfGridType
<1>5. PlayInv' /\ OneShotStep
  BY <1>1, <1>4 DEF PlayInv, OneShotStep, Relaunched, ContinuedPlay, PlayRowKept, sessionVars
<1>6. QED
  BY <1>1, <1>2, <1>5 DEF StepGood

LEMMA PlayEndsStep == ASSUME Inv, PlayEnds PROVE StepGood
<1>1. /\ UNCHANGED <<sessionVars, shots>> /\ active' = None /\ continuation' = None /\ gone' = FALSE
  BY DEF PlayEnds
<1>2. SessionInv'
  BY <1>1, SessionStays DEF Inv
<1>3. PlayInv' /\ OneShotStep
  BY <1>1 DEF Inv, PlayInv, OneShotStep, Relaunched, ContinuedPlay, PlayRowKept
<1>4. QED
  BY <1>1, <1>2, <1>3 DEF StepGood

LEMMA ProviderFailsStep == ASSUME Inv, ProviderFails PROVE StepGood
<1> DEFINE c == Armed
<1>1. active # None /\ gone' = FALSE
  BY DEF ProviderFails
<1>2. /\ c \in Continuation /\ TriedSet(c) \subseteq Providers /\ shots \subseteq TriedSet(c)
      /\ LastTried(c) # None
  BY <1>1, ArmedGood DEF Inv
<1>3. CASE ses.id # c.show \/ ses.serving # LastTried(c)
  <2>1. active' = None /\ continuation' = None /\ UNCHANGED <<sessionVars, shots>>
    BY <1>3 DEF ProviderFails
  <2>2. SessionInv'
    BY <2>1, SessionStays DEF Inv
  <2>3. PlayInv' /\ OneShotStep
    BY <1>1, <2>1 DEF Inv, PlayInv, OneShotStep, Relaunched, ContinuedPlay, PlayRowKept
  <2>4. QED
    BY <2>1, <2>2, <2>3 DEF StepGood
<1>4. CASE ~(ses.id # c.show \/ ses.serving # LastTried(c))
  <2>1. /\ UNCHANGED <<known, binding, absent, cache, track, shown>>
        /\ PlayFailOver(TriedSet(c)) /\ Continue(c) /\ ses.serving # None
    BY <1>2, <1>4 DEF ProviderFails
  <2> HIDE DEF c
  <2>2. SessionInv' /\ Steps
    BY <1>2, <2>1, PlayFailOverGood DEF Inv
  <2>3. PlayInv' /\ (active' # None => active'.provider \notin shots)
    BY <1>1, <1>2, <2>1, <2>2, ContinueGood DEF Inv, PlayInv
  <2>4. QED
    BY <2>2, <2>3 DEF StepGood, OneShotStep, Relaunched
<1>5. QED
  BY <1>3, <1>4

LEMMA NextGood == Inv /\ [Next]_vars => StepGood
<1> SUFFICES ASSUME Inv, [Next]_vars PROVE StepGood
  OBVIOUS
<1>1. CASE Next
  BY <1>1, EpisodeEventStep, TickStep, AgeStep, PlayStep, PlayEndsStep, ProviderFailsStep,
     EnterStep, RerouteStep, NavigateStep, DeleteStep DEF Next
<1>2. CASE UNCHANGED vars
  <2>1. UNCHANGED <<sessionVars, active, continuation, shots, gone>>
    BY <1>2 DEF vars, playVars
  <2>2. SessionInv'
    BY <2>1, SessionStays DEF Inv
  <2>3. PlayInv' /\ OneShotStep
    BY <2>1 DEF Inv, PlayInv, OneShotStep, Relaunched, ContinuedPlay, PlayRowKept, sessionVars,
                storeVars
  <2>4. QED
    BY <2>1, <2>2, <2>3 DEF StepGood
<1>3. QED
  BY <1>1, <1>2

-----------------------------------------------------------------------------
(***************************************************************************)
(* The theorems                                                            *)
(***************************************************************************)

\* The invariant the theorems rest on.
THEOREM Inductive == Spec => []Inv
<1>1. Inv /\ [Next]_vars => Inv'
  BY NextGood DEF StepGood, Inv
<1>2. QED
  BY InitGood, <1>1, PTL DEF Spec

\* Every reachable state is well typed.
THEOREM PlayTypeCorrect == Spec => []TypeOK
<1>1. Inv => TypeOK
  BY DEF Inv, SessionInv, PlayInv, TypeOK, SessionTypeOK, StoreInv, GoodSession, GoodRequests
<1>2. QED
  BY Inductive, <1>1, PTL

\* The spinner turns exactly while an answer that will be taken is on its way,
\* whatever is opened, dropped, refused or answered late.
THEOREM SpinnerIsHonest == Spec => []SpinnerHonest
<1>1. Inv => SpinnerHonest
  BY DEF Inv, SessionInv, GoodRequests, SpinnerHonest
<1>2. QED
  BY Inductive, <1>1, PTL

\* The grid is the shown show's listing by the provider marked as serving it, on
\* the configured track, and a cached listing is what its key says it is.
THEOREM GridIsHonest == Spec => [](GridHonest /\ CacheHonest)
<1>1. Inv => GridHonest /\ CacheHonest
  BY DEF Inv, SessionInv, StoreInv, GoodSession, GridHonest
<1>2. QED
  BY Inductive, <1>1, PTL

\* With two panes a grid has a binding to play it through, and the store's record
\* of who served the show last agrees with the screen.
THEOREM GridIsTrue == ASSUME ~Narrow PROVE Spec => []GridTrue
<1>1. Inv => GridTrue
  BY DEF Inv, SessionInv, StoreInv, GoodSession, GridHonest, WideGrid, GridTrue, GridBound
<1>2. QED
  BY Inductive, <1>1, PTL

\* The store's record of who served the show last agrees with the provider on screen.
THEOREM ServingIsRemembered == ASSUME ~Narrow PROVE Spec => []ServingRemembered
<1>1. Inv => ServingRemembered
  BY DEF Inv, SessionInv, WideGrid, ServingRemembered
<1>2. QED
  BY Inductive, <1>1, PTL

\* While the OS grants threads: a walk always waits for an answer, and one that ends
\* lands or says that it is a dead end.
THEOREM WalksSpeak == ASSUME ~MaySpawnFail PROVE Spec => WalkSpeaks
<1>1. Inv => WalkAnswered
  BY DEF Inv, SessionInv
<1>2. Inv /\ [Next]_vars => [WalkEndsAloud]_sessionVars
  BY NextGood DEF StepGood, Steps
<1>3. QED
  BY Inductive, <1>1, <1>2, PTL DEF Spec, WalkSpeaks, NeverSilent

\* A key is fetched for an open only where nothing is bound, and a dead end leaves
\* no binding unasked.
THEOREM BindingsAreHonoured == ASSUME ~MaySpawnFail PROVE Spec => BindingsHonoured
<1>1. Init => BindingsWin
  BY SessionInitGood DEF Init
<1>2. Inv /\ BindingsWin /\ [Next]_vars => BindingsWin'
  <2>1. Inv /\ [Next]_vars => Steps \/ UNCHANGED sessionVars
    BY NextGood DEF StepGood
  <2>2. UNCHANGED sessionVars => (BindingsWin => BindingsWin')
    BY DEF BindingsWin, sessionVars, storeVars
  <2>3. QED
    BY <2>1, <2>2 DEF Steps
<1>3. Inv /\ [Next]_vars => [AskedFirst]_sessionVars
  BY NextGood DEF StepGood, Steps
<1>4. QED
  BY Inductive, <1>1, <1>2, <1>3, PTL DEF Spec, BindingsHonoured, BindingsAsked, AskedFirst

\* The walk implements WalkPromise: each provider at most once and one at a time,
\* and another walk only for another errand.
THEOREM WalksKeepPromise == ASSUME ~MaySpawnFail PROVE Spec => KeepsPromise
<1>1. Init => Promise!PromiseInit
  BY DEF Init, SessionInit, NoSession, Promise!PromiseInit
<1>2. Inv /\ [Next]_vars => Promised
  BY NextGood DEF StepGood, Steps, Promised, sessionVars
<1>3. QED
  BY Inductive, <1>1, <1>2, PTL DEF Spec, KeepsPromise, Promise!PromiseSpec, Promised

\* A play and its continuations are of one show and one track, launch each provider
\* once, and have a row to be recorded in.
THEOREM PlaysAreHonest == Spec => PlayHonest
<1>1. Inv => ContinuedPlay /\ PlayRowKept
  BY DEF Inv, PlayInv
<1>2. Inv /\ [Next]_vars => [Relaunched => active'.provider \notin shots]_vars
  BY NextGood DEF StepGood, OneShotStep
<1>3. QED
  BY Inductive, <1>1, <1>2, PTL DEF Spec, PlayHonest, OneShot

-----------------------------------------------------------------------------
(***************************************************************************)
(* The inductive invariant: the sessions', and a run whose one probe out   *)
(* is the run's own and which a rescue has told to yield.                  *)
(***************************************************************************)
OneProbe(r, out) ==
    \/ out = {} /\ ~(r # None /\ r.inflight)
    \/ /\ r # None /\ r.inflight
       /\ \E p \in Providers : out = {[show |-> r.show, provider |-> p, fresh |-> TRUE]}

RunInv ==
    /\ opened \in BOOLEAN /\ spaced \in BOOLEAN
    /\ attempted \in Seq(Shows) /\ Len(attempted) <= RingSlots
    /\ run \in ProbeRun \cup {None}
    /\ OneProbe(run, probes)
    /\ Rescuing => run = None \/ run.yielding

WarmInv == Inv /\ RunInv

\* NeverSteals and RescueOwnsNetwork of one step.
StealsNothing == ProbeSettles => \A s \in Shows \ {run.show} : binding'[s] = binding[s]
QuietRescue == Rescuing => probes' \subseteq probes

RunStep == RunInv' /\ StealsNothing /\ QuietRescue

\* The ring keeps its size.
LEMMA MarkedGood ==
    ASSUME attempted \in Seq(Shows), Len(attempted) <= RingSlots, NEW s \in Shows
    PROVE  Marked(s) \in Seq(Shows) /\ Len(Marked(s)) <= RingSlots
<1>1. Len(attempted) \in Nat /\ RingSlots \in Nat \ {0}
  BY RingAssumption, LenProperties
<1>2. CASE Len(attempted) < RingSlots
  <2>1. Append(attempted, s) \in Seq(Shows) /\ Len(Append(attempted, s)) = Len(attempted) + 1
    BY AppendProperties
  <2>2. QED
    BY <1>1, <1>2, <2>1 DEF Marked
<1>3. CASE ~(Len(attempted) < RingSlots)
  <2>1. attempted # << >>
    BY <1>1, <1>3, EmptySeq
  <2>2. Tail(attempted) \in Seq(Shows) /\ Len(Tail(attempted)) = Len(attempted) - 1
    BY <2>1, HeadTailProperties
  <2>3. /\ Append(Tail(attempted), s) \in Seq(Shows)
        /\ Len(Append(Tail(attempted), s)) = Len(Tail(attempted)) + 1
    BY <2>2, AppendProperties
  <2>4. QED
    BY <1>1, <1>3, <2>2, <2>3 DEF Marked
<1>4. QED
  BY <1>2, <1>3

\* A run that is not waiting has no probe out; its next one is the only one.
LEMMA SpawnGood ==
    ASSUME NEW r \in ProbeRun, ~r.yielding, probes = {}, Spawned(r) \/ Exhausted(r)
    PROVE  run' \in ProbeRun \cup {None} /\ OneProbe(run', probes')
<1>1. Bump(probes) = {}
  BY DEF Bump
<1>2. CASE Exhausted(r)
  BY <1>1, <1>2 DEF Exhausted, OneProbe
<1>3. CASE Spawned(r)
  <2>1. PICK i \in r.left :
           /\ run' = [r EXCEPT !.left = {j \in @ : j > i}, !.inflight = TRUE]
           /\ probes' = Bump(probes) \cup
                          {[show |-> r.show, provider |-> Registry[i], fresh |-> TRUE]}
    BY <1>3 DEF Spawned
  <2>2. i \in DOMAIN Registry /\ Registry[i] \in Providers
    BY DEF ProbeRun, Providers
  <2>3. run' \in ProbeRun /\ run'.inflight /\ run'.show = r.show
    BY <2>1 DEF ProbeRun
  <2>4. run' # None
    BY <2>3, ProbeRunAssumption
  <2>5. probes' = {[show |-> r.show, provider |-> Registry[i], fresh |-> TRUE]}
    BY <1>1, <2>1
  <2>6. QED
    BY <2>2, <2>3, <2>4, <2>5 DEF OneProbe
<1>4. QED
  BY <1>2, <1>3

\* No run is started while one is on or a walk is armed.
LEMMA FireGood ==
    ASSUME RunInv, NEW s \in Shows, NEW resolving \in BOOLEAN, Fire(s, resolving),
           UNCHANGED ses, opened' \in BOOLEAN
    PROVE  RunStep
<1> DEFINE fresh == [show |-> s, left |-> Candidates(s), inflight |-> FALSE, yielding |-> FALSE]
<1>1. CASE UNCHANGED warmVars
  BY <1>1 DEF RunInv, RunStep, StealsNothing, QuietRescue, ProbeSettles, Rescuing, warmVars
<1>2. CASE ~(Blocked(s, resolving) \/ Candidates(s) = {})
  <2>1. /\ run = None /\ ses.walk = None
        /\ \/ Spawned(fresh) /\ attempted' = Marked(s) /\ spaced' = TRUE
           \/ Exhausted(fresh) /\ UNCHANGED <<attempted, spaced>>
    BY <1>2 DEF Fire, Blocked
  <2>2. probes = {}
    BY <2>1 DEF RunInv, OneProbe
  <2>3. fresh \in ProbeRun /\ ~fresh.yielding
    BY DEF ProbeRun, Candidates
  <2> HIDE DEF fresh
  <2>4. run' \in ProbeRun \cup {None} /\ OneProbe(run', probes')
    BY <2>1, <2>2, <2>3, SpawnGood
  <2>5. attempted' \in Seq(Shows) /\ Len(attempted') <= RingSlots /\ spaced' \in BOOLEAN
    BY <2>1, MarkedGood DEF RunInv
  <2>6. ~Rescuing /\ ~Rescuing' /\ ~ProbeSettles
    BY <2>1 DEF Rescuing, ProbeSettles
  <2>7. QED
    BY <2>4, <2>5, <2>6 DEF RunInv, RunStep, StealsNothing, QuietRescue
<1>3. QED
  BY <1>1, <1>2 DEF Fire

\* The rescue's cancel honours what is in flight.
LEMMA YieldGood ==
    ASSUME RunInv, YieldToWalk, opened' \in BOOLEAN
    PROVE  RunStep
<1>1. /\ run' = IF ses'.walk # None THEN Cancelled ELSE run
      /\ UNCHANGED <<probes, attempted, spaced>>
  BY DEF YieldToWalk
<1>2. CASE ses'.walk = None
  BY <1>1, <1>2 DEF RunInv, RunStep, StealsNothing, QuietRescue, ProbeSettles, Rescuing
<1>3. CASE ses'.walk # None /\ run # None /\ run.inflight
  <2>1. run \in ProbeRun /\ run' = [run EXCEPT !.yielding = TRUE]
    BY <1>1, <1>3 DEF RunInv, Cancelled
  <2>2. run' \in ProbeRun /\ run'.inflight /\ run'.yielding /\ run'.show = run.show
    BY <1>3, <2>1 DEF ProbeRun
  <2>3. run' # None
    BY <2>2, ProbeRunAssumption
  <2>4. OneProbe(run', probes')
    <3>1. PICK p \in Providers : probes = {[show |-> run.show, provider |-> p, fresh |-> TRUE]}
      BY <1>3 DEF RunInv, OneProbe
    <3>2. probes' = {[show |-> run'.show, provider |-> p, fresh |-> TRUE]}
      BY <1>1, <2>2, <3>1
    <3>3. QED
      BY <2>2, <2>3, <3>2 DEF OneProbe
  <2>5. QED
    BY <1>1, <2>2, <2>3, <2>4 DEF RunInv, RunStep, StealsNothing, QuietRescue, ProbeSettles
<1>4. CASE ses'.walk # None /\ ~(run # None /\ run.inflight)
  <2>1. run' = None /\ probes = {}
    BY <1>1, <1>4 DEF RunInv, Cancelled, OneProbe
  <2>2. QED
    BY <1>1, <1>4, <2>1 DEF RunInv, RunStep, OneProbe, StealsNothing, QuietRescue, ProbeSettles
<1>5. QED
  BY <1>2, <1>3, <1>4

\* A handler that begins no rescue leaves the run alone.
LEMMA RunKept ==
    ASSUME RunInv, UNCHANGED warmVars, opened' \in BOOLEAN, Rescuing' => Rescuing
    PROVE  RunStep
  BY DEF RunInv, RunStep, StealsNothing, QuietRescue, ProbeSettles, warmVars

-----------------------------------------------------------------------------
(***************************************************************************)
(* Who begins a rescue: only an answer and a play's failure do.            *)
(***************************************************************************)

\* An advance keeps the walk's skip mask.
LEMMA AdvanceNoRescue ==
    ASSUME NEW ss \in Session, NEW reqs, NEW announce, NEW fb,
           ss.walk \in WalkRecord, ss.walk.tried = {}, Advance(ss, reqs, announce, fb)
    PROVE  ~Rescuing'
<1> DEFINE w == World(ss.id)
           hops == Hops(w, ss.walk)
           At(i) == ss.walk.order[i]
           Painted(i) == At(i) \in w.bound /\ Cached(ss.id, At(i)) # None
           Refused(i) == {j \in hops : j < i}
           Reached(i) == \A j \in Refused(i) : MaySpawnFail /\ ~Painted(j)
           Minting(i) == At(i) \notin w.bound /\ At(i) \in w.keyed
           MintLeft(i) == IF Refused(i) = {} THEN ss.mint ELSE Minting(Max(Refused(i)))
           On(i) == [ss EXCEPT !.walk = Stepped(@, i), !.probing = At(i)]
<1> HIDE DEF w, hops, MintLeft, Minting
<1>1. ASSUME NEW i \in hops,
             Land([On(i) EXCEPT !.mint = MintLeft(i)], At(i), Cached(ss.id, At(i)), reqs)
      PROVE  ses'.walk = None
  BY <1>1 DEF Land, Landed, Session
<1>2. ASSUME NEW i \in hops, ses' = [On(i) EXCEPT !.loading = TRUE, !.mint = Minting(i)]
      PROVE  ses'.walk.tried = {}
  <2>1. ses'.walk = Stepped(ss.walk, i)
    BY <1>2 DEF Session
  <2>2. Stepped(ss.walk, i).tried = ss.walk.tried
    BY DEF Stepped, WalkRecord
  <2>3. QED
    BY <2>1, <2>2
<1>3. ASSUME ses' = [ss EXCEPT !.walk = None, !.probing = None, !.loading = FALSE,
                               !.noSource = @ \/ ss.grid = None,
                               !.mint = MintLeft(Len(ss.walk.order) + 1)]
      PROVE  ses'.walk = None
  BY <1>3 DEF Session
<1>4. QED
  BY <1>1, <1>2, <1>3 DEF Advance, w, hops, MintLeft, Minting, Rescuing

LEMMA OpenNoRescue ==
    ASSUME NEW s \in Shows, track' \in Tracks, StoreInv', NEW reqs,
           lastUsed \in [Shows -> Providers \cup {None}], Open(s, reqs)
    PROVE  ~Rescuing'
<1> DEFINE ss == [NoSession EXCEPT !.id = s, !.track = track']
           verdict == ClassifyOpen(World(s))
           p == verdict.provider
           old == Bump(reqs)
           walk == AutoWalk(World(s), {})
           quiet == FALSE
           nothing == {}
<1>1. ss \in Session /\ ss.walk = None
  BY DEF NoSession, Session
<1>2. walk \in WalkRecord /\ walk.tried = {}
  <2>1. WalkGood(walk)
    BY WorldGood, AutoGood
  <2>2. QED
    BY <2>1 DEF WalkGood, AutoWalk
<1> HIDE DEF ss, verdict, old, walk, quiet, nothing
<1>3. [ss EXCEPT !.walk = walk] \in Session /\ [ss EXCEPT !.walk = walk].walk = walk
  BY <1>1, <1>2 DEF Session
<1>4. ASSUME Land(ss, p, Cached(s, p), old) PROVE ses'.walk = None
  BY <1>1, <1>4 DEF Land, Landed, Session
<1>5. ASSUME NEW id, NEW mint, FireFetch(ss, p, id, mint, old) PROVE ses'.walk = None
  BY <1>1, <1>5 DEF FireFetch, Session
<1>6. ASSUME Advance([ss EXCEPT !.walk = walk], old, quiet, nothing) PROVE ~Rescuing'
  BY <1>2, <1>3, <1>6, AdvanceNoRescue
<1>7. \/ Land(ss, p, Cached(s, p), old)
      \/ FireFetch(ss, p, binding'[s][p], FALSE, old)
      \/ FireFetch(ss, p, s, TRUE, old)
      \/ Advance([ss EXCEPT !.walk = walk], old, quiet, nothing)
  BY DEF Open, ss, verdict, old, walk, quiet, nothing
<1>8. QED
  BY <1>4, <1>5, <1>6, <1>7 DEF Rescuing

LEMMA EnterNoRescue == ASSUME SessionInv, Engage PROVE ~Rescuing'
<1>1. /\ shown \in Shows /\ track' \in Tracks /\ StoreInv' /\ Open(shown, inflight)
      /\ lastUsed \in [Shows -> Providers \cup {None}]
  BY StoreKept DEF Engage, SessionInv
<1>2. QED
  BY <1>1, OpenNoRescue

LEMMA RerouteNoRescue ==
    ASSUME SessionInv, ToggleTrack \/ CycleProvider PROVE Rescuing' => Rescuing
<1>1. ses \in Session /\ lastUsed \in [Shows -> Providers \cup {None}] /\ shown \in Shows \cup {None}
  BY DEF SessionInv, GoodSession
<1>2. CASE ToggleTrack
  <2>1. CASE UNCHANGED ses
    BY <2>1 DEF Rescuing
  <2>2. CASE shown # None /\ Open(shown, inflight)
    <3>1. track' \in Tracks /\ StoreInv'
      BY <1>2, StoreKept DEF ToggleTrack, SessionInv
    <3>2. QED
      BY <1>1, <2>2, <3>1, OpenNoRescue
  <2>3. QED
    BY <1>2, <2>1, <2>2 DEF ToggleTrack
<1>3. CASE CycleProvider
  <2>1. ses'.walk = ses.walk
    BY <1>1, <1>3 DEF CycleProvider, Session
  <2>2. QED
    BY <2>1 DEF Rescuing
<1>4. QED
  BY <1>2, <1>3

LEMMA SettleNoRescue == ASSUME SessionInv, Settle PROVE ~Rescuing'
<1> DEFINE calm == DropStaleWalk([ses EXCEPT !.armed = FALSE])
           none == {}
           yes == TRUE
<1>1. ses \in Session /\ ses.aim \in Providers
  BY DEF Settle, SessionInv, GoodSession, Session
<1>2. calm \in Session /\ calm.walk = None
  BY <1>1 DEF DropStaleWalk, Session
<1> HIDE DEF calm, none, yes
<1>3. CASE ses.aim = ses.serving
  <2>1. ses' = [calm EXCEPT !.aim = None]
    BY <1>3 DEF Settle, calm
  <2>2. ses'.walk = None
    BY <1>2, <2>1 DEF Session
  <2>3. QED
    BY <2>2 DEF Rescuing
<1>4. CASE ses.aim # ses.serving
  <2> DEFINE walk == ManualWalk(ses.aim)
             ss == [calm EXCEPT !.walk = walk]
  <2>1. Advance(ss, LeftByDrop, yes, none)
    BY <1>4 DEF Settle, calm, none, yes
  <2>2. walk \in WalkRecord
    BY <1>1, ManualGood DEF WalkGood
  <2>3. walk.tried = {}
    BY DEF ManualWalk
  <2> HIDE DEF walk
  <2>4. ss \in Session /\ ss.walk = walk
    BY <1>2, <2>2 DEF Session
  <2> HIDE DEF ss
  <2>5. QED
    BY <2>1, <2>2, <2>3, <2>4, AdvanceNoRescue
<1>5. QED
  BY <1>3, <1>4

LEMMA ElsewhereNoRescue == ASSUME Inv, Elsewhere PROVE Rescuing' => Rescuing
<1>1. CASE Age \/ Play \/ PlayEnds
  <2>1. UNCHANGED ses
    BY <1>1 DEF Age, Expiry, AbsenceExpires, CacheExpires, Play, PlayEnds, sessionVars
  <2>2. QED
    BY <2>1 DEF Rescuing
<1>2. CASE Enter
  BY <1>2, EnterNoRescue DEF Enter, Inv
<1>3. CASE Reroute
  BY <1>3, RerouteNoRescue DEF Reroute, Inv
<1>4. CASE \/ \E s \in Shows \cup {None} : Navigate(s)
           \/ \E s \in Shows : DeleteShow(s)
  <2>1. ses' = NoSession \/ UNCHANGED ses
    BY <1>4 DEF Navigate, Show, DeleteShow, Delete
  <2>2. QED
    BY <2>1 DEF Rescuing, NoSession
<1>5. QED
  BY <1>1, <1>2, <1>3, <1>4 DEF Elsewhere

-----------------------------------------------------------------------------
(***************************************************************************)
(* One step                                                                *)
(***************************************************************************)

\* What a step keeps of the session's promises beside the prewarm.
SessionStep ==
    /\ Inv' /\ OneShotStep
    /\ ~MaySpawnFail => \/ WalkEndsAloud /\ AskedFirst /\ Promised
                        \/ UNCHANGED sessionVars

WarmStep == SessionStep /\ RunStep

LEMMA PlayStepGood == ASSUME Inv, [Next]_vars PROVE SessionStep
  BY NextGood DEF StepGood, Steps, SessionStep, Inv

\* A write behind the session's back that takes no binding and no row.
LEMMA BehindGood ==
    ASSUME Inv, StoreInv', said' = {}, known \subseteq known',
           UNCHANGED <<lastUsed, track, shown, ses, inflight, playVars>>,
           \A s \in Shows, p \in Providers : binding[s][p] # None => binding'[s][p] # None
    PROVE  SessionStep
<1>1. /\ SessionInv /\ PlayInv
      /\ GoodSession(ses, shown, track) /\ GoodRequests(ses, inflight, track)
      /\ ses \in Session /\ inflight \subseteq Request
  BY DEF Inv, SessionInv, GoodSession, GoodRequests
<1>2. ~Narrow => WideGrid(ses', binding', lastUsed') /\ WideFetch(ses', inflight', binding')
  <2>1. ASSUME ~Narrow PROVE WideGrid(ses, binding', lastUsed)
    <3>1. WideGrid(ses, binding, lastUsed)
      BY <1>1, <2>1 DEF SessionInv
    <3>2. ses.grid # None => ses.id \in Shows /\ ses.serving \in Providers
      BY <1>1 DEF GoodSession, Session
    <3>3. QED
      BY <3>1, <3>2 DEF WideGrid
  <2>2. ASSUME ~Narrow PROVE WideFetch(ses, inflight, binding')
    <3>1. WideFetch(ses, inflight, binding)
      BY <1>1, <2>2 DEF SessionInv
    <3>2. QED
      BY <1>1, <3>1 DEF WideFetch, Request
  <2>3. QED
    BY <2>1, <2>2
<1>3. SessionInv'
  BY <1>1, <1>2 DEF SessionInv, WalkAnswered
<1>4. PlayInv' /\ OneShotStep
  BY <1>1 DEF PlayInv, OneShotStep, Relaunched, ContinuedPlay, PlayRowKept, playVars
<1>5. WalkEndsAloud /\ AskedFirst /\ Promised
  BY DEF WalkEndsAloud, AskedFirst, Promised
<1>6. QED
  BY <1>3, <1>4, <1>5 DEF SessionStep, Inv

\* on_result.
LEMMA ProbeAnsweredGood ==
    ASSUME WarmInv, NEW pr \in probes, ProbeAnswered(pr)
    PROVE  WarmStep
<1>1. /\ Inv /\ RunInv /\ StoreInv
  BY DEF WarmInv, Inv, SessionInv
<1>2. PICK p \in Providers :
         /\ probes = {[show |-> run.show, provider |-> p, fresh |-> TRUE]}
         /\ run # None /\ run.inflight /\ run \in ProbeRun /\ run.show \in Shows
  BY <1>1 DEF RunInv, OneProbe, ProbeRun
<1>3. pr.show = run.show /\ pr.provider = p /\ pr.fresh
  BY <1>2
<1>4. /\ probes' = {} /\ said' = {} /\ run' = AfterAnswer(run)
      /\ UNCHANGED <<lastUsed, cache, track, shown, ses, inflight, playVars, opened,
                     attempted, spaced>>
      /\ \/ \E id \in Shows : Bind(run.show, p, id) /\ Mintable(run.show, p, id)
         \/ MarkAbsent(run.show, p)
         \/ UNCHANGED <<known, binding, absent>>
  <2>1. Findable(run.show, p) \subseteq Shows
    BY <1>2 DEF Findable
  <2>2. QED
    BY <1>2, <1>3, <2>1 DEF ProbeAnswered
<1>5. /\ StoreInv' /\ known \subseteq known'
      /\ \A s \in Shows, q \in Providers : binding[s][q] # None => binding'[s][q] # None
      /\ \A s \in Shows \ {run.show} : binding'[s] = binding[s]
  <2>1. ASSUME NEW id \in Shows, Bind(run.show, p, id), Mintable(run.show, p, id)
        PROVE  /\ StoreInv' /\ known \subseteq known'
               /\ \A s \in Shows, q \in Providers : binding[s][q] # None => binding'[s][q] # None
               /\ \A s \in Shows \ {run.show} : binding'[s] = binding[s]
    <3>1. /\ binding' \in [Shows -> [Providers -> Shows \cup {None}]]
          /\ known' \subseteq Shows /\ absent' \in [Shows -> SUBSET Providers]
          /\ \A t \in Shows, q \in Providers : binding'[t][q] # None => t \in known'
      BY <1>1, <1>2, <2>1, BindGood
    <3>2. StoreInv' /\ known \subseteq known'
      BY <1>1, <1>4, <2>1, <3>1 DEF StoreInv, CacheHonest, Bind
    <3>3. binding \in [Shows -> [Providers -> Shows \cup {None}]]
      BY <1>1 DEF StoreInv
    <3>4. binding' = [t \in Shows |->
                        IF t = run.show THEN [binding[run.show] EXCEPT ![p] = id]
                        ELSE [binding[t] EXCEPT ![p] = IF @ = id THEN None ELSE @]]
      BY <2>1 DEF Bind
    <3>5. ASSUME NEW s \in Shows \ {run.show} PROVE binding'[s] = binding[s]
      <4>1. binding[s][p] # id
        BY <2>1 DEF Mintable
      <4>2. binding'[s] = [binding[s] EXCEPT ![p] = binding[s][p]]
        BY <3>4, <4>1
      <4>3. binding[s] \in [Providers -> Shows \cup {None}]
        BY <3>3
      <4>4. QED
        BY <4>2, <4>3
    <3>6. ASSUME NEW q \in Providers, binding[run.show][q] # None
          PROVE  binding'[run.show][q] # None
      BY <1>2, <3>3, <3>4, <3>6, ShowsAssumption
    <3>7. QED
      BY <3>2, <3>5, <3>6
  <2>2. CASE MarkAbsent(run.show, p)
    BY <1>1, <1>2, <1>4, <2>2 DEF StoreInv, MarkAbsent, CacheHonest
  <2>3. CASE UNCHANGED <<known, binding, absent>>
    BY <1>1, <1>4, <2>3 DEF StoreInv, CacheHonest
  <2>4. QED
    BY <1>4, <2>1, <2>2, <2>3
<1>6. SessionStep
  BY <1>1, <1>4, <1>5, BehindGood
<1>7. /\ run' \in ProbeRun \cup {None} /\ ~(run' # None /\ run'.inflight)
      /\ run.yielding => run' = None
  BY <1>2, <1>4 DEF AfterAnswer, ProbeRun
<1>8. RunInv'
  BY <1>1, <1>2, <1>4, <1>7 DEF RunInv, OneProbe, Rescuing
<1>9. StealsNothing /\ QuietRescue
  BY <1>4, <1>5 DEF StealsNothing, QuietRescue
<1>10. QED
  BY <1>6, <1>8, <1>9 DEF WarmStep, RunStep

LEMMA WarmTickGood == ASSUME WarmInv, WarmTick PROVE WarmStep
<1>1. Inv /\ RunInv /\ SessionInv /\ opened' \in BOOLEAN
  BY DEF WarmInv, Inv, RunInv, WarmTick
<1>2. SessionStep
  BY <1>1, PlayStepGood DEF WarmTick, Next
<1>3. Rescuing' => Rescuing
  <2>1. CASE Tick
    BY <1>1, <2>1, SettleNoRescue DEF Tick
  <2>2. CASE UNCHANGED vars
    BY <2>2 DEF vars, sessionVars, Rescuing
  <2>3. QED
    BY <2>1, <2>2 DEF WarmTick
<1>4. CASE UNCHANGED warmVars
  BY <1>1, <1>2, <1>3, <1>4, RunKept DEF WarmStep
<1>5. CASE NextProbe
  <2>1. /\ run \in ProbeRun /\ run # None /\ ~run.inflight /\ ~run.yielding
        /\ Spawned(run) \/ Exhausted(run)
        /\ UNCHANGED <<attempted, spaced>> /\ probes = {}
    BY <1>1, <1>5 DEF NextProbe, RunInv, OneProbe
  <2>2. run' \in ProbeRun \cup {None} /\ OneProbe(run', probes')
    BY <2>1, SpawnGood
  <2>3. ~Rescuing /\ ~Rescuing' /\ ~ProbeSettles
    BY <1>1, <1>3, <2>1 DEF RunInv, ProbeSettles
  <2>4. RunStep
    BY <1>1, <2>1, <2>2, <2>3 DEF RunInv, RunStep, StealsNothing, QuietRescue
  <2>5. QED
    BY <1>2, <2>4 DEF WarmStep
<1>6. QED
  BY <1>4, <1>5 DEF WarmTick

LEMMA PlanGood == ASSUME WarmInv, NEW s \in Shows, Plan(s) PROVE WarmStep
<1>1. Inv /\ RunInv /\ StoreInv
  BY DEF WarmInv, Inv, SessionInv
<1>2. /\ known' = known \cup {s} /\ said' = {}
      /\ UNCHANGED <<binding, absent, lastUsed, cache, track, shown, ses, inflight,
                     playVars, opened>>
      /\ Fire(s, active # None /\ ~opened)
  BY DEF Plan
<1>3. StoreInv'
  BY <1>1, <1>2 DEF StoreInv, CacheHonest
<1>4. SessionStep
  BY <1>1, <1>2, <1>3, BehindGood
<1>5. PICK resolving \in BOOLEAN : resolving = (active # None /\ ~opened)
  OBVIOUS
<1>6. RunStep
  BY <1>1, <1>2, <1>5, FireGood DEF RunInv
<1>7. QED
  BY <1>4, <1>6 DEF WarmStep

LEMMA FirstPositionGood == ASSUME WarmInv, FirstPosition PROVE WarmStep
<1>1. Inv /\ RunInv
  BY DEF WarmInv
<1>2. /\ active # None /\ opened' = TRUE /\ UNCHANGED vars
      /\ Fire(active.show, FALSE) \/ UNCHANGED warmVars
  BY DEF FirstPosition
<1>3. SessionStep
  BY <1>1, <1>2, PlayStepGood
<1>4. UNCHANGED ses /\ active.show \in Shows /\ (Rescuing' => Rescuing)
  BY <1>1, <1>2 DEF vars, sessionVars, Inv, PlayInv, Active, Rescuing
<1>5. RunStep
  BY <1>1, <1>2, <1>4, FireGood, RunKept
<1>6. QED
  BY <1>3, <1>5 DEF WarmStep

LEMMA WarmNextGood == WarmInv /\ [WarmNext]_allVars => WarmStep
<1> SUFFICES ASSUME WarmInv, [WarmNext]_allVars PROVE WarmStep
  OBVIOUS
<1>1. Inv /\ RunInv /\ opened \in BOOLEAN
  BY DEF WarmInv, RunInv
<1>2. ASSUME OpenedFollows PROVE opened' \in BOOLEAN
  BY <1>2 DEF OpenedFollows
<1>3. CASE WarmEpisodeEvent
  <2>1. SessionStep
    BY <1>1, <1>3, PlayStepGood DEF WarmEpisodeEvent, Next
  <2>2. RunStep
    BY <1>1, <1>2, <1>3, YieldGood DEF WarmEpisodeEvent
  <2>3. QED
    BY <2>1, <2>2 DEF WarmStep
<1>4. CASE WarmProviderFails
  <2>1. SessionStep
    BY <1>1, <1>4, PlayStepGood DEF WarmProviderFails, Next
  <2>2. RunStep
    BY <1>1, <1>2, <1>4, YieldGood DEF WarmProviderFails
  <2>3. QED
    BY <2>1, <2>2 DEF WarmStep
<1>5. CASE WarmTick
  BY <1>5, WarmTickGood
<1>6. CASE \E pr \in probes : ProbeAnswered(pr)
  BY <1>6, ProbeAnsweredGood
<1>7. CASE \E s \in Shows : Plan(s)
  BY <1>7, PlanGood
<1>8. CASE FirstPosition
  BY <1>8, FirstPositionGood
<1>9. CASE PlayRetries \/ UNCHANGED allVars \/ SpacingPasses
  <2>1. UNCHANGED <<vars, run, probes, attempted>> /\ opened' \in BOOLEAN /\ spaced' \in BOOLEAN
    BY <1>1, <1>9 DEF PlayRetries, SpacingPasses, allVars, warmVars, RunInv
  <2>2. SessionStep
    BY <1>1, <2>1, PlayStepGood
  <2>3. Rescuing' <=> Rescuing
    BY <2>1 DEF Rescuing, vars, sessionVars
  <2>4. RunStep
    BY <1>1, <2>1, <2>3 DEF RunInv, RunStep, StealsNothing, QuietRescue, ProbeSettles
  <2>5. QED
    BY <2>2, <2>4 DEF WarmStep
<1>10. CASE Elsewhere
  <2>1. Next
    BY <1>10 DEF Elsewhere, Next
  <2>2. SessionStep
    BY <1>1, <2>1, PlayStepGood
  <2>3. RunStep
    BY <1>1, <1>2, <1>10, ElsewhereNoRescue, RunKept DEF Elsewhere
  <2>4. QED
    BY <2>2, <2>3 DEF WarmStep
<1>11. QED
  BY <1>3, <1>4, <1>5, <1>6, <1>7, <1>8, <1>9, <1>10 DEF WarmNext

-----------------------------------------------------------------------------
(***************************************************************************)
(* The theorems                                                            *)
(***************************************************************************)

\* The invariant the theorems rest on.
THEOREM WarmInductive == WarmSpec => []WarmInv
<1>1. WarmInit => WarmInv
  <2> SUFFICES ASSUME WarmInit PROVE WarmInv
    OBVIOUS
  <2>1. Inv
    BY InitGood DEF WarmInit
  <2>2. attempted = << >> /\ ses.walk = None
    BY DEF WarmInit, Init, SessionInit, NoSession
  <2>3. attempted \in Seq(Shows) /\ Len(attempted) = 0
    BY <2>2
  <2>4. RingSlots \in Nat \ {0}
    BY RingAssumption
  <2>5. run = None /\ probes = {} /\ opened = FALSE /\ spaced = FALSE
    BY DEF WarmInit
  <2>6. OneProbe(run, probes)
    BY <2>5 DEF OneProbe
  <2>7. Len(attempted) <= RingSlots
    BY <2>3, <2>4
  <2>8. QED
    BY <2>1, <2>2, <2>3, <2>5, <2>6, <2>7 DEF WarmInv, RunInv, Rescuing
<1>2. WarmInv /\ [WarmNext]_allVars => WarmInv'
  BY WarmNextGood DEF WarmStep, SessionStep, RunStep, WarmInv
<1>3. QED
  BY <1>1, <1>2, PTL DEF WarmSpec

\* Every reachable state of the prewarm beside the sessions is well typed.
THEOREM WarmTypeCorrect == WarmSpec => []WarmTypeOK
<1>1. WarmInv => TypeOK
  BY DEF WarmInv, Inv, SessionInv, PlayInv, TypeOK, SessionTypeOK, StoreInv, GoodSession,
         GoodRequests
<1>2. WarmInv => probes \subseteq Probe
  <2> SUFFICES ASSUME WarmInv, NEW pr \in probes PROVE pr \in Probe
    OBVIOUS
  <2>1. PICK p \in Providers : pr = [show |-> run.show, provider |-> p, fresh |-> TRUE]
    BY DEF WarmInv, RunInv, OneProbe
  <2>2. run \in ProbeRun
    BY DEF WarmInv, RunInv, OneProbe
  <2>3. run.show \in Shows
    BY <2>2 DEF ProbeRun
  <2>4. QED
    BY <2>1, <2>3 DEF Probe
<1>3. WarmInv => WarmTypeOK
  BY <1>1, <1>2 DEF WarmInv, RunInv, WarmTypeOK
<1>4. QED
  BY WarmInductive, <1>3, PTL

\* Probes run one at a time and their answers find their run, none takes a binding
\* from another show, and while a walk routes round a failed provider none is started.
THEOREM ProbesAreSafe == WarmSpec => WarmSafe
<1>1. WarmInv => SingleFlight
  <2> SUFFICES ASSUME WarmInv PROVE SingleFlight
    OBVIOUS
  <2>1. OneProbe(run, probes)
    BY DEF WarmInv, RunInv
  <2>2. CASE probes = {}
    <3>1. Cardinality(probes) = 0 /\ ~(run # None /\ run.inflight)
      BY <2>1, <2>2, FS_EmptySet DEF OneProbe
    <3>2. QED
      BY <2>2, <3>1 DEF SingleFlight
  <2>3. CASE probes # {}
    <3>1. PICK p \in Providers : probes = {[show |-> run.show, provider |-> p, fresh |-> TRUE]}
      BY <2>1, <2>3 DEF OneProbe
    <3>2. Cardinality(probes) = 1
      BY <3>1, FS_Singleton
    <3>3. run # None /\ run.inflight
      BY <2>1, <2>3 DEF OneProbe
    <3>4. QED
      BY <2>3, <3>1, <3>2, <3>3 DEF SingleFlight
  <2>4. QED
    BY <2>2, <2>3
<1>2. WarmInv /\ [WarmNext]_allVars =>
         /\ [ProbeSettles => \A s \in Shows \ {run.show} : binding'[s] = binding[s]]_allVars
         /\ [Rescuing => probes' \subseteq probes]_allVars
  BY WarmNextGood DEF WarmStep, RunStep, StealsNothing, QuietRescue
<1>3. QED
  BY WarmInductive, <1>1, <1>2, PTL DEF WarmSpec, WarmSafe, NeverSteals, RescueOwnsNetwork

\* The bindings and absences a probe writes behind the session's back leave the
\* spinner, the grid and the cache true.
THEOREM WarmKeepsSurface == WarmSpec => [](SpinnerHonest /\ GridHonest /\ CacheHonest)
<1>1. WarmInv => SpinnerHonest /\ GridHonest /\ CacheHonest
  BY DEF WarmInv, Inv, SessionInv, StoreInv, GoodSession, GoodRequests, SpinnerHonest, GridHonest
<1>2. QED
  BY WarmInductive, <1>1, PTL

\* With two panes, the grid keeps its binding and the record of who serves it too.
THEOREM WarmKeepsGrid == ASSUME ~Narrow PROVE WarmSpec => [](GridTrue /\ ServingRemembered)
<1>1. WarmInv => GridTrue /\ ServingRemembered
  BY DEF WarmInv, Inv, SessionInv, StoreInv, GoodSession, GridHonest, WideGrid, GridTrue,
         GridBound, ServingRemembered
<1>2. QED
  BY WarmInductive, <1>1, PTL

\* And a play keeps its continuation, its row and its one shot per provider.
THEOREM WarmKeepsPlays == WarmSpec => PlayHonest
<1>1. WarmInv => ContinuedPlay /\ PlayRowKept
  BY DEF WarmInv, Inv, PlayInv
<1>2. WarmInv /\ [WarmNext]_allVars => [Relaunched => active'.provider \notin shots]_vars
  BY WarmNextGood DEF WarmStep, SessionStep, OneShotStep
<1>3. QED
  BY WarmInductive, <1>1, <1>2, PTL DEF WarmSpec, PlayHonest, OneShot

\* While the OS grants threads, a walk still waits for an answer or ends aloud, asks
\* every binding before a dead end, and implements WalkPromise.
THEOREM WarmKeepsWalks ==
    ASSUME ~MaySpawnFail PROVE WarmSpec => WalkSpeaks /\ BindingsAsked /\ KeepsPromise
<1>1. WarmInit => Promise!PromiseInit
  BY DEF WarmInit, Init, SessionInit, NoSession, Promise!PromiseInit
<1>2. WarmInv => WalkAnswered
  BY DEF WarmInv, Inv, SessionInv
<1>3. WarmInv /\ [WarmNext]_allVars =>
         [WalkEndsAloud]_sessionVars /\ [AskedFirst]_sessionVars /\ Promised
  BY WarmNextGood DEF WarmStep, SessionStep, Promised, sessionVars
<1>4. QED
  BY WarmInductive, <1>1, <1>2, <1>3, PTL
     DEF WarmSpec, WalkSpeaks, NeverSilent, BindingsAsked, AskedFirst, KeepsPromise,
         Promise!PromiseSpec, Promised
=============================================================================
