-------------------------------- MODULE Walk --------------------------------
(***************************************************************************)
(* Provider order and the provider walk (src/resolve.rs), as pure          *)
(* operators.  A world `w` is what the engine reads about one show:        *)
(*    bound   providers with a binding      keyed  providers whose id is   *)
(*    absent  fresh not-stocked answers            derived from the show   *)
(*    last    the provider that last served the show, or None              *)
(* A walk is a snapshot of the provider order with a cursor; `tried` is    *)
(* the skip mask.                                                          *)
(***************************************************************************)
EXTENDS Naturals, Sequences, FiniteSetsExt

CONSTANTS
    None,
    Registry,   \* the providers in construction order
    GlobalPref  \* configured preference; None when unset or not registered

Providers == {Registry[i] : i \in DOMAIN Registry}

ASSUME RegistryAssumption ==
    /\ Registry \in Seq(Providers) /\ Len(Registry) > 0
    /\ \A i, j \in DOMAIN Registry : Registry[i] = Registry[j] => i = j
    /\ None \notin Providers
ASSUME PrefAssumption == GlobalPref \in Providers \cup {None}

\* A registered provider's place in construction order.
PositionOf(p) == CHOOSE i \in DOMAIN Registry : Registry[i] = p

\* ProviderRegistry::ordered: the preferred provider first, the rest as built.
Ordered(pref) ==
    IF pref = None THEN Registry
    ELSE [i \in DOMAIN Registry |-> IF i = 1 THEN pref
                                   ELSE IF i <= PositionOf(pref) THEN Registry[i - 1]
                                   ELSE Registry[i]]

Preference(w) == IF w.last # None THEN w.last ELSE GlobalPref

\* The head of the order when nothing is remembered.
WalkHead == IF GlobalPref = None THEN Registry[1] ELSE GlobalPref

\* Mutated form: the first provider with either, whatever its tier.
ClassifyProviderMajor(w) ==
    LET order == Ordered(Preference(w))
        known == {i \in DOMAIN order : order[i] \in w.bound \cup w.keyed}
        p == order[Min(known)]
    IN  IF known = {} THEN [tier |-> "search", provider |-> None]
        ELSE [tier |-> IF p \in w.bound THEN "bound" ELSE "key", provider |-> p]

\* Opening a show: any binding beats any key, and a key beats a search.
ClassifyOpen(w) ==
    LET order == Ordered(Preference(w))
        First(S) == order[Min({i \in DOMAIN order : order[i] \in S})]
    IN  CASE w.bound # {} -> [tier |-> "bound", provider |-> First(w.bound)]
          [] w.bound = {} /\ w.keyed # {} -> [tier |-> "key", provider |-> First(w.keyed)]
          [] OTHER -> [tier |-> "search", provider |-> None]

-----------------------------------------------------------------------------
WalkRecord == [order : Seq(Providers), origin : {"manual", "auto"},
               tried : SUBSET Providers, next : Nat]

ASSUME WalkAssumption == None \notin WalkRecord

\* The registry as a circle; k has gone round it once at most.
Circle(k) == Registry[IF k > Len(Registry) THEN k - Len(Registry) ELSE k]

\* The provider after p on the registry circle.
After(p) == Circle(PositionOf(p) + 1)

\* The whole circle, rotated so that the aimed provider is hop one.
ManualWalk(target) ==
    [order  |-> [i \in DOMAIN Registry |-> Circle(PositionOf(target) + i - 1)],
     origin |-> "manual", tried |-> {}, next |-> 1]

\* The preference order from its head, less the providers known to have failed.
AutoWalk(w, tried) ==
    [order |-> Ordered(Preference(w)), origin |-> "auto", tried |-> tried, next |-> 1]

\* Mutated form: a fresh absence hides a binding.
HopsAbsenceFirst(w, walk) ==
    {i \in walk.next .. Len(walk.order) :
        LET p == walk.order[i]
        IN  /\ p \notin walk.tried
            /\ \/ walk.origin = "manual" /\ i = 1
               \/ p \notin w.absent}

\* The hops a walk may still make: a binding always, a fresh absence only on
\* the hop the user aimed at.
Hops(w, walk) ==
    {i \in walk.next .. Len(walk.order) :
        LET p == walk.order[i]
        IN  /\ p \notin walk.tried
            /\ \/ p \in w.bound
               \/ walk.origin = "manual" /\ i = 1
               \/ p \notin w.absent}

\* Mutated form: it stays on it.
SteppedNot(walk, i) == [walk EXCEPT !.next = i]

\* The cursor moves past the hop it takes.
Stepped(walk, i) == [walk EXCEPT !.next = i + 1]

\* The providers a walk has still to ask.
Ahead(walk) == {walk.order[i] : i \in walk.next .. Len(walk.order)} \ walk.tried
=============================================================================
