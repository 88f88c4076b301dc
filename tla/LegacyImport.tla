---------------------------- MODULE LegacyImport ----------------------------
(***************************************************************************)
(* Bringing over the library of the predecessor program (src/zimport.rs    *)
(* and Store::import_legacy in src/store.rs): the offer at a launch, the   *)
(* fold of its sibling rows into one show each, and the one transaction    *)
(* that lands what is absent, while the library is used by a second        *)
(* process and any launch may die.                                         *)
(***************************************************************************)
EXTENDS Integers, FiniteSets, Sequences, SequencesExt

CONSTANTS
    MaxLegacyId,   \* bound of the run: AniList ids
    Sources,       \* providers of the predecessor, with ZigUnbound among them
    ZigRows,       \* rows its tables may hold
    MaxZigRows,
    MaxAnswers,    \* MAX_ANSWER_ATTEMPTS
    MaxStarts      \* launches of the run

ZigUnbound == "unbound"

LegacyIds == 1 .. MaxLegacyId

\* An anime row: seen is last_watched_at, -1 where it is NULL; listing is the id
\* the source knows the show by.
ZigRow == [id : LegacyIds, source : Sources, listing : LegacyIds,
           status : {"planning", "watching"}, seen : {-1, 1},
           progress : Nat, visible : BOOLEAN]

ASSUME LegacyAssumption ==
    /\ MaxLegacyId \in Nat /\ MaxZigRows \in Nat /\ MaxAnswers \in Nat /\ MaxStarts \in Nat
    /\ ZigRows \subseteq ZigRow

ZigProviders == Sources \ {ZigUnbound}

VARIABLES
    zig,       \* its anime table, in rowid order
    pins,      \* its provider_pins
    offer,     \* the launch: "off", "asking", "landing" or "burning"
    answers,   \* prompts this launch may still repeat
    starts,
    held,      \* held[s]: kind "absent", "identity" or "member", status and progress
    zigBound,  \* zigBound[s][p]: the listing, or 0
    zigLastUse, \* zigLastUse[s], or "none"
    burned     \* PROMPT_FLAG

legacyVars == <<zig, pins, offer, answers, starts, held, zigBound, zigLastUse, burned>>

LegacyRow(k, st, pr) == [kind |-> k, status |-> st, progress |-> pr]
NoRow == LegacyRow("absent", "none", 0)
BareIdentity == LegacyRow("identity", "none", 0)

Membered(s) == held[s].kind = "member"

LegacyTypeOK ==
    /\ zig \in Seq(ZigRows) /\ Len(zig) <= MaxZigRows
    /\ offer \in {"off", "asking", "landing", "burning"}
    /\ answers \in 0 .. MaxAnswers /\ starts \in 0 .. MaxStarts
    /\ \A s \in LegacyIds :
          \/ held[s] \in {NoRow, BareIdentity}
          \/ Membered(s) /\ held[s].status \in {"planning", "watching", "own"} /\ held[s].progress \in Nat
    /\ zigBound \in [LegacyIds -> [ZigProviders -> LegacyIds \cup {0}]]
    /\ zigLastUse \in [LegacyIds -> ZigProviders \cup {"none"}]
    /\ burned \in BOOLEAN

NoZigBindings == [p \in ZigProviders |-> 0]

LegacyInit ==
    /\ zig \in SeqOf(ZigRows, MaxZigRows)
    /\ pins \in [LegacyIds -> ZigProviders \cup {"none"}]
    /\ offer = "off" /\ answers = 0 /\ starts = 0
    /\ held = [s \in LegacyIds |-> NoRow]
    /\ zigBound = [s \in LegacyIds |-> NoZigBindings]
    /\ zigLastUse = [s \in LegacyIds |-> "none"]
    /\ burned = FALSE

-----------------------------------------------------------------------------
(***************************************************************************)
(* extract: sibling rows of one id fold into one show.                     *)
(***************************************************************************)
SiblingRank(r) == <<r.seen, r.progress>>

\* Below every row's.
NoRank == <<-2, 0>>

\* Mutated form: the first sibling donates.
RankAtLeastFirst(a, b) == b = NoRank

\* Lexicographic, ties to the later row.
RankAtLeast(a, b) == a[1] > b[1] \/ (a[1] = b[1] /\ a[2] >= b[2])

LargerOf(a, b) == IF a >= b THEN a ELSE b

\* An id without an entry: the first of its rows outranks it.
NoShow == [status |-> "none", best |-> NoRank, progress |-> 0, visible |-> FALSE, bindings |-> {}]

ZigBindings(r) == IF r.source = ZigUnbound THEN {} ELSE {<<r.source, r.listing>>}

FoldedSibling(sum, r) ==
    LET wins == RankAtLeast(SiblingRank(r), sum.best)
    IN  [status |-> IF wins THEN r.status ELSE sum.status,
         best |-> IF wins THEN SiblingRank(r) ELSE sum.best,
         progress |-> LargerOf(sum.progress, r.progress),
         visible |-> sum.visible \/ r.visible,
         bindings |-> sum.bindings \cup ZigBindings(r)]

\* The entry of id s after the first n rows, in their order.
Folding(rows, s) ==
    LET sum[n \in 0 .. Len(rows)] ==
            IF n = 0 THEN NoShow
            ELSE IF rows[n].id = s THEN FoldedSibling(sum[n - 1], rows[n]) ELSE sum[n - 1]
    IN  sum

FoldSiblings(rows, s) == Folding(rows, s)[Len(rows)]

\* Only a show with a visible sibling is tracked.
Tracked(rows) == {s \in LegacyIds : FoldSiblings(rows, s).visible}

-----------------------------------------------------------------------------
(***************************************************************************)
(* import_legacy.                                                          *)
(***************************************************************************)

\* Mutated form: a binding is taken over from its owner.
FreePairAlways(b, s, pair) == TRUE

\* UNIQUE(provider, provider_id) and the key (show, provider): OR IGNORE.
FreePair(b, s, pair) ==
    /\ b[s][pair[1]] = 0
    /\ \A t \in LegacyIds : b[t][pair[1]] # pair[2]

\* The bindings of one show land one by one, in any order the rows had.
LandedPairs(b, s, pairs) ==
    {c \in [LegacyIds -> [ZigProviders -> LegacyIds \cup {0}]] :
        /\ \A t \in LegacyIds \ {s} : c[t] = b[t]
        /\ \A p \in ZigProviders :
              LET free == {q \in pairs : q[1] = p /\ FreePair(b, s, q)}
              IN  IF free = {} THEN c[s][p] = b[s][p] ELSE <<p, c[s][p]>> \in free}

\* Mutated form: a member's state is overwritten.
SkippedNone == {}

\* A show in the library is skipped whole.
Skipped == {s \in LegacyIds : Membered(s)}

ImportedState(e) == LegacyRow("member", e.status, e.progress)

\* Mutated form: a pin is seeded whether its binding landed or not.
SeedsPinAny(b, s) == zigLastUse[s] = "none" /\ pins[s] # "none"

\* The pin seeds the last-used provider, of a binding that landed.
SeedsPin(b, s) == /\ zigLastUse[s] = "none" /\ pins[s] # "none"
                  /\ b[s][pins[s]] # 0

\* The bindings there may be once the shows up to id n have landed, by ascending id.
Landing(rows, todo, bound) ==
    LET may[n \in 0 .. MaxLegacyId] ==
            IF n = 0 THEN {bound}
            ELSE IF n \in todo THEN UNION {LandedPairs(b, n, FoldSiblings(rows, n).bindings) : b \in may[n - 1]}
            ELSE may[n - 1]
    IN  may

LandLegacy(rows) ==
    LET todo == Tracked(rows) \ Skipped
    IN  /\ held' = [s \in LegacyIds |-> IF s \in todo THEN ImportedState(FoldSiblings(rows, s)) ELSE held[s]]
        /\ zigBound' \in Landing(rows, todo, zigBound)[MaxLegacyId]
        /\ zigLastUse' = [s \in LegacyIds |->
              IF s \in todo /\ SeedsPin(zigBound', s) THEN pins[s] ELSE zigLastUse[s]]

-----------------------------------------------------------------------------
(***************************************************************************)
(* The offer at a launch.                                                  *)
(***************************************************************************)

\* Mutated form: an inclusive count.
AttemptsInclusive == MaxAnswers + 1

\* read_consent: how often an answer is asked for.
Attempts == MaxAnswers

\* maybe_run, gate: no offer without a library of the last schema, a terminal
\* and an unburned flag; an empty library burns nothing.
LegacyLaunch ==
    /\ offer = "off" /\ starts < MaxStarts
    /\ starts' = starts + 1
    /\ IF burned \/ zig = <<>>
       THEN UNCHANGED <<offer, answers>>
       ELSE offer' = "asking" /\ answers' = Attempts
    /\ UNCHANGED <<zig, pins, held, zigBound, zigLastUse, burned>>

\* read_consent: neither yes nor no.
Mumbles ==
    /\ offer = "asking"
    /\ answers' = IF answers > 0 THEN answers - 1 ELSE 0
    /\ offer' = IF answers' = 0 THEN "off" ELSE "asking"
    /\ UNCHANGED <<zig, pins, starts, held, zigBound, zigLastUse, burned>>

\* EOF, a flood, or a library that cannot be read: the offer stays open.
NoAnswer ==
    /\ offer \in {"asking", "landing"}
    /\ offer' = "off"
    /\ UNCHANGED <<zig, pins, answers, starts, held, zigBound, zigLastUse, burned>>

SaysNo ==
    /\ offer = "asking"
    /\ offer' = "burning"
    /\ UNCHANGED <<zig, pins, answers, starts, held, zigBound, zigLastUse, burned>>

\* extract reads now, the other program may write until then.
SaysYes ==
    /\ offer = "asking"
    /\ offer' = "landing"
    /\ UNCHANGED <<zig, pins, answers, starts, held, zigBound, zigLastUse, burned>>

LegacyImports ==
    /\ offer = "landing"
    /\ LandLegacy(zig)
    /\ offer' = "burning"
    /\ UNCHANGED <<zig, pins, answers, starts, burned>>

\* Mutated form: the flag is burned with the prompt.
LegacyFailsBurns ==
    /\ offer = "landing"
    /\ offer' = "burning"
    /\ UNCHANGED <<zig, pins, answers, starts, held, zigBound, zigLastUse, burned>>

\* A write that fails changes nothing and leaves the offer open.
LegacyFails ==
    /\ offer = "landing"
    /\ offer' = "off"
    /\ UNCHANGED <<zig, pins, answers, starts, held, zigBound, zigLastUse, burned>>

\* finish: the flag is written, unless the write or the process fails first.
BurnsFlag ==
    /\ offer = "burning"
    /\ burned' = TRUE
    /\ offer' = "off"
    /\ UNCHANGED <<zig, pins, answers, starts, held, zigBound, zigLastUse>>

LegacyDies ==
    /\ offer # "off"
    /\ offer' = "off"
    /\ UNCHANGED <<zig, pins, answers, starts, held, zigBound, zigLastUse, burned>>

\* The library in use: a show is bound while it is looked at, added, removed.
LibraryUsed(s) ==
    /\ starts < MaxStarts \/ offer # "off"
    /\ \/ /\ held[s] = NoRow
          /\ \E p \in ZigProviders :
                /\ \A t \in LegacyIds : zigBound[t][p] # s
                /\ zigBound' = [zigBound EXCEPT ![s][p] = s]
          /\ held' = [held EXCEPT ![s] = BareIdentity]
          /\ UNCHANGED zigLastUse
       \/ /\ ~Membered(s)
          /\ held' = [held EXCEPT ![s] = LegacyRow("member", "own", 0)]
          /\ UNCHANGED <<zigBound, zigLastUse>>
       \/ /\ Membered(s)
          /\ held' = [held EXCEPT ![s] = NoRow]
          /\ zigBound' = [zigBound EXCEPT ![s] = NoZigBindings]
          /\ zigLastUse' = [zigLastUse EXCEPT ![s] = "none"]
    /\ UNCHANGED <<zig, pins, offer, answers, starts, burned>>

LegacyNext ==
    \/ LegacyLaunch \/ Mumbles \/ NoAnswer \/ SaysNo \/ SaysYes
    \/ LegacyImports \/ LegacyFails \/ BurnsFlag \/ LegacyDies
    \/ \E s \in LegacyIds : LibraryUsed(s)

LegacySpec == LegacyInit /\ [][LegacyNext]_legacyVars

-----------------------------------------------------------------------------
(***************************************************************************)
(* Properties.                                                             *)
(***************************************************************************)
RowsOf(s) == {zig[i] : i \in {j \in DOMAIN zig : zig[j].id = s}}

\* The fold against its reference: the status of a freshest sibling, the largest
\* progress, every real binding and nothing of an untracked group.
FoldHonest ==
    /\ Tracked(zig) = {s \in LegacyIds : \E r \in RowsOf(s) : r.visible}
    /\ \A s \in Tracked(zig) :
        LET e == FoldSiblings(zig, s)
        IN  /\ \E r \in RowsOf(s) :
                  /\ r.status = e.status
                  /\ \A q \in RowsOf(s) : r.seen > q.seen \/ (r.seen = q.seen /\ r.progress >= q.progress)
            /\ \A r \in RowsOf(s) : r.progress <= e.progress
            /\ \E r \in RowsOf(s) : r.progress = e.progress
            /\ e.bindings = {<<r.source, r.listing>> : r \in {q \in RowsOf(s) : q.source \in ZigProviders}}

\* A listing belongs to one show, however the two libraries overlap.
OneOwnerImported ==
    \A p \in ZigProviders, s, t \in LegacyIds :
        s # t /\ zigBound[s][p] # 0 => zigBound[s][p] # zigBound[t][p]

\* A last-used provider is one the show is zigBound to (the rule of the V3 seed).
PinsServe == \A s \in LegacyIds : zigLastUse[s] # "none" => zigBound[s][zigLastUse[s]] # 0

\* An import changes no show that is in the library, and no binding but of shows
\* it brings over: never half an import.
ImportSparesMembers ==
    [][offer = "landing" /\ offer' = "burning" =>
          \A s \in LegacyIds : Membered(s) \/ s \notin Tracked(zig) =>
              held'[s] = held[s] /\ zigBound'[s] = zigBound[s] /\ zigLastUse'[s] = zigLastUse[s]]_legacyVars

\* The offer is closed by a no or by an import that has brought over everything
\* tracked: a failed one is made again at the next launch.
OfferKept ==
    [][offer = "landing" /\ offer' = "burning" =>
          \A s \in Tracked(zig) : held'[s].kind = "member"]_legacyVars

\* The import brings over what the old library says, once, and leaves the rest of
\* the library as it was (zimport.rs, Store::import_legacy).
ImportHonest ==
    /\ [](FoldHonest /\ OneOwnerImported /\ PinsServe)
    /\ ImportSparesMembers /\ OfferKept
=============================================================================
