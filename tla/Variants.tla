------------------------------ MODULE Variants ------------------------------
(***************************************************************************)
(* The master playlist and the quality cap (src/providers/hls.rs): which   *)
(* variant a player is handed.  A playlist grows line by line and changes  *)
(* its order, as masters of different hosts do.                            *)
(***************************************************************************)
EXTENDS Integers, Sequences, FiniteSets, FiniteSetsExt, Functions

CONSTANTS
    Heights,   \* vertical resolutions a STREAM-INF may state
    Caps,      \* the pixels of the rungs of Quality
    MaxLines   \* bound of the run: lines of a playlist

ASSUME VariantsAssumption ==
    Heights \subseteq Nat \ {0} /\ Caps \subseteq Nat \ {0} /\ MaxLines \in Nat

VARIABLES
    lines,     \* the playlist
    quality,   \* the setting
    played     \* the variant picked, Stream without one

variantVars == <<lines, quality, played>>

NoHeight == 0

\* A STREAM-INF with or without RESOLUTION, a uri, anything else.
Inf(h) == [kind |-> "inf", height |-> h]
Uri(n) == [kind |-> "uri", name |-> n]
Other == [kind |-> "other"]

Variant(n, h) == [url |-> n, height |-> h]

\* No variant: the playlist is a media playlist, one stream.
Stream == Variant(0, NoHeight)

NoPending == -1

\* parse_master_playlist, one line: a uri takes the STREAM-INF that is pending.
ReadLine(line, acc) ==
    CASE line.kind = "inf" -> [acc EXCEPT !.pending = line.height]
      [] line.kind = "uri" /\ acc.pending # NoPending ->
            [pending |-> NoPending, found |-> Append(acc.found, Variant(line.name, acc.pending))]
      [] OTHER -> acc

NothingRead == [pending |-> NoPending, found |-> <<>>]

\* What is read of the first n lines.
Reading(ls) ==
    LET read[n \in 0 .. Len(ls)] == IF n = 0 THEN NothingRead ELSE ReadLine(ls[n], read[n - 1])
    IN  read

ParseMaster(ls) == Reading(ls)[Len(ls)].found

\* Quality: a rung is its cap, the other two have none.
Best == 0
Worst == -1
Qualities == {Best, Worst} \cup Caps

\* quality_rank: within the cap the highest, over it the lowest.
Rank(h, cap) == IF h <= cap THEN h ELSE -h

\* Mutated form: an unknown resolution counts as zero, in every budget.
PreferredZero(a, b, q) ==
    CASE q = Worst -> a.height < b.height
      [] q = Best -> a.height > b.height
      [] q \in Caps -> Rank(a.height, q) > Rank(b.height, q)

\* preferred: a known resolution beats an unknown one.
Preferred(a, b, q) ==
    /\ a.height # NoHeight
    /\ \/ b.height = NoHeight
       \/ CASE q = Worst -> a.height < b.height
            [] q = Best -> a.height > b.height
            [] q \in Caps -> Rank(a.height, q) > Rank(b.height, q)

\* The pick among the first n variants.
Picking(vs, q) ==
    LET pick[n \in 0 .. Len(vs)] ==
            IF n = 0 THEN Stream
            ELSE IF n = 1 \/ Preferred(vs[n], pick[n - 1], q) THEN vs[n] ELSE pick[n - 1]
    IN  pick

\* select_variant
Select(vs, q) == Picking(vs, q)[Len(vs)]

-----------------------------------------------------------------------------
VariantsTypeOK ==
    /\ Len(lines) <= MaxLines /\ quality \in Qualities
    /\ played.height \in Heights \cup {NoHeight}

VariantsInit == lines = <<>> /\ quality \in Qualities /\ played = Stream

Fetched(ls) == lines' = ls /\ played' = Select(ParseMaster(ls), quality) /\ UNCHANGED quality

\* The names of the uris are their places: no two are alike.
Lengthens ==
    /\ Len(lines) < MaxLines
    /\ \E line \in {Inf(h) : h \in Heights \cup {NoHeight}} \cup {Uri(Len(lines) + 1), Other} :
          Fetched(Append(lines, line))

\* The host lists its variants in another order.
Reorders == \E i \in 1 .. Len(lines) - 3 :
    /\ lines[i].kind = "inf" /\ lines[i + 1].kind = "uri"
    /\ lines[i + 2].kind = "inf" /\ lines[i + 3].kind = "uri"
    /\ Fetched([lines EXCEPT ![i] = lines[i + 2], ![i + 1] = lines[i + 3],
                             ![i + 2] = lines[i], ![i + 3] = lines[i + 1]])

VariantsNext == Lengthens \/ Reorders

VariantsSpec == VariantsInit /\ [][VariantsNext]_variantVars

-----------------------------------------------------------------------------
ReadVariants == Range(ParseMaster(lines))
Known == {v.height : v \in ReadVariants} \ {NoHeight}
InBudget == {h \in Known : quality \in {Best, Worst} \/ h <= quality}

\* The cap in one sentence of its own: the highest within it, the lowest of all if
\* none is (or if the worst is asked for), and an unknown height only when no
\* height is known (the landmine of preferred).
CapHonoured ==
    played.height =
        IF Known = {} THEN NoHeight
        ELSE IF quality = Worst \/ InBudget = {} THEN Min(Known) ELSE Max(InBudget)

\* What plays is a uri of the list, under the STREAM-INF that stands for it: the
\* last one before it, with no uri between.
OwnHeight ==
    played # Stream =>
        \E i, at \in DOMAIN lines :
            /\ i < at /\ lines[at] = Uri(played.url) /\ lines[i] = Inf(played.height)
            /\ \A j \in i + 1 .. at - 1 : lines[j].kind \notin {"inf", "uri"}

\* One more line replaces the pick by the new variant or leaves it alone.
PickStable ==
    [][Len(lines') > Len(lines) =>
          played' = played \/ played'.url = Len(lines')]_variantVars

\* The height that plays does not depend on the order of the list.
OrderIdle == [][Len(lines') = Len(lines) => played'.height = played.height]_variantVars

\* The four together.
VariantsSound == [](CapHonoured /\ OwnHeight) /\ PickStable /\ OrderIdle
=============================================================================
