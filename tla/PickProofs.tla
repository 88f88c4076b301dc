----------------------------- MODULE PickProofs -----------------------------
(***************************************************************************)
(* The pure rules of the data (MCData): the rendition of a playlist that   *)
(* is played, the cells and labels of a listing, the hit of a search that  *)
(* is bound, and time.  Each part is proved for every list, playlist and   *)
(* day; the last theorems carry them to the program of MCData.             *)
(***************************************************************************)
EXTENDS MCData, DataProofs, Induction, TLAPS

-----------------------------------------------------------------------------
(***************************************************************************)
(* Renditions: what a playlist lists, and the one that is played (Variants).*)
(***************************************************************************)
\* Lines of a playlist.
Lines == {Inf(h) : h \in Heights \cup {NoHeight}} \cup {Uri(n) : n \in Nat} \cup {Other}

Streams == {Variant(n, h) : n \in Nat, h \in Heights \cup {NoHeight}}

Readings == [pending : Heights \cup {NoHeight, NoPending}, found : Seq(Streams)]

LEMMA LineTyped ==
    ASSUME NEW line \in Lines
    PROVE  /\ line.kind \in {"inf", "uri", "other"}
           /\ line.kind = "inf" => line.height \in Heights \cup {NoHeight} /\ line = Inf(line.height)
           /\ line.kind = "uri" => line.name \in Nat /\ line = Uri(line.name)
  BY DEF Lines, Inf, Uri, Other

LEMMA VariantTyped ==
    ASSUME NEW n, NEW h
    PROVE  /\ Variant(n, h).url = n /\ Variant(n, h).height = h
           /\ n \in Nat /\ h \in Heights \cup {NoHeight} => Variant(n, h) \in Streams
  <1>1. Variant(n, h).url = n /\ Variant(n, h).height = h
    BY DEF Variant
  <1>2. n \in Nat /\ h \in Heights \cup {NoHeight} => Variant(n, h) \in Streams
    BY DEF Streams
  <1> QED
    BY <1>1, <1>2

LEMMA StreamIs ==
    Stream \in Streams /\ Stream.height = NoHeight
  <1>1. 0 \in Nat /\ NoHeight \in Heights \cup {NoHeight}
    OBVIOUS
  <1> QED
    BY <1>1, VariantTyped DEF Stream

LEMMA StreamTyped ==
    ASSUME NEW v \in Streams
    PROVE  /\ v.url \in Nat /\ v.height \in Heights \cup {NoHeight} /\ v = Variant(v.url, v.height)
           /\ v.height \in Nat
  <1>1. PICK n \in Nat, h \in Heights \cup {NoHeight} : v = Variant(n, h)
    BY DEF Streams
  <1>2. v.url = n /\ v.height = h
    BY <1>1, VariantTyped
  <1>3. h \in Nat
    BY VariantsAssumption DEF NoHeight
  <1> QED
    BY <1>1, <1>2, <1>3

LEMMA ReadTyped ==
    ASSUME NEW line \in Lines, NEW acc \in Readings
    PROVE  ReadLine(line, acc) \in Readings
  <1>1. acc.pending \in Heights \cup {NoHeight, NoPending} /\ acc.found \in Seq(Streams)
    BY DEF Readings
  <1>2. CASE line.kind = "inf"
    <2>1. ReadLine(line, acc) = [acc EXCEPT !.pending = line.height]
      BY <1>2 DEF ReadLine
    <2> QED
      BY <1>1, <1>2, <2>1, LineTyped DEF Readings
  <1>3. CASE line.kind = "uri" /\ acc.pending # NoPending
    <2>1. ReadLine(line, acc) = [pending |-> NoPending, found |-> Append(acc.found, Variant(line.name, acc.pending))]
      BY <1>3 DEF ReadLine
    <2> DEFINE v == Variant(line.name, acc.pending)
    <2>2. v \in Streams
      BY <1>1, <1>3, LineTyped, VariantTyped
    <2> HIDE DEF v
    <2>3. Append(acc.found, v) \in Seq(Streams)
      BY <1>1, <2>2
    <2> QED
      BY <2>1, <2>3 DEF Readings, v
  <1>4. CASE line.kind # "inf" /\ ~(line.kind = "uri" /\ acc.pending # NoPending)
    BY <1>4 DEF ReadLine
  <1> QED
    BY <1>2, <1>3, <1>4

\* A playlist is read line by line.
LEMMA ReadsStepwise ==
    ASSUME NEW ls \in Seq(Lines)
    PROVE  /\ Reading(ls) \in [0 .. Len(ls) -> Readings]
           /\ Reading(ls)[0] = NothingRead
           /\ \A n \in 1 .. Len(ls) : Reading(ls)[n] = ReadLine(ls[n], Reading(ls)[n - 1])
  <1> DEFINE N == Len(ls)
             step == [n \in 1 .. N |-> [acc \in Readings |-> ReadLine(ls[n], acc)]]
  <1>1. N \in Nat /\ \A n \in 1 .. N : ls[n] \in Lines
    OBVIOUS
  <1>2. NothingRead \in Readings
    BY DEF NothingRead, Readings
  <1>3. step \in StepFunctions(N, Readings)
    BY <1>1, ReadTyped DEF StepFunctions
  <1>4. \A n \in 1 .. N, acc \in Readings : step[n][acc] = ReadLine(ls[n], acc)
    OBVIOUS
  <1> HIDE DEF step, N
  <1>5. PICK f \in [0 .. N -> Readings] : MadeUpTo(N, f, NothingRead, step)
    BY <1>1, <1>2, <1>3, Recursion
  <1>6. ASSUME NEW n \in 0 .. N
        PROVE  (IF n = 0 THEN NothingRead ELSE step[n][f[n - 1]])
                  = (IF n = 0 THEN NothingRead ELSE ReadLine(ls[n], f[n - 1]))
    <2>1. CASE n # 0
      <3>1. n \in 1 .. N /\ n - 1 \in 0 .. N
        BY <1>1, <2>1
      <3>2. f[n - 1] \in Readings
        BY <3>1
      <3> QED
        BY <1>4, <2>1, <3>1, <3>2
    <2> QED
      BY <2>1
  <1>7. f = [n \in 0 .. N |-> IF n = 0 THEN NothingRead ELSE ReadLine(ls[n], f[n - 1])]
    BY <1>5, <1>6 DEF MadeUpTo
  <1> DEFINE Reads(g) == g = [n \in 0 .. N |-> IF n = 0 THEN NothingRead ELSE ReadLine(ls[n], g[n - 1])]
  <1>8. Reading(ls) = CHOOSE g : Reads(g)
    BY DEF Reading, N
  <1>9. Reads(f)
    BY <1>7
  <1> HIDE DEF Reads
  <1>10. Reads(Reading(ls))
    BY <1>8, <1>9
  <1> DEFINE read == Reading(ls)
  <1>11. read = [n \in 0 .. N |-> IF n = 0 THEN NothingRead ELSE ReadLine(ls[n], read[n - 1])]
    BY <1>10 DEF Reads
  <1> HIDE DEF read
  <1>12. read[0] = NothingRead /\ \A n \in 1 .. N : read[n] = ReadLine(ls[n], read[n - 1])
    <2>1. 0 \in 0 .. N /\ \A n \in 1 .. N : n \in 0 .. N /\ n # 0
      BY <1>1
    <2> QED
      BY <1>11, <2>1
  <1> DEFINE T == {n \in 0 .. N : read[n] \in Readings}
  <1>13. 0 \in T
    BY <1>1, <1>2, <1>12
  <1>14. ASSUME NEW n \in 0 .. (N - 1), n \in T
         PROVE  n + 1 \in T
    <2>1. n + 1 \in 1 .. N /\ (n + 1) - 1 = n /\ n + 1 \in 0 .. N
      BY <1>1
    <2>2. read[n] \in Readings /\ ls[n + 1] \in Lines
      BY <1>1, <1>14, <2>1
    <2>3. ReadLine(ls[n + 1], read[n]) \in Readings
      BY <2>2, ReadTyped
    <2> QED
      BY <1>12, <2>1, <2>3
  <1> HIDE DEF T
  <1>15. 0 .. N \subseteq T
    BY <1>1, <1>13, <1>14, ReachedUpTo
  <1>16. read \in [0 .. N -> Readings]
    BY <1>11, <1>15 DEF T
  <1> QED
    BY <1>12, <1>16 DEF read, N

-----------------------------------------------------------------------------
\* The STREAM-INF at i stands until line n: neither another nor a uri is after it.
StandsAt(ls, i, n) ==
    i \in 1 .. n /\ ls[i].kind = "inf" /\ \A j \in (i + 1) .. n : ls[j].kind \notin {"inf", "uri"}

\* The uri at line at is that of the STREAM-INF at i.
Owns(ls, i, spot) == spot \in Nat \ {0} /\ ls[spot].kind = "uri" /\ StandsAt(ls, i, spot - 1)

\* What has been read of the first n lines.
ReadUpTo(ls, n, acc) ==
    /\ acc.pending # NoPending => \E i \in 1 .. n : StandsAt(ls, i, n) /\ acc.pending = ls[i].height
    /\ \A i \in 1 .. n : StandsAt(ls, i, n) => acc.pending = ls[i].height
    /\ \A k \in DOMAIN acc.found : \E i, spot \in 1 .. n :
          Owns(ls, i, spot) /\ acc.found[k] = Variant(ls[spot].name, ls[i].height)
    /\ \A i, spot \in 1 .. n : Owns(ls, i, spot) =>
          \E k \in DOMAIN acc.found : acc.found[k] = Variant(ls[spot].name, ls[i].height)

LEMMA OneStands ==
    ASSUME NEW ls, NEW n \in Nat, NEW i \in 1 .. n, NEW j \in 1 .. n, StandsAt(ls, i, n), StandsAt(ls, j, n)
    PROVE  i = j
  BY DEF StandsAt

\* What stands until the next line stood until this one, or is the next line.
LEMMA StandsOn ==
    ASSUME NEW ls, NEW n \in Nat, NEW i \in 1 .. (n + 1)
    PROVE  /\ i # n + 1 => (StandsAt(ls, i, n + 1) <=> StandsAt(ls, i, n) /\ ls[n + 1].kind \notin {"inf", "uri"})
           /\ i = n + 1 => (StandsAt(ls, i, n + 1) <=> ls[n + 1].kind = "inf")
  BY DEF StandsAt

LEMMA ReadsOn ==
    ASSUME NEW ls \in Seq(Lines), NEW n \in Nat, n + 1 <= Len(ls), NEW acc \in Readings, ReadUpTo(ls, n, acc)
    PROVE  ReadUpTo(ls, n + 1, ReadLine(ls[n + 1], acc))
  <1> DEFINE line == ls[n + 1]
             next == ReadLine(line, acc)
  <1>1. line \in Lines /\ line.kind \in {"inf", "uri", "other"}
    BY LineTyped
  <1>2. acc.pending \in Heights \cup {NoHeight, NoPending} /\ acc.found \in Seq(Streams)
    BY DEF Readings
  <1>3. \A i \in 1 .. (n + 1) : i \in 1 .. n \/ i = n + 1
    OBVIOUS
  <1>4. \A i, spot \in 1 .. n : i \in 1 .. (n + 1)
    OBVIOUS
  <1>5. n + 1 \in 1 .. (n + 1) /\ n + 1 \in Nat \ {0} /\ (n + 1) - 1 = n
    OBVIOUS
  <1>6. /\ acc.pending # NoPending => \E i \in 1 .. n : StandsAt(ls, i, n) /\ acc.pending = ls[i].height
        /\ \A i \in 1 .. n : StandsAt(ls, i, n) => acc.pending = ls[i].height
        /\ \A k \in DOMAIN acc.found : \E i, spot \in 1 .. n :
              Owns(ls, i, spot) /\ acc.found[k] = Variant(ls[spot].name, ls[i].height)
        /\ \A i, spot \in 1 .. n : Owns(ls, i, spot) =>
              \E k \in DOMAIN acc.found : acc.found[k] = Variant(ls[spot].name, ls[i].height)
    BY DEF ReadUpTo
  <1>7. \A i \in 1 .. (n + 1) :
           /\ i # n + 1 => (StandsAt(ls, i, n + 1) <=> StandsAt(ls, i, n) /\ line.kind \notin {"inf", "uri"})
           /\ i = n + 1 => (StandsAt(ls, i, n + 1) <=> line.kind = "inf")
    BY StandsOn
  <1>8. \A i \in 1 .. (n + 1) : Owns(ls, i, n + 1) <=> line.kind = "uri" /\ StandsAt(ls, i, n)
    BY <1>5 DEF Owns
  <1>9. \A i \in 1 .. (n + 1) : StandsAt(ls, i, n) => i \in 1 .. n
    BY DEF StandsAt
  <1>10. \A i \in 1 .. (n + 1), spot \in 1 .. n : Owns(ls, i, spot) => i \in 1 .. n
    BY DEF StandsAt, Owns
  <1>11. CASE line.kind = "inf"
    <2>1. next.pending = line.height /\ next.found = acc.found
      BY <1>2, <1>11 DEF ReadLine, Readings
    <2> HIDE DEF next, line
    <2>2. \A i \in 1 .. (n + 1) : StandsAt(ls, i, n + 1) => i = n + 1
      BY <1>7, <1>11
    <2>3. StandsAt(ls, n + 1, n + 1)
      BY <1>5, <1>7, <1>11
    <2>4. \A i \in 1 .. (n + 1) : ~Owns(ls, i, n + 1)
      BY <1>8, <1>11
    <2>5. line = ls[n + 1]
      BY DEF line
    <2> HIDE DEF line
    <2>6. /\ \E i \in 1 .. (n + 1) : StandsAt(ls, i, n + 1) /\ next.pending = ls[i].height
          /\ \A i \in 1 .. (n + 1) : StandsAt(ls, i, n + 1) => next.pending = ls[i].height
      BY <1>5, <2>1, <2>2, <2>3, <2>5
    <2>7. \A k \in DOMAIN next.found : \E i, spot \in 1 .. (n + 1) :
              Owns(ls, i, spot) /\ next.found[k] = Variant(ls[spot].name, ls[i].height)
      BY <1>4, <1>6, <2>1
    <2>8. \A i, spot \in 1 .. (n + 1) : Owns(ls, i, spot) =>
              \E k \in DOMAIN next.found : next.found[k] = Variant(ls[spot].name, ls[i].height)
      BY <1>3, <1>6, <1>10, <2>1, <2>4
    <2> QED
      BY <2>6, <2>7, <2>8 DEF ReadUpTo, next, line
  <1>12. CASE line.kind = "uri" /\ acc.pending # NoPending
    <2> DEFINE v == Variant(line.name, acc.pending)
    <2>1. next = [pending |-> NoPending, found |-> Append(acc.found, v)]
      BY <1>12 DEF ReadLine
    <2>2. next.pending = NoPending /\ next.found = Append(acc.found, v)
      BY <2>1
    <2>3. PICK i \in 1 .. n : StandsAt(ls, i, n) /\ acc.pending = ls[i].height
      BY <1>6, <1>12
    <2>4. Owns(ls, i, n + 1) /\ i \in 1 .. (n + 1)
      BY <1>8, <1>12, <2>3
    <2>5. v \in Streams
      BY <1>1, <1>2, <1>12, LineTyped, VariantTyped
    <2>6. v = Variant(ls[n + 1].name, ls[i].height)
      BY <2>3
    <2> HIDE DEF next, line, v
    <2>7. /\ \A k \in DOMAIN acc.found : k \in DOMAIN next.found /\ next.found[k] = acc.found[k]
          /\ Len(acc.found) + 1 \in DOMAIN next.found /\ next.found[Len(acc.found) + 1] = v
          /\ \A k \in DOMAIN next.found : k \in DOMAIN acc.found \/ k = Len(acc.found) + 1
      BY <1>2, <2>2, <2>5
    <2>8. \A j \in 1 .. (n + 1) : ~StandsAt(ls, j, n + 1)
      BY <1>7, <1>12
    <2>9. \A k \in DOMAIN next.found : \E j, spot \in 1 .. (n + 1) :
              Owns(ls, j, spot) /\ next.found[k] = Variant(ls[spot].name, ls[j].height)
      <3> SUFFICES ASSUME NEW k \in DOMAIN next.found
                   PROVE  \E j, spot \in 1 .. (n + 1) :
                             Owns(ls, j, spot) /\ next.found[k] = Variant(ls[spot].name, ls[j].height)
        OBVIOUS
      <3>1. CASE k \in DOMAIN acc.found
        <4>1. PICK j, spot \in 1 .. n : Owns(ls, j, spot) /\ acc.found[k] = Variant(ls[spot].name, ls[j].height)
          BY <1>6, <3>1
        <4>2. next.found[k] = acc.found[k] /\ j \in 1 .. (n + 1) /\ spot \in 1 .. (n + 1)
          BY <1>4, <2>7, <3>1
        <4> QED
          BY <4>1, <4>2
      <3>2. CASE k = Len(acc.found) + 1
        BY <1>5, <2>4, <2>6, <2>7, <3>2
      <3> QED
        BY <2>7, <3>1, <3>2
    <2>10. ASSUME NEW j \in 1 .. (n + 1), NEW spot \in 1 .. (n + 1), Owns(ls, j, spot)
           PROVE  \E k \in DOMAIN next.found : next.found[k] = Variant(ls[spot].name, ls[j].height)
      <3>1. CASE spot = n + 1
        <4>1. StandsAt(ls, j, n) /\ j \in 1 .. n
          BY <1>8, <1>9, <2>10, <3>1
        <4>2. j = i
          BY <2>3, <4>1, OneStands
        <4> QED
          BY <2>6, <2>7, <3>1, <4>2
      <3>2. CASE spot # n + 1
        <4>1. spot \in 1 .. n /\ j \in 1 .. n
          BY <1>10, <2>10, <3>2
        <4>2. PICK k \in DOMAIN acc.found : acc.found[k] = Variant(ls[spot].name, ls[j].height)
          BY <1>6, <2>10, <4>1
        <4> QED
          BY <2>7, <4>2
      <3> QED
        BY <3>1, <3>2
    <2> QED
      BY <2>2, <2>8, <2>9, <2>10 DEF ReadUpTo, next, line
  <1>13. CASE line.kind # "inf" /\ ~(line.kind = "uri" /\ acc.pending # NoPending)
    <2>1. next = acc
      BY <1>13 DEF ReadLine
    <2>2. line.kind = "uri" => \A i \in 1 .. n : ~StandsAt(ls, i, n)
      <3> SUFFICES ASSUME line.kind = "uri", NEW i \in 1 .. n, StandsAt(ls, i, n)
                   PROVE  FALSE
        OBVIOUS
      <3>1. i \in 1 .. Len(ls) /\ ls[i] \in Lines /\ ls[i].kind = "inf"
        BY DEF StandsAt
      <3>2. ls[i].height \in Heights \cup {NoHeight}
        BY <3>1, LineTyped
      <3>3. ls[i].height # NoPending
        BY <3>2, VariantsAssumption DEF NoHeight, NoPending
      <3> QED
        BY <1>6, <1>13, <3>3
    <2> HIDE DEF next, line
    <2>3. \A i \in 1 .. (n + 1) : ~Owns(ls, i, n + 1)
      BY <1>8, <1>9, <2>2
    <2>4. \A i \in 1 .. (n + 1) : StandsAt(ls, i, n + 1) => i \in 1 .. n /\ StandsAt(ls, i, n)
      BY <1>3, <1>7, <1>13
    <2>5. acc.pending # NoPending => line.kind # "uri"
      BY <1>13
    <2>6. acc.pending # NoPending => \E i \in 1 .. (n + 1) : StandsAt(ls, i, n + 1) /\ acc.pending = ls[i].height
      <3> SUFFICES ASSUME acc.pending # NoPending
                   PROVE  \E i \in 1 .. (n + 1) : StandsAt(ls, i, n + 1) /\ acc.pending = ls[i].height
        OBVIOUS
      <3>1. PICK i \in 1 .. n : StandsAt(ls, i, n) /\ acc.pending = ls[i].height
        BY <1>6
      <3>2. i \in 1 .. (n + 1) /\ i # n + 1
        OBVIOUS
      <3> QED
        BY <1>7, <1>13, <2>5, <3>1, <3>2
    <2>7. \A i \in 1 .. (n + 1) : StandsAt(ls, i, n + 1) => acc.pending = ls[i].height
      BY <1>6, <2>4
    <2>8. \A k \in DOMAIN acc.found : \E i, spot \in 1 .. (n + 1) :
              Owns(ls, i, spot) /\ acc.found[k] = Variant(ls[spot].name, ls[i].height)
      BY <1>4, <1>6
    <2>9. \A i, spot \in 1 .. (n + 1) : Owns(ls, i, spot) =>
              \E k \in DOMAIN acc.found : acc.found[k] = Variant(ls[spot].name, ls[i].height)
      BY <1>3, <1>6, <1>10, <2>3
    <2>10. ReadUpTo(ls, n + 1, acc)
      BY <2>6, <2>7, <2>8, <2>9 DEF ReadUpTo
    <2> QED
      BY <2>1, <2>10 DEF next, line
  <1> QED
    BY <1>1, <1>11, <1>12, <1>13

\* The variants of a playlist are its uris that a STREAM-INF stands for.
LEMMA ParsedIsOwned ==
    ASSUME NEW ls \in Seq(Lines)
    PROVE  /\ ParseMaster(ls) \in Seq(Streams)
           /\ \A k \in DOMAIN ParseMaster(ls) : \E i, spot \in 1 .. Len(ls) :
                 Owns(ls, i, spot) /\ ParseMaster(ls)[k] = Variant(ls[spot].name, ls[i].height)
           /\ \A i, spot \in 1 .. Len(ls) : Owns(ls, i, spot) =>
                 \E k \in DOMAIN ParseMaster(ls) : ParseMaster(ls)[k] = Variant(ls[spot].name, ls[i].height)
  <1> DEFINE N == Len(ls)
             read == Reading(ls)
             T == {n \in 0 .. N : ReadUpTo(ls, n, read[n])}
  <1>1. N \in Nat
    OBVIOUS
  <1>2. /\ read \in [0 .. N -> Readings] /\ read[0] = NothingRead
        /\ \A n \in 1 .. N : read[n] = ReadLine(ls[n], read[n - 1])
    BY ReadsStepwise
  <1> HIDE DEF read
  <1>3. 0 \in T
    BY <1>1, <1>2 DEF ReadUpTo, NothingRead
  <1>4. ASSUME NEW n \in 0 .. (N - 1), n \in T
        PROVE  n + 1 \in T
    <2>1. n \in Nat /\ n \in 0 .. N /\ n + 1 \in 1 .. N /\ (n + 1) - 1 = n /\ n + 1 \in 0 .. N /\ n + 1 <= Len(ls)
      BY <1>1
    <2>2. read[n] \in Readings /\ ReadUpTo(ls, n, read[n])
      BY <1>2, <1>4, <2>1
    <2>3. ReadUpTo(ls, n + 1, ReadLine(ls[n + 1], read[n]))
      BY <2>1, <2>2, ReadsOn
    <2>4. read[n + 1] = ReadLine(ls[n + 1], read[n])
      BY <1>2, <2>1
    <2> QED
      BY <2>1, <2>3, <2>4
  <1> HIDE DEF T
  <1>5. 0 .. N \subseteq T
    BY <1>1, <1>3, <1>4, ReachedUpTo
  <1>6. N \in 0 .. N
    BY <1>1
  <1>7. ReadUpTo(ls, N, read[N]) /\ read[N] \in Readings
    BY <1>2, <1>5, <1>6 DEF T
  <1>8. ParseMaster(ls) = read[N].found
    BY DEF ParseMaster, read
  <1> DEFINE parsed == ParseMaster(ls)
  <1>9. parsed \in Seq(Streams)
    BY <1>7, <1>8 DEF Readings
  <1>10. \A k \in DOMAIN parsed : \E i, spot \in 1 .. N :
             Owns(ls, i, spot) /\ parsed[k] = Variant(ls[spot].name, ls[i].height)
    BY <1>7, <1>8 DEF ReadUpTo
  <1>11. \A i, spot \in 1 .. N : Owns(ls, i, spot) =>
             \E k \in DOMAIN parsed : parsed[k] = Variant(ls[spot].name, ls[i].height)
    BY <1>7, <1>8 DEF ReadUpTo
  <1> QED
    BY <1>9, <1>10, <1>11

-----------------------------------------------------------------------------
LEMMA PreferredOrders ==
    ASSUME NEW q \in Qualities, NEW a \in Streams, NEW b \in Streams, NEW c \in Streams
    PROVE  /\ Preferred(a, b, q) /\ Preferred(b, c, q) => Preferred(a, c, q)
           /\ ~Preferred(a, a, q)
  <1>1. {a.height, b.height, c.height} \subseteq Nat
    BY StreamTyped
  <1>2. q \in Int /\ (q \in Caps => q > 0) /\ (q \notin Caps => q = Worst \/ q = Best)
    BY VariantsAssumption DEF Qualities, Best, Worst
  <1>3. CASE q \in Caps
    <2>1. q # Worst /\ q # Best
      BY <1>2, <1>3 DEF Best, Worst
    <2> QED
      BY <1>1, <1>2, <1>3, <2>1 DEF Preferred, Rank, NoHeight
  <1>4. CASE q = Worst
    <2>1. q # Best /\ q \notin Caps
      BY <1>2, <1>4 DEF Best, Worst
    <2> QED
      BY <1>1, <1>4, <2>1 DEF Preferred, NoHeight
  <1>5. CASE q = Best
    <2>1. q # Worst /\ q \notin Caps
      BY <1>2, <1>5 DEF Best, Worst
    <2> QED
      BY <1>1, <1>5, <2>1 DEF Preferred, NoHeight
  <1> QED
    BY <1>2, <1>3, <1>4, <1>5

\* The variants are looked at one after the other.
LEMMA PicksStepwise ==
    ASSUME NEW vs \in Seq(Streams), NEW q
    PROVE  /\ Picking(vs, q) \in [0 .. Len(vs) -> Streams]
           /\ Picking(vs, q)[0] = Stream
           /\ \A n \in 1 .. Len(vs) : Picking(vs, q)[n] =
                 IF n = 1 \/ Preferred(vs[n], Picking(vs, q)[n - 1], q) THEN vs[n] ELSE Picking(vs, q)[n - 1]
  <1> DEFINE N == Len(vs)
             take(n, p) == IF n = 1 \/ Preferred(vs[n], p, q) THEN vs[n] ELSE p
             step == [n \in 1 .. N |-> [p \in Streams |-> take(n, p)]]
  <1>1. N \in Nat /\ \A n \in 1 .. N : vs[n] \in Streams
    OBVIOUS
  <1>2. Stream \in Streams
    BY StreamIs
  <1>3. \A n \in 1 .. N, p \in Streams : take(n, p) \in Streams
    BY <1>1
  <1> HIDE DEF take, N
  <1>4. step \in StepFunctions(N, Streams)
    BY <1>3 DEF StepFunctions
  <1>5. \A n \in 1 .. N, p \in Streams : step[n][p] = take(n, p)
    OBVIOUS
  <1> HIDE DEF step
  <1>6. PICK f \in [0 .. N -> Streams] : MadeUpTo(N, f, Stream, step)
    BY <1>1, <1>2, <1>4, Recursion
  <1>7. ASSUME NEW n \in 0 .. N
        PROVE  (IF n = 0 THEN Stream ELSE step[n][f[n - 1]]) = (IF n = 0 THEN Stream ELSE take(n, f[n - 1]))
    <2>1. CASE n # 0
      <3>1. n \in 1 .. N /\ n - 1 \in 0 .. N
        BY <1>1, <2>1
      <3>2. f[n - 1] \in Streams
        BY <3>1
      <3> QED
        BY <1>5, <2>1, <3>1, <3>2
    <2> QED
      BY <2>1
  <1>8. f = [n \in 0 .. N |-> IF n = 0 THEN Stream ELSE take(n, f[n - 1])]
    BY <1>6, <1>7 DEF MadeUpTo
  <1> DEFINE Picks(g) == g = [n \in 0 .. N |-> IF n = 0 THEN Stream ELSE take(n, g[n - 1])]
  <1>9. Picking(vs, q) = CHOOSE g : Picks(g)
    BY DEF Picking, take, N
  <1>10. Picks(f)
    BY <1>8
  <1> HIDE DEF Picks
  <1>11. Picks(Picking(vs, q))
    BY <1>9, <1>10
  <1> DEFINE pick == Picking(vs, q)
  <1>12. pick = [n \in 0 .. N |-> IF n = 0 THEN Stream ELSE take(n, pick[n - 1])]
    BY <1>11 DEF Picks
  <1> HIDE DEF pick
  <1>13. pick[0] = Stream /\ \A n \in 1 .. N : pick[n] = take(n, pick[n - 1])
    <2>1. 0 \in 0 .. N /\ \A n \in 1 .. N : n \in 0 .. N /\ n # 0
      BY <1>1
    <2> QED
      BY <1>12, <2>1
  <1> DEFINE T == {n \in 0 .. N : pick[n] \in Streams}
  <1>14. 0 \in T
    BY <1>1, <1>2, <1>13
  <1>15. ASSUME NEW n \in 0 .. (N - 1), n \in T
         PROVE  n + 1 \in T
    <2>1. n + 1 \in 1 .. N /\ (n + 1) - 1 = n /\ n + 1 \in 0 .. N
      BY <1>1
    <2>2. take(n + 1, pick[n]) \in Streams
      BY <1>3, <1>15, <2>1
    <2> QED
      BY <1>13, <2>1, <2>2
  <1> HIDE DEF T
  <1>16. 0 .. N \subseteq T
    BY <1>1, <1>14, <1>15, ReachedUpTo
  <1>17. pick \in [0 .. N -> Streams]
    BY <1>12, <1>16 DEF T
  <1> QED
    BY <1>13, <1>17 DEF pick, take, N

\* The pick is a variant that none of the others is preferred to.
LEMMA PickedBest ==
    ASSUME NEW vs \in Seq(Streams), NEW q \in Qualities
    PROVE  /\ Select(vs, q) \in Streams
           /\ vs = <<>> => Select(vs, q) = Stream
           /\ vs # <<>> => /\ \E k \in DOMAIN vs : Select(vs, q) = vs[k]
                           /\ \A k \in DOMAIN vs : ~Preferred(vs[k], Select(vs, q), q)
  <1> DEFINE N == Len(vs)
             pick == Picking(vs, q)
             Tops(n) == /\ \E k \in 1 .. n : pick[n] = vs[k]
                        /\ \A k \in 1 .. n : ~Preferred(vs[k], pick[n], q)
             T == {n \in 0 .. N : n = 0 \/ Tops(n)}
  <1>1. N \in Nat /\ \A n \in 1 .. N : vs[n] \in Streams
    OBVIOUS
  <1>2. /\ pick \in [0 .. N -> Streams] /\ pick[0] = Stream
        /\ \A n \in 1 .. N : pick[n] = IF n = 1 \/ Preferred(vs[n], pick[n - 1], q) THEN vs[n] ELSE pick[n - 1]
    BY PicksStepwise
  <1> HIDE DEF pick
  <1>3. 0 \in T
    BY <1>1
  <1>4. ASSUME NEW n \in 0 .. (N - 1), n \in T
        PROVE  n + 1 \in T
    <2>1. n + 1 \in 1 .. N /\ (n + 1) - 1 = n /\ n + 1 \in 0 .. N /\ n \in 0 .. N /\ n \in Nat
      BY <1>1
    <2>2. pick[n] \in Streams /\ vs[n + 1] \in Streams /\ pick[n + 1] \in Streams
      BY <1>1, <1>2, <2>1
    <2>3. \A k \in 1 .. (n + 1) : vs[k] \in Streams /\ (k \in 1 .. n \/ k = n + 1)
      BY <1>1, <2>1
    <2>4. \A k \in 1 .. n : k \in 1 .. (n + 1)
      OBVIOUS
    <2>5. n + 1 \in 1 .. (n + 1)
      OBVIOUS
    <2>6. ~Preferred(vs[n + 1], vs[n + 1], q)
      BY <2>2, PreferredOrders
    <2>7. CASE n = 0
      <3>1. pick[n + 1] = vs[n + 1]
        BY <1>2, <2>1, <2>7
      <3>2. \A k \in 1 .. (n + 1) : k = n + 1
        BY <2>7
      <3> QED
        BY <2>1, <2>5, <2>6, <3>1, <3>2
    <2>8. CASE n # 0 /\ Preferred(vs[n + 1], pick[n], q)
      <3>1. pick[n + 1] = vs[n + 1]
        BY <1>2, <2>1, <2>8
      <3>2. \A k \in 1 .. n : ~Preferred(vs[k], pick[n], q)
        BY <1>4, <2>8
      <3>3. ASSUME NEW k \in 1 .. (n + 1)
            PROVE  ~Preferred(vs[k], vs[n + 1], q)
        BY <2>2, <2>3, <2>6, <2>8, <3>2, PreferredOrders
      <3> QED
        BY <2>1, <2>5, <3>1, <3>3
    <2>9. CASE n # 0 /\ ~Preferred(vs[n + 1], pick[n], q)
      <3>1. pick[n + 1] = pick[n]
        <4>1. n + 1 # 1
          BY <2>9
        <4> QED
          BY <1>2, <2>1, <2>9, <4>1
      <3>2. Tops(n)
        BY <1>4, <2>9
      <3>3. Tops(n + 1)
        BY <2>3, <2>4, <2>9, <3>1, <3>2
      <3> QED
        BY <2>1, <3>3
    <2> QED
      BY <2>7, <2>8, <2>9
  <1> HIDE DEF T
  <1>5. 0 .. N \subseteq T
    BY <1>1, <1>3, <1>4, ReachedUpTo
  <1>6. N \in 0 .. N /\ (vs = <<>> <=> N = 0) /\ DOMAIN vs = 1 .. N
    BY <1>1
  <1>7. N = 0 \/ Tops(N)
    BY <1>5, <1>6 DEF T
  <1>8. Select(vs, q) = pick[N]
    BY DEF Select, pick
  <1> QED
    BY <1>2, <1>6, <1>7, <1>8

LEMMA MinIs ==
    ASSUME NEW S \in SUBSET Int, NEW x \in S, \A y \in S : x <= y
    PROVE  Min(S) = x
  <1>1. \E z \in S : \A y \in S : z <= y
    OBVIOUS
  <1> DEFINE m == Min(S)
  <1>2. m \in S /\ \A y \in S : m <= y
    BY <1>1 DEF Min
  <1> HIDE DEF m
  <1>3. m \in Int /\ x \in Int /\ m <= x /\ x <= m
    BY <1>2
  <1>4. m = x
    BY <1>3
  <1> QED
    BY <1>4 DEF m

LEMMA MaxIs ==
    ASSUME NEW S \in SUBSET Int, NEW x \in S, \A y \in S : x >= y
    PROVE  Max(S) = x
  <1>1. \E z \in S : \A y \in S : z >= y
    OBVIOUS
  <1> DEFINE m == Max(S)
  <1>2. m \in S /\ \A y \in S : m >= y
    BY <1>1 DEF Max
  <1> HIDE DEF m
  <1>3. m \in Int /\ x \in Int /\ m >= x /\ x >= m
    BY <1>2
  <1>4. m = x
    BY <1>3
  <1> QED
    BY <1>4 DEF m

\* The cap, of a set of known heights.
CapHeight(known, q) ==
    LET within == {h \in known : q \in {Best, Worst} \/ h <= q}
    IN  IF known = {} THEN NoHeight
        ELSE IF q = Worst \/ within = {} THEN Min(known) ELSE Max(within)

HeightsOf(vs) == {vs[k].height : k \in DOMAIN vs} \ {NoHeight}

LEMMA SelectHonoursCap ==
    ASSUME NEW vs \in Seq(Streams), NEW q \in Qualities
    PROVE  Select(vs, q).height = CapHeight(HeightsOf(vs), q)
  <1> DEFINE p == Select(vs, q)
             known == HeightsOf(vs)
             within == {h \in known : q \in {Best, Worst} \/ h <= q}
  <1>1. \A k \in DOMAIN vs : vs[k] \in Streams /\ vs[k].height \in Heights \cup {NoHeight}
    BY StreamTyped
  <1>2. known \subseteq Heights /\ known \subseteq Int /\ within \subseteq Int /\ \A h \in known : h > 0
    <2>1. known \subseteq Heights
      BY <1>1 DEF HeightsOf
    <2>2. \A h \in Heights : h \in Int /\ h > 0
      BY VariantsAssumption
    <2> HIDE DEF known
    <2> QED
      BY <2>1, <2>2
  <1>3. /\ vs = <<>> => p = Stream
        /\ vs # <<>> => /\ \E k \in DOMAIN vs : p = vs[k]
                        /\ \A k \in DOMAIN vs : ~Preferred(vs[k], p, q)
    BY PickedBest
  <1>4. q \in Int /\ (q \in Caps => q > 0) /\ (q \notin Caps => q = Worst \/ q = Best)
    BY VariantsAssumption DEF Qualities, Best, Worst
  <1>5. vs = <<>> => known = {}
    BY DEF HeightsOf
  <1>6. CapHeight(known, q) = IF known = {} THEN NoHeight
                              ELSE IF q = Worst \/ within = {} THEN Min(known) ELSE Max(within)
    BY DEF CapHeight
  <1>7. Stream.height = NoHeight
    BY StreamIs
  <1>8. \A k \in DOMAIN vs : vs[k].height = NoHeight \/ vs[k].height \in known
    BY DEF HeightsOf
  <1>9. \A h \in known : \E k \in DOMAIN vs : vs[k].height = h
    BY DEF HeightsOf
  <1> HIDE DEF known, p, within
  <1>10. ASSUME known = {}
         PROVE  p.height = CapHeight(known, q)
    <2>1. p.height = NoHeight
      <3>1. CASE vs = <<>>
        BY <1>3, <1>7, <3>1
      <3>2. CASE vs # <<>>
        BY <1>3, <1>8, <1>10, <3>2
      <3> QED
        BY <3>1, <3>2
    <2> QED
      BY <1>6, <1>10, <2>1
  <1>11. ASSUME known # {}
         PROVE  p.height = CapHeight(known, q)
    <2>1. vs # <<>>
      BY <1>5, <1>11
    <2>2. PICK best \in DOMAIN vs : p = vs[best]
      BY <1>3, <2>1
    <2>3. \A k \in DOMAIN vs : ~Preferred(vs[k], p, q)
      BY <1>3, <2>1
    <2>4. p.height \in known
      <3>1. PICK h \in known : TRUE
        BY <1>11
      <3>2. PICK k \in DOMAIN vs : vs[k].height = h
        BY <1>9
      <3>3. vs[k].height # NoHeight
        BY <1>2, <3>2 DEF NoHeight
      <3>4. p.height # NoHeight
        BY <2>3, <3>3 DEF Preferred
      <3> QED
        BY <1>8, <2>2, <3>4
    <2>5. ASSUME NEW h \in known
          PROVE  /\ q = Worst => ~(h < p.height)
                 /\ q = Best => ~(h > p.height)
                 /\ q \in Caps => ~(Rank(h, q) > Rank(p.height, q))
      <3>1. PICK k \in DOMAIN vs : vs[k].height = h
        BY <1>9
      <3>2. ~Preferred(vs[k], p, q) /\ vs[k].height # NoHeight
        BY <1>2, <2>3, <3>1 DEF NoHeight
      <3>3. CASE q \in Caps
        <4>1. q # Worst /\ q # Best
          BY <1>4, <3>3 DEF Best, Worst
        <4> QED
          BY <3>1, <3>2, <3>3, <4>1 DEF Preferred
      <3>4. CASE q = Worst
        <4>1. q # Best /\ q \notin Caps
          BY <1>4, <3>4 DEF Best, Worst
        <4> QED
          BY <3>1, <3>2, <3>4, <4>1 DEF Preferred
      <3>5. CASE q = Best
        <4>1. q # Worst /\ q \notin Caps
          BY <1>4, <3>5 DEF Best, Worst
        <4> QED
          BY <3>1, <3>2, <3>5, <4>1 DEF Preferred
      <3> QED
        BY <1>4, <3>3, <3>4, <3>5
    <2>6. p.height \in Int /\ p.height > 0 /\ \A h \in known : h \in Int /\ h > 0
      BY <1>2, <2>4
    <2>7. CASE q = Worst
      <3>1. Min(known) = p.height
        BY <1>2, <2>4, <2>5, <2>6, <2>7, MinIs
      <3> QED
        BY <1>6, <1>11, <2>7, <3>1
    <2>8. CASE q = Best
      <3>1. within = known /\ q # Worst
        BY <2>8 DEF Best, Worst, within
      <3>2. Max(known) = p.height
        BY <1>2, <2>4, <2>5, <2>6, <2>8, MaxIs
      <3> QED
        BY <1>6, <1>11, <3>1, <3>2
    <2>9. CASE q \in Caps
      <3>1. q # Worst /\ q # Best /\ q > 0
        BY <1>4, <2>9 DEF Best, Worst
      <3>2. within \subseteq known /\ \A h \in known : h \in within <=> h <= q
        BY <3>1 DEF within
      <3>3. \A h \in known : ~(Rank(h, q) > Rank(p.height, q))
        BY <2>5, <2>9
      <3>4. CASE within = {}
        <4>1. \A h \in known : h > q
          BY <1>4, <2>6, <3>2, <3>4
        <4>2. \A h \in known : p.height <= h
          BY <1>4, <2>4, <2>6, <3>3, <4>1 DEF Rank
        <4>3. Min(known) = p.height
          BY <1>2, <2>4, <4>2, MinIs
        <4> QED
          BY <1>6, <1>11, <3>4, <4>3
      <3>5. CASE within # {}
        <4>1. PICK h \in within : TRUE
          BY <3>5
        <4>2. h \in known /\ h <= q
          BY <3>2, <4>1
        <4>3. p.height <= q
          BY <1>4, <2>6, <3>3, <4>2 DEF Rank
        <4>4. p.height \in within
          BY <2>4, <3>2, <4>3
        <4>5. \A g \in within : g \in known /\ g <= q
          BY <3>2
        <4>6. \A g \in within : p.height >= g
          BY <1>4, <2>6, <3>3, <4>3, <4>5 DEF Rank
        <4>7. Max(within) = p.height
          BY <1>2, <4>4, <4>6, MaxIs
        <4> QED
          BY <1>6, <1>11, <3>1, <3>5, <4>7
      <3> QED
        BY <3>4, <3>5
    <2> QED
      BY <1>4, <2>7, <2>8, <2>9
  <1>12. Select(vs, q).height = CapHeight(known, q)
    BY <1>10, <1>11 DEF p
  <1> QED
    BY <1>12 DEF known

-----------------------------------------------------------------------------
\* What is read, and picked, of a list is read of a longer one too.
LEMMA ReadingGrows ==
    ASSUME NEW ls \in Seq(Lines), NEW line \in Lines
    PROVE  /\ Append(ls, line) \in Seq(Lines)
           /\ Reading(Append(ls, line))[Len(ls)] = Reading(ls)[Len(ls)]
           /\ Reading(Append(ls, line))[Len(ls) + 1] = ReadLine(line, Reading(ls)[Len(ls)])
  <1> DEFINE N == Len(ls)
             more == Append(ls, line)
             old == Reading(ls)
             new == Reading(more)
             T == {n \in 0 .. N : new[n] = old[n]}
  <1>1. /\ N \in Nat /\ more \in Seq(Lines) /\ Len(more) = N + 1
        /\ more[N + 1] = line /\ \A n \in 1 .. N : more[n] = ls[n]
    OBVIOUS
  <1> HIDE DEF more
  <1>2. old[0] = NothingRead /\ \A n \in 1 .. N : old[n] = ReadLine(ls[n], old[n - 1])
    BY ReadsStepwise
  <1>3. new[0] = NothingRead /\ \A n \in 1 .. (N + 1) : new[n] = ReadLine(more[n], new[n - 1])
    BY <1>1, ReadsStepwise
  <1> HIDE DEF old, new
  <1>4. 0 \in T
    BY <1>1, <1>2, <1>3
  <1>5. ASSUME NEW n \in 0 .. (N - 1), n \in T
        PROVE  n + 1 \in T
    <2>1. n + 1 \in 1 .. N /\ n + 1 \in 1 .. (N + 1) /\ (n + 1) - 1 = n /\ n + 1 \in 0 .. N
      BY <1>1
    <2>2. new[n + 1] = ReadLine(ls[n + 1], old[n])
      BY <1>1, <1>3, <1>5, <2>1
    <2> QED
      BY <1>2, <2>1, <2>2
  <1> HIDE DEF T
  <1>6. 0 .. N \subseteq T
    BY <1>1, <1>4, <1>5, ReachedUpTo
  <1>7. N \in 0 .. N /\ N + 1 \in 1 .. (N + 1) /\ (N + 1) - 1 = N
    BY <1>1
  <1>8. new[N] = old[N]
    BY <1>6, <1>7 DEF T
  <1>9. new[N + 1] = ReadLine(line, old[N])
    BY <1>1, <1>3, <1>7, <1>8
  <1> QED
    BY <1>1, <1>8, <1>9 DEF old, new, more

LEMMA PickingGrows ==
    ASSUME NEW vs \in Seq(Streams), NEW v \in Streams, NEW q
    PROVE  Select(Append(vs, v), q) \in {Select(vs, q), v}
  <1> DEFINE N == Len(vs)
             more == Append(vs, v)
             old == Picking(vs, q)
             new == Picking(more, q)
             T == {n \in 0 .. N : new[n] = old[n]}
  <1>1. /\ N \in Nat /\ more \in Seq(Streams) /\ Len(more) = N + 1
        /\ more[N + 1] = v /\ \A n \in 1 .. N : more[n] = vs[n]
    OBVIOUS
  <1> HIDE DEF more
  <1>2. /\ old[0] = Stream
        /\ \A n \in 1 .. N : old[n] = IF n = 1 \/ Preferred(vs[n], old[n - 1], q) THEN vs[n] ELSE old[n - 1]
    BY PicksStepwise
  <1>3. /\ new[0] = Stream
        /\ \A n \in 1 .. (N + 1) : new[n] = IF n = 1 \/ Preferred(more[n], new[n - 1], q) THEN more[n] ELSE new[n - 1]
    BY <1>1, PicksStepwise
  <1>4. Select(vs, q) = old[N] /\ Select(more, q) = new[N + 1]
    BY <1>1 DEF Select
  <1> HIDE DEF old, new
  <1>5. 0 \in T
    BY <1>1, <1>2, <1>3
  <1>6. ASSUME NEW n \in 0 .. (N - 1), n \in T
        PROVE  n + 1 \in T
    <2>1. n + 1 \in 1 .. N /\ n + 1 \in 1 .. (N + 1) /\ (n + 1) - 1 = n /\ n + 1 \in 0 .. N
      BY <1>1
    <2>2. new[n] = old[n] /\ more[n + 1] = vs[n + 1]
      BY <1>1, <1>6, <2>1
    <2> QED
      BY <1>2, <1>3, <2>1, <2>2
  <1> HIDE DEF T
  <1>7. 0 .. N \subseteq T
    BY <1>1, <1>5, <1>6, ReachedUpTo
  <1>8. N \in 0 .. N /\ N + 1 \in 1 .. (N + 1) /\ (N + 1) - 1 = N
    BY <1>1
  <1>9. new[N] = old[N]
    BY <1>7, <1>8 DEF T
  <1>10. new[N + 1] \in {old[N], v}
    BY <1>1, <1>3, <1>8, <1>9
  <1> QED
    BY <1>4, <1>10 DEF more

-----------------------------------------------------------------------------
VariantsInv ==
    /\ lines \in Seq(Lines) /\ quality \in Qualities
    /\ played = Select(ParseMaster(lines), quality)

LEMMA EmptyParses ==
    ParseMaster(<<>>) = <<>>
  <1>1. <<>> \in Seq(Lines) /\ Len(<<>>) = 0
    OBVIOUS
  <1>2. Reading(<<>>)[0] = NothingRead
    BY <1>1, ReadsStepwise
  <1> QED
    BY <1>1, <1>2 DEF ParseMaster, NothingRead

\* One line more is a line of a playlist.
LEMMA LengthensTyped ==
    ASSUME VariantsInv, Lengthens
    PROVE  /\ Len(lines') = Len(lines) + 1 /\ quality' = quality
           /\ played' = Select(ParseMaster(lines'), quality)
           /\ \E line \in Lines : /\ lines' = Append(lines, line)
                                  /\ line.kind = "uri" => line.name = Len(lines')
  <1>1. lines \in Seq(Lines) /\ Len(lines) \in Nat
    BY DEF VariantsInv
  <1>2. PICK line \in {Inf(h) : h \in Heights \cup {NoHeight}} \cup {Uri(Len(lines) + 1), Other} :
           Fetched(Append(lines, line))
    BY DEF Lengthens
  <1>3. Len(lines) + 1 \in Nat
    BY <1>1
  <1>4. line \in Lines
    BY <1>2, <1>3 DEF Lines
  <1>5. line.kind = "uri" => line.name = Len(lines) + 1
    BY <1>2 DEF Inf, Uri, Other
  <1>6. lines' = Append(lines, line) /\ quality' = quality /\ played' = Select(ParseMaster(lines'), quality)
    BY <1>2 DEF Fetched
  <1>7. Len(lines') = Len(lines) + 1
    BY <1>1, <1>4, <1>6
  <1> QED
    BY <1>4, <1>5, <1>6, <1>7

\* A playlist in another order has its kinds where they were and the same heights.
LEMMA ReordersTyped ==
    ASSUME VariantsInv, Reorders
    PROVE  /\ lines' \in Seq(Lines) /\ Len(lines') = Len(lines) /\ quality' = quality
           /\ played' = Select(ParseMaster(lines'), quality)
           /\ HeightsOf(ParseMaster(lines')) = HeightsOf(ParseMaster(lines))
  <1>1. lines \in Seq(Lines) /\ Len(lines) \in Nat /\ DOMAIN lines = 1 .. Len(lines)
    BY DEF VariantsInv
  <1>2. PICK p \in 1 .. Len(lines) - 3 :
           /\ lines[p].kind = "inf" /\ lines[p + 1].kind = "uri"
           /\ lines[p + 2].kind = "inf" /\ lines[p + 3].kind = "uri"
           /\ Fetched([lines EXCEPT ![p] = lines[p + 2], ![p + 1] = lines[p + 3],
                                    ![p + 2] = lines[p], ![p + 3] = lines[p + 1]])
    BY DEF Reorders
  <1>3. quality' = quality /\ played' = Select(ParseMaster(lines'), quality)
    BY <1>2 DEF Fetched
  <1>4. lines' = [lines EXCEPT ![p] = lines[p + 2], ![p + 1] = lines[p + 3],
                               ![p + 2] = lines[p], ![p + 3] = lines[p + 1]]
    BY <1>2 DEF Fetched
  <1>5. {p, p + 1, p + 2, p + 3} \subseteq 1 .. Len(lines) /\ p \in Nat
    BY <1>1
  <1>6. /\ lines'[p] = lines[p + 2] /\ lines'[p + 1] = lines[p + 3]
        /\ lines'[p + 2] = lines[p] /\ lines'[p + 3] = lines[p + 1]
        /\ \A i \in 1 .. Len(lines) \ {p, p + 1, p + 2, p + 3} : lines'[i] = lines[i]
    BY <1>1, <1>4, <1>5
  <1>7. \A i \in 1 .. Len(lines) : lines[i] \in Lines
    BY <1>1
  <1>8. lines' \in [1 .. Len(lines) -> Lines]
    <2>1. DOMAIN lines' = 1 .. Len(lines)
      BY <1>1, <1>4
    <2>2. lines' = [i \in 1 .. Len(lines) |-> lines'[i]]
      BY <1>1, <1>4
    <2>3. \A i \in 1 .. Len(lines) : lines'[i] \in Lines
      BY <1>5, <1>6, <1>7
    <2> QED
      BY <2>2, <2>3
  <1>9. lines' \in Seq(Lines) /\ Len(lines') = Len(lines)
    BY <1>1, <1>8
  <1>10. \A i \in 1 .. Len(lines) : lines'[i].kind = lines[i].kind
    BY <1>2, <1>5, <1>6
  <1> DEFINE ls == lines
             swapped == lines'
  <1>11. \A i, spot \in 1 .. Len(lines) : Owns(swapped, i, spot) <=> Owns(ls, i, spot)
    <2> SUFFICES ASSUME NEW i \in 1 .. Len(lines), NEW spot \in 1 .. Len(lines)
                 PROVE  Owns(swapped, i, spot) <=> Owns(ls, i, spot)
      OBVIOUS
    <2>1. \A j \in (i + 1) .. (spot - 1) : j \in 1 .. Len(lines)
      BY <1>1
    <2>2. swapped[i].kind = ls[i].kind /\ swapped[spot].kind = ls[spot].kind
      BY <1>10
    <2>3. \A j \in (i + 1) .. (spot - 1) : swapped[j].kind = ls[j].kind
      BY <1>10, <2>1
    <2> HIDE DEF swapped, ls
    <2> QED
      BY <2>2, <2>3 DEF Owns, StandsAt
  <1>12. /\ \A k \in DOMAIN ParseMaster(ls) : \E i, spot \in 1 .. Len(ls) :
                 Owns(ls, i, spot) /\ ParseMaster(ls)[k] = Variant(ls[spot].name, ls[i].height)
         /\ \A i, spot \in 1 .. Len(ls) : Owns(ls, i, spot) =>
                 \E k \in DOMAIN ParseMaster(ls) : ParseMaster(ls)[k] = Variant(ls[spot].name, ls[i].height)
    BY <1>1, ParsedIsOwned
  <1>13. /\ \A k \in DOMAIN ParseMaster(swapped) : \E i, spot \in 1 .. Len(swapped) :
                 Owns(swapped, i, spot) /\ ParseMaster(swapped)[k] = Variant(swapped[spot].name, swapped[i].height)
         /\ \A i, spot \in 1 .. Len(swapped) : Owns(swapped, i, spot) =>
                 \E k \in DOMAIN ParseMaster(swapped) :
                     ParseMaster(swapped)[k] = Variant(swapped[spot].name, swapped[i].height)
    BY <1>9, ParsedIsOwned
  <1>14. \A n, h : Variant(n, h).height = h
    BY DEF Variant
  <1>15. Owns(ls, p, p + 1) /\ Owns(ls, p + 2, p + 3)
    <2>1. p + 1 \in Nat \ {0} /\ (p + 1) - 1 = p /\ p + 3 \in Nat \ {0} /\ (p + 3) - 1 = p + 2
      BY <1>5
    <2>2. p \in 1 .. p /\ p + 2 \in 1 .. (p + 2) /\ (p + 1) .. p = {} /\ ((p + 2) + 1) .. (p + 2) = {}
      BY <1>5
    <2> QED
      BY <1>2, <2>1, <2>2 DEF Owns, StandsAt
  <1>16. \A i, spot \in 1 .. Len(lines) : Owns(ls, i, spot) => ls[i].kind = "inf"
    BY DEF Owns, StandsAt
  <1> DEFINE Standing(i) == \E spot \in 1 .. Len(lines) : Owns(ls, i, spot)
  <1>17. Standing(p) /\ Standing(p + 2)
    BY <1>5, <1>15
  <1>18. \A i \in 1 .. Len(lines) : Standing(i) => i # p + 1 /\ i # p + 3
    BY <1>2, <1>16
  <1> HIDE DEF swapped, ls
  <1>19. HeightsOf(ParseMaster(ls)) = {ls[i].height : i \in {j \in 1 .. Len(lines) : Standing(j)}} \ {NoHeight}
    <2> DEFINE vs == ParseMaster(ls)
               heights == {vs[k].height : k \in DOMAIN vs}
               named == {ls[i].height : i \in {j \in 1 .. Len(lines) : Standing(j)}}
    <2>1. /\ \A k \in DOMAIN vs : \E i, spot \in 1 .. Len(ls) :
                 Owns(ls, i, spot) /\ vs[k] = Variant(ls[spot].name, ls[i].height)
          /\ \A i, spot \in 1 .. Len(ls) : Owns(ls, i, spot) =>
                 \E k \in DOMAIN vs : vs[k] = Variant(ls[spot].name, ls[i].height)
      BY <1>12
    <2> HIDE DEF vs
    <2>2. \A k \in DOMAIN vs : \E i, spot \in 1 .. Len(ls) : Owns(ls, i, spot) /\ vs[k].height = ls[i].height
      BY <1>14, <2>1
    <2>3. \A i, spot \in 1 .. Len(ls) : Owns(ls, i, spot) => \E k \in DOMAIN vs : vs[k].height = ls[i].height
      BY <1>14, <2>1
    <2>4. Len(ls) = Len(lines)
      BY DEF ls
    <2>5. \A i \in 1 .. Len(lines) : Standing(i) <=> \E spot \in 1 .. Len(ls) : Owns(ls, i, spot)
      BY <2>4
    <2> HIDE DEF Standing
    <2>6. heights \subseteq named
      BY <2>2, <2>4, <2>5
    <2>7. named \subseteq heights
      BY <2>3, <2>4, <2>5
    <2>8. HeightsOf(vs) = heights \ {NoHeight}
      BY DEF HeightsOf
    <2> HIDE DEF heights, named
    <2>9. HeightsOf(vs) = named \ {NoHeight}
      BY <2>6, <2>7, <2>8
    <2> QED
      BY <2>9 DEF named, vs
  <1>20. HeightsOf(ParseMaster(swapped)) = {swapped[i].height : i \in {j \in 1 .. Len(lines) : Standing(j)}} \ {NoHeight}
    <2>1. Len(swapped) = Len(lines)
      BY <1>9 DEF swapped
    <2> DEFINE vs == ParseMaster(swapped)
               S == {j \in 1 .. Len(lines) : Standing(j)}
    <2>2. \A k \in DOMAIN vs : \E i \in S : vs[k].height = swapped[i].height
      <3> SUFFICES ASSUME NEW k \in DOMAIN vs
                   PROVE  \E i \in S : vs[k].height = swapped[i].height
        OBVIOUS
      <3>1. PICK i \in 1 .. Len(lines), spot \in 1 .. Len(lines) :
               Owns(swapped, i, spot) /\ vs[k] = Variant(swapped[spot].name, swapped[i].height)
        BY <1>13, <2>1
      <3>2. i \in S
        BY <1>11, <3>1
      <3> QED
        BY <1>14, <3>1, <3>2
    <2>3. \A i \in S : \E k \in DOMAIN vs : vs[k].height = swapped[i].height
      <3> SUFFICES ASSUME NEW i \in S
                   PROVE  \E k \in DOMAIN vs : vs[k].height = swapped[i].height
        OBVIOUS
      <3>1. PICK spot \in 1 .. Len(lines) : Owns(swapped, i, spot)
        BY <1>11
      <3>2. PICK k \in DOMAIN vs : vs[k] = Variant(swapped[spot].name, swapped[i].height)
        BY <1>13, <2>1, <3>1
      <3> QED
        BY <1>14, <3>2
    <2> HIDE DEF vs, S
    <2>4. HeightsOf(vs) = {swapped[i].height : i \in S} \ {NoHeight}
      BY <2>2, <2>3 DEF HeightsOf
    <2> QED
      BY <2>4 DEF vs, S
  <1>21. /\ swapped[p] = ls[p + 2] /\ swapped[p + 2] = ls[p]
         /\ \A i \in 1 .. Len(lines) \ {p, p + 1, p + 2, p + 3} : swapped[i] = ls[i]
    BY <1>6 DEF swapped, ls
  <1> HIDE DEF Standing
  <1>22. {swapped[i].height : i \in {j \in 1 .. Len(lines) : Standing(j)}}
            = {ls[i].height : i \in {j \in 1 .. Len(lines) : Standing(j)}}
    <2> DEFINE twin(i) == IF i = p THEN p + 2 ELSE IF i = p + 2 THEN p ELSE i
    <2>1. \A i \in {j \in 1 .. Len(lines) : Standing(j)} :
             twin(i) \in {j \in 1 .. Len(lines) : Standing(j)} /\ swapped[i] = ls[twin(i)] /\ twin(twin(i)) = i
      BY <1>5, <1>17, <1>18, <1>21
    <2> HIDE DEF twin
    <2> QED
      BY <2>1
  <1>23. HeightsOf(ParseMaster(swapped)) = HeightsOf(ParseMaster(ls))
    BY <1>19, <1>20, <1>22
  <1> QED
    BY <1>3, <1>9, <1>23 DEF swapped, ls

LEMMA VariantsInvHolds == VariantsSpec => []VariantsInv
  <1>1. VariantsInit => VariantsInv
    <2> SUFFICES ASSUME VariantsInit
                 PROVE  VariantsInv
      OBVIOUS
    <2>1. <<>> \in Seq(Lines) /\ <<>> \in Seq(Streams)
      OBVIOUS
    <2>2. lines = <<>> /\ quality \in Qualities /\ played = Stream
      BY DEF VariantsInit
    <2>3. Select(<<>>, quality) = Stream
      BY <2>1, <2>2, PickedBest
    <2> QED
      BY <2>1, <2>2, <2>3, EmptyParses DEF VariantsInv
  <1>2. VariantsInv /\ [VariantsNext]_variantVars => VariantsInv'
    <2> SUFFICES ASSUME VariantsInv, [VariantsNext]_variantVars
                 PROVE  VariantsInv'
      OBVIOUS
    <2>1. CASE Lengthens
      <3>1. PICK line \in Lines : lines' = Append(lines, line)
        BY <2>1, LengthensTyped
      <3>2. lines' \in Seq(Lines)
        BY <3>1 DEF VariantsInv
      <3> QED
        BY <2>1, <3>2, LengthensTyped DEF VariantsInv
    <2>2. CASE Reorders
      BY <2>2, ReordersTyped DEF VariantsInv
    <2>3. CASE UNCHANGED variantVars
      BY <2>3 DEF variantVars, VariantsInv
    <2> QED
      BY <2>1, <2>2, <2>3 DEF VariantsNext
  <1> QED
    BY <1>1, <1>2, PTL DEF VariantsSpec

\* What the invariant says of a state.
LEMMA VariantsStateSound ==
    ASSUME VariantsInv
    PROVE  CapHonoured /\ OwnHeight
  <1> DEFINE vs == ParseMaster(lines)
  <1>1. lines \in Seq(Lines) /\ quality \in Qualities /\ played = Select(vs, quality)
    BY DEF VariantsInv
  <1>2. /\ vs \in Seq(Streams)
        /\ \A k \in DOMAIN vs : \E i, spot \in 1 .. Len(lines) :
              Owns(lines, i, spot) /\ vs[k] = Variant(lines[spot].name, lines[i].height)
    BY <1>1, ParsedIsOwned
  <1>3. played.height = CapHeight(HeightsOf(vs), quality)
    BY <1>1, <1>2, SelectHonoursCap
  <1>4. Known = HeightsOf(vs)
    BY DEF Known, ReadVariants, HeightsOf, Range
  <1>5. CapHonoured
    BY <1>3, <1>4 DEF CapHonoured, CapHeight, InBudget
  <1>6. OwnHeight
    <2> SUFFICES ASSUME played # Stream
                 PROVE  \E i, spot \in DOMAIN lines :
                          /\ i < spot /\ lines[spot] = Uri(played.url) /\ lines[i] = Inf(played.height)
                          /\ \A j \in i + 1 .. spot - 1 : lines[j].kind \notin {"inf", "uri"}
      BY DEF OwnHeight
    <2>1. vs # <<>> => \E k \in DOMAIN vs : played = vs[k]
      BY <1>1, <1>2, PickedBest
    <2>2. vs # <<>>
      BY <1>1, <1>2, PickedBest
    <2>3. PICK k \in DOMAIN vs : played = vs[k]
      BY <2>1, <2>2
    <2>4. PICK i \in 1 .. Len(lines), spot \in 1 .. Len(lines) :
             Owns(lines, i, spot) /\ vs[k] = Variant(lines[spot].name, lines[i].height)
      BY <1>2
    <2>5. /\ lines[spot].kind = "uri" /\ lines[i].kind = "inf" /\ i < spot
          /\ \A j \in i + 1 .. spot - 1 : lines[j].kind \notin {"inf", "uri"}
      BY <2>4 DEF Owns, StandsAt
    <2>6. lines[spot] = Uri(lines[spot].name) /\ lines[i] = Inf(lines[i].height)
      BY <1>1, <2>5, LineTyped
    <2>7. played.url = lines[spot].name /\ played.height = lines[i].height
      BY <2>3, <2>4 DEF Variant
    <2>8. i \in DOMAIN lines /\ spot \in DOMAIN lines
      BY <1>1
    <2> QED
      BY <2>5, <2>6, <2>7, <2>8
  <1> QED
    BY <1>5, <1>6

\* One more line leaves the pick alone or is the pick.
LEMMA LengthensStable ==
    ASSUME VariantsInv, Lengthens
    PROVE  played' = played \/ played'.url = Len(lines')
  <1>1. lines \in Seq(Lines) /\ Len(lines) \in Nat /\ played = Select(ParseMaster(lines), quality)
    BY DEF VariantsInv
  <1>2. PICK line \in Lines : lines' = Append(lines, line) /\ (line.kind = "uri" => line.name = Len(lines'))
    BY LengthensTyped
  <1>3. Len(lines') = Len(lines) + 1 /\ played' = Select(ParseMaster(lines'), quality)
    BY LengthensTyped
  <1> DEFINE acc == Reading(lines)[Len(lines)]
  <1>4. Reading(Append(lines, line))[Len(lines) + 1] = ReadLine(line, acc)
    BY <1>1, <1>2, ReadingGrows
  <1>5. ParseMaster(lines) = acc.found /\ ParseMaster(lines') = ReadLine(line, acc).found
    BY <1>2, <1>3, <1>4 DEF ParseMaster
  <1>6. acc \in Readings
    <2>1. Len(lines) \in 0 .. Len(lines)
      BY <1>1
    <2>2. Reading(lines) \in [0 .. Len(lines) -> Readings]
      BY <1>1, ReadsStepwise
    <2> QED
      BY <2>1, <2>2
  <1>7. acc.found \in Seq(Streams) /\ acc.pending \in Heights \cup {NoHeight, NoPending}
    BY <1>6 DEF Readings
  <1> HIDE DEF acc
  <1>8. CASE line.kind = "uri" /\ acc.pending # NoPending
    <2> DEFINE v == Variant(line.name, acc.pending)
    <2>1. line.kind # "inf"
      BY <1>8
    <2>2. ReadLine(line, acc) = [pending |-> NoPending, found |-> Append(acc.found, v)]
      BY <1>8, <2>1 DEF ReadLine
    <2>3. v \in Streams /\ v.url = line.name
      BY <1>7, <1>8, LineTyped, VariantTyped
    <2> HIDE DEF v
    <2>4. ParseMaster(lines') = Append(acc.found, v)
      BY <1>5, <2>2
    <2>5. Select(Append(acc.found, v), quality) \in {Select(acc.found, quality), v}
      BY <1>7, <2>3, PickingGrows
    <2> QED
      BY <1>1, <1>2, <1>3, <1>5, <1>8, <2>3, <2>4, <2>5
  <1>9. CASE ~(line.kind = "uri" /\ acc.pending # NoPending)
    <2>1. ReadLine(line, acc).found = acc.found
      <3>1. CASE line.kind = "inf"
        <4>1. ReadLine(line, acc) = [acc EXCEPT !.pending = line.height]
          BY <3>1 DEF ReadLine
        <4> QED
          BY <1>6, <4>1 DEF Readings
      <3>2. CASE line.kind # "inf"
        BY <1>9, <3>2 DEF ReadLine
      <3> QED
        BY <3>1, <3>2
    <2> QED
      BY <1>1, <1>3, <1>5, <2>1
  <1> QED
    BY <1>8, <1>9

\* The cap is honoured, the height is the variant's own, and neither another line nor
\* another order takes the pick away (parse_master_playlist, select_variant).
THEOREM VariantsAreSound == VariantsSpec => VariantsSound
  <1>1. VariantsSpec => []VariantsInv
    BY VariantsInvHolds
  <1>2. VariantsInv => CapHonoured /\ OwnHeight
    BY VariantsStateSound
  <1>3. VariantsInv /\ [VariantsNext]_variantVars =>
           [Len(lines') > Len(lines) => played' = played \/ played'.url = Len(lines')]_variantVars
    <2> SUFFICES ASSUME VariantsInv, VariantsNext, Len(lines') > Len(lines)
                 PROVE  played' = played \/ played'.url = Len(lines')
      OBVIOUS
    <2>1. CASE Lengthens
      BY <2>1, LengthensStable
    <2>2. CASE Reorders
      <3>1. Len(lines') = Len(lines) /\ Len(lines) \in Nat
        BY <2>2, ReordersTyped DEF VariantsInv
      <3> QED
        BY <3>1
    <2> QED
      BY <2>1, <2>2 DEF VariantsNext
  <1>4. VariantsInv /\ [VariantsNext]_variantVars =>
           [Len(lines') = Len(lines) => played'.height = played.height]_variantVars
    <2> SUFFICES ASSUME VariantsInv, VariantsNext, Len(lines') = Len(lines)
                 PROVE  played'.height = played.height
      OBVIOUS
    <2>1. CASE Lengthens
      <3>1. Len(lines') = Len(lines) + 1 /\ Len(lines) \in Nat
        BY <2>1, LengthensTyped DEF VariantsInv
      <3> QED
        BY <3>1
    <2>2. CASE Reorders
      <3>1. /\ lines' \in Seq(Lines) /\ played' = Select(ParseMaster(lines'), quality)
            /\ HeightsOf(ParseMaster(lines')) = HeightsOf(ParseMaster(lines))
        BY <2>2, ReordersTyped
      <3>2. lines \in Seq(Lines) /\ quality \in Qualities /\ played = Select(ParseMaster(lines), quality)
        BY DEF VariantsInv
      <3>3. ParseMaster(lines') \in Seq(Streams) /\ ParseMaster(lines) \in Seq(Streams)
        BY <3>1, <3>2, ParsedIsOwned
      <3> QED
        BY <3>1, <3>2, <3>3, SelectHonoursCap
    <2> QED
      BY <2>1, <2>2 DEF VariantsNext
  <1> QED
    BY <1>1, <1>2, <1>3, <1>4, PTL DEF VariantsSpec, VariantsSound, PickStable, OrderIdle

\* The playlist stays within its lines, and the height played is one that is stated.
LEMMA VariantsTyped == VariantsSpec => []VariantsTypeOK
  <1> DEFINE Within == Len(lines) <= MaxLines
  <1>1. VariantsInit => Within
    BY VariantsAssumption DEF VariantsInit
  <1>2. VariantsInv /\ Within /\ [VariantsNext]_variantVars => Within'
    <2> SUFFICES ASSUME VariantsInv, Within, [VariantsNext]_variantVars
                 PROVE  Within'
      OBVIOUS
    <2>1. CASE Lengthens
      <3>1. Len(lines') = Len(lines) + 1 /\ Len(lines) \in Nat
        BY <2>1, LengthensTyped DEF VariantsInv
      <3>2. Len(lines) < MaxLines
        BY <2>1 DEF Lengthens
      <3> QED
        BY <3>1, <3>2, VariantsAssumption
    <2>2. CASE Reorders
      <3>1. Len(lines') = Len(lines)
        BY <2>2, ReordersTyped
      <3> QED
        BY <3>1
    <2>3. CASE UNCHANGED variantVars
      BY <2>3 DEF variantVars
    <2> QED
      BY <2>1, <2>2, <2>3 DEF VariantsNext
  <1>3. VariantsInv => quality \in Qualities /\ played.height \in Heights \cup {NoHeight}
    <2> SUFFICES ASSUME VariantsInv
                 PROVE  quality \in Qualities /\ played.height \in Heights \cup {NoHeight}
      OBVIOUS
    <2>1. lines \in Seq(Lines) /\ quality \in Qualities /\ played = Select(ParseMaster(lines), quality)
      BY DEF VariantsInv
    <2>2. ParseMaster(lines) \in Seq(Streams)
      BY <2>1, ParsedIsOwned
    <2>3. played \in Streams
      BY <2>1, <2>2, PickedBest
    <2> QED
      BY <2>1, <2>3 DEF Streams, Variant
  <1>4. VariantsInv /\ Within => VariantsTypeOK
    BY <1>3 DEF VariantsTypeOK
  <1> HIDE DEF Within
  <1> QED
    BY <1>1, <1>2, <1>4, VariantsInvHolds, PTL DEF VariantsSpec

-----------------------------------------------------------------------------
(***************************************************************************)
(* Labels: the cells of a listing, and what a pick asks for (Labels).      *)
(***************************************************************************)
\* A bounded set of naturals has a greatest member, and Max is it.
LEMMA MaxOf ==
    ASSUME NEW N \in Nat, NEW S \in SUBSET (0 .. N), S # {}
    PROVE  Max(S) \in S /\ \A x \in S : x <= Max(S)
  <1> DEFINE T == {n \in Nat : \A x \in S : x <= n}
  <1>1. N \in T /\ T \in SUBSET Nat
    OBVIOUS
  <1>2. PICK m \in T : \A k \in T : m <= k
    BY <1>1, LeastOf
  <1>3. m \in Nat /\ \A x \in S : x <= m
    BY <1>2
  <1>4. m \in S
    <2> SUFFICES ASSUME m \notin S
                 PROVE  FALSE
      OBVIOUS
    <2>1. PICK x \in S : TRUE
      OBVIOUS
    <2>2. x \in Nat /\ x <= m /\ x # m
      BY <1>3
    <2>3. m - 1 \in Nat
      BY <1>3, <2>2
    <2>4. \A y \in S : y \in Nat /\ y <= m /\ y # m
      BY <1>3
    <2>5. \A y \in S : y <= m - 1
      BY <1>3, <2>4
    <2>6. m - 1 \in T
      BY <2>3, <2>5
    <2> QED
      BY <1>2, <1>3, <2>6
  <1>5. \E x \in S : \A y \in S : x >= y
    BY <1>3, <1>4
  <1>6. Max(S) \in S /\ \A y \in S : Max(S) >= y
    BY <1>5 DEF Max
  <1> DEFINE top == Max(S)
  <1> HIDE DEF top
  <1>7. top \in S /\ \A y \in S : top >= y
    BY <1>6 DEF top
  <1>8. top \in Nat /\ \A y \in S : y \in Nat
    BY <1>7
  <1>9. \A y \in S : y <= top
    BY <1>7, <1>8
  <1> QED
    BY <1>7, <1>9 DEF top

LEMMA MinOf ==
    ASSUME NEW S \in SUBSET Nat, S # {}
    PROVE  Min(S) \in S /\ \A x \in S : Min(S) <= x
  <1>1. \E x \in S : \A y \in S : x <= y
    BY LeastOf
  <1> QED
    BY <1>1 DEF Min

\* List r is list s with e after its first k.
IsInserted(S, s, e, k, r) ==
    /\ r \in Seq(S) /\ Len(r) = Len(s) + 1 /\ r[k + 1] = e
    /\ \A i \in 1 .. k : r[i] = s[i]
    /\ \A i \in (k + 1) .. Len(s) : r[i + 1] = s[i]

\* What InsertAt makes of a list.
LEMMA PutIn ==
    ASSUME NEW S, NEW s \in Seq(S), NEW e \in S, NEW k \in 0 .. Len(s)
    PROVE  IsInserted(S, s, e, k, InsertAt(s, k + 1, e))
  <1> DEFINE front == SubSeq(s, 1, k)
             back == SubSeq(s, k + 1, Len(s))
  <1>1. (k + 1) - 1 = k /\ k \in Nat /\ Len(s) \in Nat
    OBVIOUS
  <1>2. front \in Seq(S) /\ Len(front) = k /\ \A i \in 1 .. k : front[i] = s[i]
    BY <1>1
  <1>3. back \in Seq(S) /\ Len(back) = Len(s) - k /\ \A i \in 1 .. (Len(s) - k) : back[i] = s[k + i]
    BY <1>1
  <1>4. InsertAt(s, k + 1, e) = front \o <<e>> \o back
    BY <1>1 DEF InsertAt
  <1> HIDE DEF front, back
  <1> DEFINE head == front \o <<e>>
  <1>5. <<e>> \in Seq(S) /\ Len(<<e>>) = 1 /\ <<e>>[1] = e
    OBVIOUS
  <1>6. /\ head \in Seq(S) /\ Len(head) = k + 1 /\ head[k + 1] = e
        /\ \A i \in 1 .. k : head[i] = s[i]
    BY <1>1, <1>2, <1>5
  <1> HIDE DEF head
  <1>7. /\ head \o back \in Seq(S) /\ Len(head \o back) = Len(s) + 1
        /\ \A i \in 1 .. (k + 1) : (head \o back)[i] = head[i]
        /\ \A i \in 1 .. (Len(s) - k) : (head \o back)[k + 1 + i] = back[i]
    BY <1>1, <1>3, <1>6
  <1>8. \A i \in (k + 1) .. Len(s) : (head \o back)[i + 1] = s[i]
    <2> SUFFICES ASSUME NEW i \in (k + 1) .. Len(s)
                 PROVE  (head \o back)[i + 1] = s[i]
      OBVIOUS
    <2> DEFINE j == i - k
    <2>1. j \in 1 .. (Len(s) - k) /\ k + 1 + j = i + 1 /\ k + j = i
      BY <1>1
    <2> HIDE DEF j
    <2>2. (head \o back)[k + 1 + j] = back[j]
      BY <1>7, <2>1
    <2>3. back[j] = s[k + j]
      BY <1>3, <2>1
    <2> QED
      BY <2>1, <2>2, <2>3
  <1>9. k + 1 \in 1 .. (k + 1) /\ \A i \in 1 .. k : i \in 1 .. (k + 1)
    BY <1>1
  <1>10. InsertAt(s, k + 1, e) = head \o back
    BY <1>4 DEF head
  <1> QED
    BY <1>6, <1>7, <1>8, <1>9, <1>10 DEF IsInserted

-----------------------------------------------------------------------------
Ascending(s) == \A i, j \in DOMAIN s : i < j => Key(s[i].no) <= Key(s[j].no)

Rowlists == {s \in Seq(ListedRow) : Ascending(s)}

LEMMA RowTyped ==
    \A r \in ListedRow : /\ r.no \in Nat /\ r.ok \in BOOLEAN /\ Key(r.no) \in Nat /\ Key(r.no) <= SpecialLabel
                         /\ r.no \in (0 .. MaxNumber) \cup {SpecialLabel}
  BY LabelsAssumption DEF ListedRow, Key, SpecialLabel

LEMMA RowInsertedOrdered ==
    ASSUME NEW s \in Rowlists, NEW entrant \in ListedRow
    PROVE  RowInserted(entrant, s) \in Rowlists /\ ToSet(RowInserted(entrant, s)) = ToSet(s) \cup {entrant}
  <1> DEFINE N == Len(s)
             earlier == {i \in DOMAIN s : Key(s[i].no) <= Key(entrant.no)}
             k == Max({0} \cup earlier)
             r == RowInserted(entrant, s)
  <1>1. s \in Seq(ListedRow) /\ N \in Nat /\ DOMAIN s = 1 .. N /\ Ascending(s)
    BY DEF Rowlists
  <1>2. \A i \in 1 .. N : s[i] \in ListedRow /\ Key(s[i].no) \in Nat
    BY <1>1, RowTyped
  <1>3. Key(entrant.no) \in Nat
    BY RowTyped
  <1>4. {0} \cup earlier \in SUBSET (0 .. N) /\ {0} \cup earlier # {}
    BY <1>1
  <1>5. k \in {0} \cup earlier /\ \A x \in {0} \cup earlier : x <= k
    BY <1>1, <1>4, MaxOf
  <1>6. k \in 0 .. N
    BY <1>4, <1>5
  <1>7. r = InsertAt(s, k + 1, entrant)
    BY DEF RowInserted
  <1>8. \A i \in 1 .. k : i \in 1 .. N /\ Key(s[i].no) <= Key(entrant.no)
    <2> SUFFICES ASSUME NEW i \in 1 .. k
                 PROVE  i \in 1 .. N /\ Key(s[i].no) <= Key(entrant.no)
      OBVIOUS
    <2>1. i \in 1 .. N /\ k \in 1 .. N /\ k \in earlier
      BY <1>5, <1>6
    <2>2. Key(s[k].no) <= Key(entrant.no) /\ (i = k \/ Key(s[i].no) <= Key(s[k].no))
      BY <1>1, <2>1 DEF Ascending
    <2> QED
      BY <1>2, <1>3, <2>1, <2>2
  <1>9. \A i \in (k + 1) .. N : i \in 1 .. N /\ Key(entrant.no) <= Key(s[i].no)
    <2> SUFFICES ASSUME NEW i \in (k + 1) .. N
                 PROVE  i \in 1 .. N /\ Key(entrant.no) <= Key(s[i].no)
      OBVIOUS
    <2>1. i \in 1 .. N /\ i > k
      BY <1>6
    <2>2. i \notin earlier
      BY <1>5, <1>6, <2>1
    <2>3. ~(Key(s[i].no) <= Key(entrant.no))
      BY <1>1, <2>1, <2>2
    <2> QED
      BY <1>2, <1>3, <2>1, <2>3
  <1> HIDE DEF k, r, earlier
  <1>10. /\ r \in Seq(ListedRow) /\ Len(r) = N + 1 /\ r[k + 1] = entrant
         /\ \A i \in 1 .. k : r[i] = s[i]
         /\ \A i \in (k + 1) .. N : r[i + 1] = s[i]
    <2>1. k \in 0 .. Len(s)
      BY <1>6
    <2>2. s \in Seq(ListedRow)
      BY <1>1
    <2>3. IsInserted(ListedRow, s, entrant, k, InsertAt(s, k + 1, entrant))
      BY <2>1, <2>2, PutIn
    <2> QED
      BY <1>7, <2>3 DEF IsInserted
  <1> HIDE DEF N
  <1>11. DOMAIN r = 1 .. (N + 1)
    BY <1>10
  <1>12. \A i \in 1 .. (N + 1) :
            \/ i \in 1 .. k /\ i \in 1 .. N /\ r[i] = s[i]
            \/ i = k + 1 /\ r[i] = entrant
            \/ i - 1 \in (k + 1) .. N /\ i - 1 \in 1 .. N /\ r[i] = s[i - 1]
    <2> SUFFICES ASSUME NEW i \in 1 .. (N + 1)
                 PROVE  \/ i \in 1 .. k /\ i \in 1 .. N /\ r[i] = s[i]
                        \/ i = k + 1 /\ r[i] = entrant
                        \/ i - 1 \in (k + 1) .. N /\ i - 1 \in 1 .. N /\ r[i] = s[i - 1]
      OBVIOUS
    <2>1. i \in 1 .. k \/ i = k + 1 \/ (i - 1 \in (k + 1) .. N /\ (i - 1) + 1 = i)
      BY <1>1, <1>6
    <2> QED
      BY <1>8, <1>9, <1>10, <2>1
  <1>13. Ascending(r)
    <2> SUFFICES ASSUME NEW i \in 1 .. (N + 1), NEW j \in 1 .. (N + 1), i < j
                 PROVE  Key(r[i].no) <= Key(r[j].no)
      BY <1>11 DEF Ascending
    <2>1. CASE i \in 1 .. k /\ i \in 1 .. N /\ r[i] = s[i]
      <3>1. CASE j \in 1 .. k /\ j \in 1 .. N /\ r[j] = s[j]
        BY <1>1, <2>1, <3>1 DEF Ascending
      <3>2. CASE j = k + 1 /\ r[j] = entrant
        BY <1>8, <2>1, <3>2
      <3>3. CASE j - 1 \in (k + 1) .. N /\ j - 1 \in 1 .. N /\ r[j] = s[j - 1]
        <4>1. i < j - 1
          BY <1>6, <2>1, <3>3
        <4> QED
          BY <1>1, <2>1, <3>3, <4>1 DEF Ascending
      <3> QED
        BY <1>12, <3>1, <3>2, <3>3
    <2>2. CASE i = k + 1 /\ r[i] = entrant
      <3>1. j - 1 \in (k + 1) .. N /\ r[j] = s[j - 1]
        BY <1>6, <1>12, <2>2
      <3> QED
        BY <1>9, <2>2, <3>1
    <2>3. CASE i - 1 \in (k + 1) .. N /\ i - 1 \in 1 .. N /\ r[i] = s[i - 1]
      <3>1. j - 1 \in 1 .. N /\ r[j] = s[j - 1]
        BY <1>6, <1>12, <2>3
      <3>2. i - 1 < j - 1
        BY <1>6
      <3> QED
        BY <1>1, <2>3, <3>1, <3>2 DEF Ascending
    <2> QED
      BY <1>12, <2>1, <2>2, <2>3
  <1>14. ToSet(r) = ToSet(s) \cup {entrant}
    <2>1. \A i \in 1 .. (N + 1) : r[i] \in ToSet(s) \cup {entrant}
      BY <1>1, <1>12 DEF ToSet
    <2>2. \A i \in 1 .. N : \E j \in 1 .. (N + 1) : r[j] = s[i]
      <3> SUFFICES ASSUME NEW i \in 1 .. N
                   PROVE  \E j \in 1 .. (N + 1) : r[j] = s[i]
        OBVIOUS
      <3>1. CASE i \in 1 .. k
        <4>1. i \in 1 .. (N + 1)
          BY <1>1
        <4> QED
          BY <1>10, <3>1, <4>1
      <3>2. CASE i \in (k + 1) .. N
        <4>1. i + 1 \in 1 .. (N + 1)
          BY <1>1
        <4> QED
          BY <1>10, <3>2, <4>1
      <3> QED
        BY <1>1, <1>6, <3>1, <3>2
    <2>3. k + 1 \in 1 .. (N + 1)
      BY <1>1, <1>6
    <2>4. ToSet(r) \subseteq ToSet(s) \cup {entrant}
      BY <1>11, <2>1 DEF ToSet
    <2>5. entrant \in ToSet(r)
      BY <1>10, <1>11, <2>3 DEF ToSet
    <2>6. ToSet(s) \subseteq ToSet(r)
      BY <1>1, <1>11, <2>2 DEF ToSet
    <2> QED
      BY <2>4, <2>5, <2>6
  <1>15. r \in Rowlists
    BY <1>10, <1>13 DEF Rowlists
  <1> QED
    BY <1>14, <1>15 DEF r

\* Rows are sorted one by one.
LEMMA SortsStepwise ==
    ASSUME NEW rs \in Seq(ListedRow)
    PROVE  /\ Sorting(rs) \in [0 .. Len(rs) -> Rowlists]
           /\ Sorting(rs)[0] = <<>>
           /\ \A n \in 1 .. Len(rs) : Sorting(rs)[n] = RowInserted(rs[n], Sorting(rs)[n - 1])
  <1> DEFINE N == Len(rs)
             step == [n \in 1 .. N |-> [s \in Rowlists |-> RowInserted(rs[n], s)]]
  <1>1. N \in Nat /\ \A n \in 1 .. N : rs[n] \in ListedRow
    OBVIOUS
  <1>2. <<>> \in Rowlists
    BY DEF Rowlists, Ascending
  <1>3. step \in StepFunctions(N, Rowlists)
    BY <1>1, RowInsertedOrdered DEF StepFunctions
  <1>4. \A n \in 1 .. N, s \in Rowlists : step[n][s] = RowInserted(rs[n], s)
    OBVIOUS
  <1> HIDE DEF step, N
  <1>5. PICK f \in [0 .. N -> Rowlists] : MadeUpTo(N, f, <<>>, step)
    BY <1>1, <1>2, <1>3, Recursion
  <1>6. ASSUME NEW n \in 0 .. N
        PROVE  (IF n = 0 THEN <<>> ELSE step[n][f[n - 1]]) = (IF n = 0 THEN <<>> ELSE RowInserted(rs[n], f[n - 1]))
    <2>1. CASE n # 0
      <3>1. n \in 1 .. N /\ n - 1 \in 0 .. N
        BY <1>1, <2>1
      <3>2. f[n - 1] \in Rowlists
        BY <3>1
      <3> QED
        BY <1>4, <2>1, <3>1, <3>2
    <2> QED
      BY <2>1
  <1>7. f = [n \in 0 .. N |-> IF n = 0 THEN <<>> ELSE RowInserted(rs[n], f[n - 1])]
    BY <1>5, <1>6 DEF MadeUpTo
  <1> DEFINE Sorts(g) == g = [n \in 0 .. N |-> IF n = 0 THEN <<>> ELSE RowInserted(rs[n], g[n - 1])]
  <1>8. Sorting(rs) = CHOOSE g : Sorts(g)
    BY DEF Sorting, N
  <1>9. Sorts(f)
    BY <1>7
  <1> HIDE DEF Sorts
  <1>10. Sorts(Sorting(rs))
    BY <1>8, <1>9
  <1> DEFINE sorted == Sorting(rs)
  <1>11. sorted = [n \in 0 .. N |-> IF n = 0 THEN <<>> ELSE RowInserted(rs[n], sorted[n - 1])]
    BY <1>10 DEF Sorts
  <1> HIDE DEF sorted
  <1>12. sorted[0] = <<>> /\ \A n \in 1 .. N : sorted[n] = RowInserted(rs[n], sorted[n - 1])
    <2>1. 0 \in 0 .. N /\ \A n \in 1 .. N : n \in 0 .. N /\ n # 0
      BY <1>1
    <2> QED
      BY <1>11, <2>1
  <1> DEFINE T == {n \in 0 .. N : sorted[n] \in Rowlists}
  <1>13. 0 \in T
    BY <1>1, <1>2, <1>12
  <1>14. ASSUME NEW n \in 0 .. (N - 1), n \in T
         PROVE  n + 1 \in T
    <2>1. n + 1 \in 1 .. N /\ (n + 1) - 1 = n /\ n + 1 \in 0 .. N
      BY <1>1
    <2>2. RowInserted(rs[n + 1], sorted[n]) \in Rowlists
      BY <1>1, <1>14, <2>1, RowInsertedOrdered
    <2> QED
      BY <1>12, <2>1, <2>2
  <1> HIDE DEF T
  <1>15. 0 .. N \subseteq T
    BY <1>1, <1>13, <1>14, ReachedUpTo
  <1>16. sorted \in [0 .. N -> Rowlists]
    BY <1>11, <1>15 DEF T
  <1> QED
    BY <1>12, <1>16 DEF sorted, N

LEMMA SortedSound ==
    ASSUME NEW rs \in Seq(ListedRow)
    PROVE  SortedRows(rs) \in Seq(ListedRow) /\ Ascending(SortedRows(rs)) /\ ToSet(SortedRows(rs)) = ToSet(rs)
  <1> DEFINE N == Len(rs)
             sorted == Sorting(rs)
             Upto(n) == {rs[k] : k \in 1 .. n}
             T == {n \in 0 .. N : ToSet(sorted[n]) = Upto(n)}
  <1>1. N \in Nat /\ DOMAIN rs = 1 .. N /\ \A n \in 1 .. N : rs[n] \in ListedRow
    OBVIOUS
  <1>2. /\ sorted \in [0 .. N -> Rowlists] /\ sorted[0] = <<>>
        /\ \A n \in 1 .. N : sorted[n] = RowInserted(rs[n], sorted[n - 1])
    BY SortsStepwise
  <1> HIDE DEF sorted
  <1>3. 0 \in T
    BY <1>1, <1>2 DEF ToSet
  <1>4. ASSUME NEW n \in 0 .. (N - 1), n \in T
        PROVE  n + 1 \in T
    <2>1. n + 1 \in 1 .. N /\ (n + 1) - 1 = n /\ n + 1 \in 0 .. N /\ n \in 0 .. N /\ n \in Nat
      BY <1>1
    <2>2. sorted[n] \in Rowlists /\ rs[n + 1] \in ListedRow
      BY <1>1, <1>2, <2>1
    <2>3. ToSet(sorted[n + 1]) = ToSet(sorted[n]) \cup {rs[n + 1]}
      BY <1>2, <2>1, <2>2, RowInsertedOrdered
    <2>4. 1 .. (n + 1) = (1 .. n) \cup {n + 1}
      BY <2>1
    <2>5. Upto(n + 1) = Upto(n) \cup {rs[n + 1]}
      BY <2>4
    <2> QED
      BY <1>4, <2>1, <2>3, <2>5
  <1> HIDE DEF T
  <1>5. 0 .. N \subseteq T
    BY <1>1, <1>3, <1>4, ReachedUpTo
  <1>6. N \in 0 .. N
    BY <1>1
  <1>7. ToSet(sorted[N]) = Upto(N) /\ sorted[N] \in Rowlists
    BY <1>2, <1>5, <1>6 DEF T
  <1>8. SortedRows(rs) = sorted[N]
    BY DEF SortedRows, sorted
  <1> QED
    BY <1>1, <1>7, <1>8 DEF Rowlists, ToSet

-----------------------------------------------------------------------------
\* The places the kept rows come from.
KeptFrom(rs, keeping, n, res, from) ==
    /\ from \in [1 .. Len(res) -> 1 .. n]
    /\ \A k \in 1 .. Len(res) : from[k] \in keeping /\ res[k] = rs[from[k]]
    /\ \A k, l \in 1 .. Len(res) : k < l => from[k] < from[l]
    /\ \A i \in keeping : i \in 1 .. n => \E k \in 1 .. Len(res) : from[k] = i

LEMMA KeepsStepwise ==
    ASSUME NEW rs \in Seq(ListedRow), NEW keeping
    PROVE  /\ Keeping(rs, keeping) \in [0 .. Len(rs) -> Seq(ListedRow)]
           /\ Keeping(rs, keeping)[0] = <<>>
           /\ \A n \in 1 .. Len(rs) : Keeping(rs, keeping)[n] =
                 IF n \in keeping THEN Append(Keeping(rs, keeping)[n - 1], rs[n]) ELSE Keeping(rs, keeping)[n - 1]
  <1> DEFINE N == Len(rs)
             take(n, s) == IF n \in keeping THEN Append(s, rs[n]) ELSE s
             step == [n \in 1 .. N |-> [s \in Seq(ListedRow) |-> take(n, s)]]
  <1>1. N \in Nat /\ \A n \in 1 .. N : rs[n] \in ListedRow
    OBVIOUS
  <1>2. <<>> \in Seq(ListedRow)
    OBVIOUS
  <1>3. ASSUME NEW n \in 1 .. N, NEW s \in Seq(ListedRow)
        PROVE  take(n, s) \in Seq(ListedRow)
    <2>1. rs[n] \in ListedRow
      BY <1>1
    <2>2. Append(s, rs[n]) \in Seq(ListedRow)
      BY <2>1
    <2> QED
      BY <2>2
  <1> HIDE DEF take, N
  <1>4. step \in StepFunctions(N, Seq(ListedRow))
    BY <1>3 DEF StepFunctions
  <1>5. \A n \in 1 .. N, s \in Seq(ListedRow) : step[n][s] = take(n, s)
    OBVIOUS
  <1> HIDE DEF step
  <1>6. PICK f \in [0 .. N -> Seq(ListedRow)] : MadeUpTo(N, f, <<>>, step)
    BY <1>1, <1>2, <1>4, Recursion
  <1>7. ASSUME NEW n \in 0 .. N
        PROVE  (IF n = 0 THEN <<>> ELSE step[n][f[n - 1]]) = (IF n = 0 THEN <<>> ELSE take(n, f[n - 1]))
    <2>1. CASE n # 0
      <3>1. n \in 1 .. N /\ n - 1 \in 0 .. N
        BY <1>1, <2>1
      <3>2. f[n - 1] \in Seq(ListedRow)
        BY <3>1
      <3> QED
        BY <1>5, <2>1, <3>1, <3>2
    <2> QED
      BY <2>1
  <1>8. f = [n \in 0 .. N |-> IF n = 0 THEN <<>> ELSE take(n, f[n - 1])]
    BY <1>6, <1>7 DEF MadeUpTo
  <1> DEFINE KeepsAll(g) == g = [n \in 0 .. N |-> IF n = 0 THEN <<>> ELSE take(n, g[n - 1])]
  <1>9. Keeping(rs, keeping) = CHOOSE g : KeepsAll(g)
    BY DEF Keeping, take, N
  <1>10. KeepsAll(f)
    BY <1>8
  <1> HIDE DEF KeepsAll
  <1>11. KeepsAll(Keeping(rs, keeping))
    BY <1>9, <1>10
  <1> DEFINE rest == Keeping(rs, keeping)
  <1>12. rest = [n \in 0 .. N |-> IF n = 0 THEN <<>> ELSE take(n, rest[n - 1])]
    BY <1>11 DEF KeepsAll
  <1> HIDE DEF rest
  <1>13. rest[0] = <<>> /\ \A n \in 1 .. N : rest[n] = take(n, rest[n - 1])
    <2>1. 0 \in 0 .. N /\ \A n \in 1 .. N : n \in 0 .. N /\ n # 0
      BY <1>1
    <2> QED
      BY <1>12, <2>1
  <1> DEFINE T == {n \in 0 .. N : rest[n] \in Seq(ListedRow)}
  <1>14. 0 \in T
    <2>1. 0 \in 0 .. N
      BY <1>1
    <2>2. rest[0] \in Seq(ListedRow)
      BY <1>2, <1>13
    <2> QED
      BY <2>1, <2>2
  <1>15. ASSUME NEW n \in 0 .. (N - 1), n \in T
         PROVE  n + 1 \in T
    <2>1. n + 1 \in 1 .. N /\ (n + 1) - 1 = n /\ n + 1 \in 0 .. N
      BY <1>1
    <2>2. take(n + 1, rest[n]) \in Seq(ListedRow)
      BY <1>3, <1>15, <2>1
    <2> QED
      BY <1>13, <2>1, <2>2
  <1> HIDE DEF T
  <1>16. 0 .. N \subseteq T
    BY <1>1, <1>14, <1>15, ReachedUpTo
  <1>17. rest \in [0 .. N -> Seq(ListedRow)]
    BY <1>12, <1>16 DEF T
  <1> QED
    BY <1>13, <1>17 DEF rest, take, N

LEMMA KeepsOn ==
    ASSUME NEW rs \in Seq(ListedRow), NEW keeping, NEW n \in Nat, n + 1 <= Len(rs), NEW res \in Seq(ListedRow),
           NEW from, KeptFrom(rs, keeping, n, res, from)
    PROVE  /\ n + 1 \notin keeping => KeptFrom(rs, keeping, n + 1, res, from)
           /\ n + 1 \in keeping => \E onward : KeptFrom(rs, keeping, n + 1, Append(res, rs[n + 1]), onward)
  <1> DEFINE m == Len(res)
  <1>1. /\ from \in [1 .. m -> 1 .. n]
        /\ \A k \in 1 .. m : from[k] \in keeping /\ res[k] = rs[from[k]]
        /\ \A k, l \in 1 .. m : k < l => from[k] < from[l]
        /\ \A i \in keeping : i \in 1 .. n => \E k \in 1 .. m : from[k] = i
    BY DEF KeptFrom
  <1>2. m \in Nat /\ \A i \in 1 .. n : i \in 1 .. (n + 1)
    OBVIOUS
  <1>3. \A i \in 1 .. (n + 1) : i \in 1 .. n \/ i = n + 1
    OBVIOUS
  <1>4. CASE n + 1 \notin keeping
    <2>1. from \in [1 .. m -> 1 .. (n + 1)]
      BY <1>1, <1>2
    <2>2. \A i \in keeping : i \in 1 .. (n + 1) => \E k \in 1 .. m : from[k] = i
      BY <1>1, <1>3, <1>4
    <2> QED
      BY <1>1, <1>4, <2>1, <2>2 DEF KeptFrom
  <1>5. CASE n + 1 \in keeping
    <2> DEFINE r == rs[n + 1]
               more == Append(res, r)
               onward == [k \in 1 .. (m + 1) |-> IF k = m + 1 THEN n + 1 ELSE from[k]]
    <2>1. r \in ListedRow
      OBVIOUS
    <2> HIDE DEF r
    <2>2. Len(more) = m + 1 /\ more[m + 1] = r /\ \A k \in 1 .. m : more[k] = res[k]
      BY <2>1
    <2>3. \A k \in 1 .. (m + 1) : k \in 1 .. m \/ k = m + 1
      BY <1>2
    <2>4. m + 1 \in 1 .. (m + 1) /\ onward[m + 1] = n + 1 /\ \A k \in 1 .. m : k \in 1 .. (m + 1) /\ onward[k] = from[k]
      BY <1>2
    <2>5. n + 1 \in 1 .. (n + 1) /\ \A k \in 1 .. m : from[k] \in 1 .. n /\ from[k] < n + 1
      BY <1>1
    <2>6. onward \in [1 .. (m + 1) -> 1 .. (n + 1)]
      BY <1>2, <2>3, <2>5
    <2> HIDE DEF onward, more, m
    <2>7. \A k \in 1 .. (m + 1) : onward[k] \in keeping /\ more[k] = rs[onward[k]]
      BY <1>1, <1>5, <2>2, <2>3, <2>4 DEF r
    <2>8. \A k, l \in 1 .. (m + 1) : k < l => onward[k] < onward[l]
      <3> SUFFICES ASSUME NEW k \in 1 .. (m + 1), NEW l \in 1 .. (m + 1), k < l
                   PROVE  onward[k] < onward[l]
        OBVIOUS
      <3>1. k \in 1 .. m
        BY <1>2
      <3>2. CASE l = m + 1
        BY <2>4, <2>5, <3>1, <3>2
      <3>3. CASE l \in 1 .. m
        BY <1>1, <2>4, <3>1, <3>3
      <3> QED
        BY <2>3, <3>2, <3>3
    <2>9. \A i \in keeping : i \in 1 .. (n + 1) => \E k \in 1 .. (m + 1) : onward[k] = i
      BY <1>1, <1>3, <2>4
    <2>10. KeptFrom(rs, keeping, n + 1, more, onward)
      BY <2>2, <2>6, <2>7, <2>8, <2>9 DEF KeptFrom
    <2> QED
      BY <1>5, <2>10 DEF more, r
  <1> QED
    BY <1>4, <1>5

\* What is kept is the kept rows in their order.
LEMMA KeptSound ==
    ASSUME NEW rs \in Seq(ListedRow), NEW keeping
    PROVE  Kept(rs, keeping) \in Seq(ListedRow) /\ \E from : KeptFrom(rs, keeping, Len(rs), Kept(rs, keeping), from)
  <1> DEFINE N == Len(rs)
             rest == Keeping(rs, keeping)
             DrawnFrom(n) == \E from : KeptFrom(rs, keeping, n, rest[n], from)
             T == {n \in 0 .. N : DrawnFrom(n)}
  <1>1. N \in Nat
    OBVIOUS
  <1>2. /\ rest \in [0 .. N -> Seq(ListedRow)] /\ rest[0] = <<>>
        /\ \A n \in 1 .. N : rest[n] = IF n \in keeping THEN Append(rest[n - 1], rs[n]) ELSE rest[n - 1]
    BY KeepsStepwise
  <1> HIDE DEF rest
  <1>3. 0 \in T
    <2>1. KeptFrom(rs, keeping, 0, <<>>, [k \in 1 .. 0 |-> 0])
      BY DEF KeptFrom
    <2> QED
      BY <1>1, <1>2, <2>1
  <1>4. ASSUME NEW n \in 0 .. (N - 1), n \in T
        PROVE  n + 1 \in T
    <2>1. n \in Nat /\ n \in 0 .. N /\ n + 1 \in 1 .. N /\ (n + 1) - 1 = n /\ n + 1 \in 0 .. N /\ n + 1 <= Len(rs)
      BY <1>1
    <2>2. PICK from : KeptFrom(rs, keeping, n, rest[n], from)
      BY <1>4
    <2>3. rest[n] \in Seq(ListedRow)
      BY <1>2, <2>1
    <2>4. /\ n + 1 \notin keeping => KeptFrom(rs, keeping, n + 1, rest[n], from)
          /\ n + 1 \in keeping => \E onward : KeptFrom(rs, keeping, n + 1, Append(rest[n], rs[n + 1]), onward)
      BY <2>1, <2>2, <2>3, KeepsOn
    <2>5. DrawnFrom(n + 1)
      BY <1>2, <2>1, <2>4
    <2> QED
      BY <2>1, <2>5
  <1> HIDE DEF T
  <1>5. 0 .. N \subseteq T
    BY <1>1, <1>3, <1>4, ReachedUpTo
  <1>6. N \in 0 .. N
    BY <1>1
  <1>7. DrawnFrom(N) /\ rest[N] \in Seq(ListedRow)
    BY <1>2, <1>5, <1>6 DEF T
  <1>8. Kept(rs, keeping) = rest[N]
    BY DEF Kept, rest
  <1> QED
    BY <1>7, <1>8

\* The set of them.
LEMMA KeptSet ==
    ASSUME NEW rs \in Seq(ListedRow), NEW keeping \in SUBSET (DOMAIN rs)
    PROVE  Kept(rs, keeping) \in Seq(ListedRow) /\ ToSet(Kept(rs, keeping)) = {rs[i] : i \in keeping}
  <1> DEFINE res == Kept(rs, keeping)
  <1>1. res \in Seq(ListedRow)
    BY KeptSound
  <1>2. PICK from : KeptFrom(rs, keeping, Len(rs), res, from)
    BY KeptSound
  <1> HIDE DEF res
  <1>3. /\ \A k \in 1 .. Len(res) : from[k] \in keeping /\ res[k] = rs[from[k]]
        /\ \A i \in keeping : \E k \in 1 .. Len(res) : from[k] = i
    BY <1>2 DEF KeptFrom
  <1>4. DOMAIN res = 1 .. Len(res)
    BY <1>1
  <1>5. ToSet(res) = {rs[i] : i \in keeping}
    BY <1>3, <1>4 DEF ToSet
  <1> QED
    BY <1>1, <1>5 DEF res

-----------------------------------------------------------------------------
Numbers(s) == {s[i].no : i \in DOMAIN s}

Rising(s) == \A i, j \in DOMAIN s : i < j => s[i].no < s[j].no

\* Of sorted rows one of each number is left, in order.
LEMMA DistinctSound ==
    ASSUME NEW s \in Seq(ListedRow), Ascending(s), \A i \in DOMAIN s : s[i].no < SpecialLabel
    PROVE  /\ Distinct(s) \in Seq(ListedRow) /\ Rising(Distinct(s))
           /\ Numbers(Distinct(s)) = Numbers(s) /\ ToSet(Distinct(s)) \subseteq ToSet(s)
  <1> DEFINE N == Len(s)
             keeping == {i \in DOMAIN s : i = 1 \/ s[i - 1].no # s[i].no}
             res == Kept(s, keeping)
  <1>1. N \in Nat /\ DOMAIN s = 1 .. N /\ \A i \in 1 .. N : s[i] \in ListedRow /\ s[i].no \in Nat /\ Key(s[i].no) = s[i].no
    BY RowTyped DEF Key
  <1>2. \A i, j \in 1 .. N : i < j => s[i].no <= s[j].no
    BY <1>1 DEF Ascending
  <1>3. res \in Seq(ListedRow)
    BY KeptSound
  <1>4. PICK from : KeptFrom(s, keeping, N, res, from)
    BY KeptSound
  <1>5. Distinct(s) = res
    BY DEF Distinct
  <1>6. \A i \in keeping : i \in 1 .. N /\ (i = 1 \/ s[i - 1].no # s[i].no)
    BY <1>1
  <1>7. \A i \in 1 .. N : i = 1 \/ s[i - 1].no # s[i].no => i \in keeping
    BY <1>1
  <1> HIDE DEF res, keeping, N
  <1>8. /\ from \in [1 .. Len(res) -> 1 .. N] /\ DOMAIN res = 1 .. Len(res)
        /\ \A k \in 1 .. Len(res) : from[k] \in keeping /\ res[k] = s[from[k]]
        /\ \A k, l \in 1 .. Len(res) : k < l => from[k] < from[l]
        /\ \A i \in keeping : i \in 1 .. N => \E k \in 1 .. Len(res) : from[k] = i
    BY <1>3, <1>4 DEF KeptFrom
  <1>9. Rising(res)
    <2> SUFFICES ASSUME NEW k \in 1 .. Len(res), NEW l \in 1 .. Len(res), k < l
                 PROVE  res[k].no < res[l].no
      BY <1>8 DEF Rising
    <2> DEFINE a == from[k]
               b == from[l]
    <2>1. a \in 1 .. N /\ b \in 1 .. N /\ a < b /\ b \in keeping /\ res[k] = s[a] /\ res[l] = s[b]
      BY <1>8
    <2> HIDE DEF a, b
    <2>2. b # 1 /\ b - 1 \in 1 .. N /\ b - 1 < b /\ (a = b - 1 \/ a < b - 1)
      BY <1>1, <2>1
    <2>3. s[b - 1].no # s[b].no
      BY <1>6, <2>1, <2>2
    <2> DEFINE c == b - 1
    <2>5. c \in 1 .. N /\ c < b /\ (a = c \/ a < c)
      BY <2>2
    <2> HIDE DEF c
    <2>6. s[c].no <= s[b].no
      BY <1>2, <2>1, <2>5
    <2>7. s[a].no <= s[c].no
      <3>1. CASE a = c
        BY <1>1, <2>5, <3>1
      <3>2. CASE a < c
        BY <1>2, <2>1, <2>5, <3>2
      <3> QED
        BY <2>5, <3>1, <3>2
    <2>4. s[a].no <= s[b - 1].no /\ s[b - 1].no <= s[b].no
      BY <2>6, <2>7 DEF c
    <2> QED
      BY <1>1, <2>1, <2>2, <2>3, <2>4
  <1>10. ASSUME NEW i \in 1 .. N
         PROVE  \E k \in 1 .. Len(res) : res[k].no = s[i].no
    <2> DEFINE Same == {j \in Nat : j \in 1 .. N /\ s[j].no = s[i].no}
    <2>1. Same \in SUBSET Nat /\ i \in Same
      BY <1>1
    <2>2. PICK j \in Same : \A m \in Same : j <= m
      BY <2>1, LeastOf
    <2>3. j \in 1 .. N /\ s[j].no = s[i].no
      BY <2>2
    <2>4. j \in keeping
      <3> SUFFICES ASSUME j # 1, s[j - 1].no = s[j].no
                   PROVE  FALSE
        BY <1>7, <2>3
      <3>1. j - 1 \in 1 .. N /\ j - 1 \in Nat
        BY <1>1, <2>3
      <3>2. j - 1 \in Same
        BY <2>3, <3>1
      <3> QED
        BY <2>2, <2>3, <3>1, <3>2
    <2> QED
      BY <1>8, <2>3, <2>4
  <1>11. \A k \in 1 .. Len(res) : \E i \in 1 .. N : res[k] = s[i]
    BY <1>8
  <1>12. Numbers(res) = Numbers(s)
    <2>1. Numbers(res) \subseteq Numbers(s)
      BY <1>1, <1>8, <1>11 DEF Numbers
    <2>2. Numbers(s) \subseteq Numbers(res)
      BY <1>1, <1>8, <1>10 DEF Numbers
    <2> QED
      BY <2>1, <2>2
  <1>13. ToSet(res) \subseteq ToSet(s)
    BY <1>1, <1>8, <1>11 DEF ToSet
  <1> QED
    BY <1>3, <1>5, <1>9, <1>12, <1>13

\* The whole numbers a site has a page for.
WholeNumbers(rs) == {rs[i].no : i \in {j \in DOMAIN rs : rs[j].ok /\ Whole(rs[j].no) /\ rs[j].no > 0}}

WholeRows(rs) == Distinct(SortedRows(NumberedRows(rs)))

LEMMA WholeRowsSound ==
    ASSUME NEW rs \in Seq(ListedRow)
    PROVE  /\ WholeRows(rs) \in Seq(ListedRow) /\ Rising(WholeRows(rs))
           /\ Numbers(WholeRows(rs)) = WholeNumbers(rs)
           /\ \A n \in WholeNumbers(rs) : n \in Nat /\ n >= 10 /\ n < SpecialLabel
  <1> DEFINE keeping == {i \in DOMAIN rs : rs[i].ok /\ Whole(rs[i].no) /\ rs[i].no > 0}
             a == NumberedRows(rs)
             b == SortedRows(a)
  <1>1. keeping \in SUBSET (DOMAIN rs) /\ a = Kept(rs, keeping)
    BY DEF NumberedRows
  <1>2. a \in Seq(ListedRow) /\ ToSet(a) = {rs[i] : i \in keeping}
    BY <1>1, KeptSet
  <1>3. b \in Seq(ListedRow) /\ Ascending(b) /\ ToSet(b) = ToSet(a)
    BY <1>2, SortedSound
  <1>4. \A i \in keeping : rs[i] \in ListedRow /\ rs[i].no \in Nat /\ rs[i].no > 0 /\ Whole(rs[i].no)
    BY RowTyped
  <1>5. \A n \in Nat : n > 0 /\ Whole(n) => n >= 10 /\ n < SpecialLabel
    BY DEF Whole
  <1> HIDE DEF keeping, a, b
  <1>6. Numbers(b) = {rs[i].no : i \in keeping}
    <2>1. Numbers(b) = {r.no : r \in ToSet(b)}
      BY DEF Numbers, ToSet
    <2> QED
      BY <1>2, <1>3, <2>1
  <1>7. \A n \in Numbers(b) : n \in Nat /\ n >= 10 /\ n < SpecialLabel
    BY <1>4, <1>5, <1>6
  <1>8. \A i \in DOMAIN b : b[i].no < SpecialLabel
    BY <1>7 DEF Numbers
  <1>9. Distinct(b) \in Seq(ListedRow) /\ Rising(Distinct(b)) /\ Numbers(Distinct(b)) = Numbers(b)
    BY <1>3, <1>8, DistinctSound
  <1>10. WholeRows(rs) = Distinct(b) /\ WholeNumbers(rs) = Numbers(b)
    BY <1>6 DEF WholeRows, WholeNumbers, a, b, keeping
  <1> QED
    BY <1>7, <1>9, <1>10

\* The first of rising rows is the least, and there is one if there is any number.
LEMMA FirstIsLeast ==
    ASSUME NEW s \in Seq(ListedRow), Rising(s)
    PROVE  /\ s = <<>> <=> Numbers(s) = {}
           /\ s # <<>> => s[1].no \in Numbers(s) /\ \A n \in Numbers(s) : s[1].no <= n
  <1>1. Len(s) \in Nat /\ DOMAIN s = 1 .. Len(s) /\ (s = <<>> <=> Len(s) = 0)
    OBVIOUS
  <1>2. \A i \in 1 .. Len(s) : s[i].no \in Nat
    BY RowTyped
  <1>3. s # <<>> => 1 \in 1 .. Len(s)
    BY <1>1
  <1>4. ASSUME NEW i \in 1 .. Len(s)
        PROVE  s[1].no <= s[i].no
    <2>1. 1 \in 1 .. Len(s) /\ (i = 1 \/ 1 < i)
      BY <1>1
    <2> QED
      BY <1>1, <1>2, <2>1 DEF Rising
  <1>5. s = <<>> => Numbers(s) = {}
    BY <1>1 DEF Numbers
  <1>6. s # <<>> => s[1].no \in Numbers(s)
    BY <1>1, <1>3 DEF Numbers
  <1> QED
    BY <1>1, <1>4, <1>5, <1>6 DEF Numbers

-----------------------------------------------------------------------------
\* A listing as provider w makes it.
GridOf(w, g) ==
    /\ g = [i \in 1 .. Len(g) |-> g[i]] /\ Len(g) \in Nat
    /\ \A i \in DOMAIN g : g[i].label \in Nat /\ g[i].no \in Nat
    /\ w # "anidbapp" => \A i \in DOMAIN g : g[i].label = g[i].no
    /\ w = "anidbapp" => \A i \in DOMAIN g :
          /\ g[i].no < SpecialLabel /\ g[1].no >= 10 /\ g[1].no <= g[i].no
          /\ g[i].label = g[i].no - (g[1].no - 10)
    /\ \A i, j \in DOMAIN g : i < j =>
          /\ Key(g[i].label) <= Key(g[j].label)
          /\ w \notin {"senshi", "allanime"} => g[i].label # g[j].label

LEMMA CellsOf ==
    ASSUME NEW s \in Seq(ListedRow), NEW offset \in Int
    PROVE  /\ DOMAIN Cells(s, offset) = 1 .. Len(s) /\ Len(Cells(s, offset)) = Len(s)
           /\ Cells(s, offset) = [i \in 1 .. Len(Cells(s, offset)) |-> Cells(s, offset)[i]]
           /\ Len(Cells(s, offset)) \in Nat
           /\ \A i \in 1 .. Len(s) : Cells(s, offset)[i].label = s[i].no - offset /\ Cells(s, offset)[i].no = s[i].no
  <1>1. DOMAIN s = 1 .. Len(s) /\ Len(s) \in Nat
    OBVIOUS
  <1> DEFINE cellAt(i) == Cell(s[i].no - offset, s[i].no)
             g == [i \in 1 .. Len(s) |-> cellAt(i)]
  <1>2. Cells(s, offset) = g
    BY <1>1 DEF Cells
  <1>3. \A i \in 1 .. Len(s) : cellAt(i).label = s[i].no - offset /\ cellAt(i).no = s[i].no
    BY DEF Cell
  <1> HIDE DEF cellAt
  <1>4. Len(g) = Len(s) /\ DOMAIN g = 1 .. Len(s) /\ g = [i \in 1 .. Len(s) |-> g[i]]
    BY <1>1
  <1>5. \A i \in 1 .. Len(s) : g[i] = cellAt(i)
    OBVIOUS
  <1> HIDE DEF g
  <1> QED
    BY <1>1, <1>2, <1>3, <1>4, <1>5

\* Sorted rows make a listing of those whose labels are the numbers.
LEMMA PlainGrid ==
    ASSUME NEW s \in Seq(ListedRow), NEW w \in Providers, w # "anidbapp",
           Ascending(s), w \notin {"senshi", "allanime"} => Rising(s)
    PROVE  GridOf(w, Cells(s, 0))
  <1> DEFINE g == Cells(s, 0)
  <1>1. /\ DOMAIN g = 1 .. Len(s) /\ g = [i \in 1 .. Len(g) |-> g[i]] /\ Len(g) \in Nat
        /\ \A i \in 1 .. Len(s) : g[i].label = s[i].no - 0 /\ g[i].no = s[i].no
    BY CellsOf
  <1> HIDE DEF g
  <1>2. \A i \in 1 .. Len(s) : s[i].no \in Nat
    BY RowTyped
  <1>3. \A i \in 1 .. Len(s) : g[i].label = s[i].no /\ g[i].no = s[i].no /\ g[i].label \in Nat
    BY <1>1, <1>2
  <1>4. DOMAIN s = 1 .. Len(s)
    OBVIOUS
  <1>5. \A i, j \in 1 .. Len(s) : i < j => Key(g[i].label) <= Key(g[j].label)
    BY <1>3, <1>4 DEF Ascending
  <1>6. w \notin {"senshi", "allanime"} => \A i, j \in 1 .. Len(s) : i < j => g[i].label # g[j].label
    BY <1>2, <1>3, <1>4 DEF Rising
  <1>7. GridOf(w, g)
    BY <1>1, <1>3, <1>5, <1>6 DEF GridOf
  <1> QED
    BY <1>7 DEF g

LEMMA RisingOrdered ==
    ASSUME NEW s \in Seq(ListedRow), Rising(s), \A n \in Numbers(s) : n < SpecialLabel
    PROVE  Ascending(s)
  <1>1. \A i \in DOMAIN s : s[i].no \in Nat /\ s[i].no < SpecialLabel
    BY RowTyped DEF Numbers
  <1>2. \A i \in DOMAIN s : Key(s[i].no) = s[i].no
    BY <1>1 DEF Key, SpecialLabel
  <1> QED
    BY <1>1, <1>2 DEF Rising, Ascending

LEMMA CutRises ==
    ASSUME NEW s \in Seq(ListedRow), Rising(s), NEW n \in Nat
    PROVE  Cut(s, n) \in Seq(ListedRow) /\ Rising(Cut(s, n)) /\ Numbers(Cut(s, n)) \subseteq Numbers(s)
  <1>1. CASE Len(s) > n
    <2> DEFINE c == SubSeq(s, 1, n)
    <2>1. c \in Seq(ListedRow) /\ Len(c) = n /\ \A i \in 1 .. n : c[i] = s[i] /\ i \in DOMAIN s
      BY <1>1
    <2>2. Cut(s, n) = c
      BY <1>1 DEF Cut
    <2> HIDE DEF c
    <2>3. DOMAIN c = 1 .. n
      BY <2>1
    <2> QED
      BY <2>1, <2>2, <2>3 DEF Rising, Numbers
  <1>2. CASE ~(Len(s) > n)
    BY <1>2 DEF Cut
  <1> QED
    BY <1>1, <1>2

\* Every provider makes such a listing (episodes).
LEMMA GridSound ==
    ASSUME NEW w \in Providers, NEW rs \in Seq(ListedRow), NEW hint \in Nat
    PROVE  /\ GridOf(w, Grid(w, rs, hint))
           /\ w = "anidbapp" /\ Grid(w, rs, hint) # <<>> =>
                 WholeRows(rs) # <<>> /\ Grid(w, rs, hint)[1].no = WholeRows(rs)[1].no
  <1> DEFINE p == WholeRows(rs)
  <1>1. /\ p \in Seq(ListedRow) /\ Rising(p) /\ Len(p) \in Nat /\ DOMAIN p = 1 .. Len(p)
        /\ \A n \in Numbers(p) : n \in Nat /\ n >= 10 /\ n < SpecialLabel
    BY WholeRowsSound
  <1>2. AnidbappRows(rs) = p /\ AnibdRows(rs) = p /\ AninekoRows(rs) = Cut(p, HintCap)
    BY DEF AnidbappRows, AnibdRows, AninekoRows, WholeRows
  <1> HIDE DEF p
  <1>3. Ascending(p)
    BY <1>1, RisingOrdered
  <1>4. CASE w = "megaplay"
    <2>1. Grid(w, rs, hint) = MegaplayGrid(rs, hint)
      BY <1>4 DEF Grid
    <2>2. CASE ~SiteOffers(rs, 10)
      <3>1. Grid(w, rs, hint) = <<>>
        BY <2>1, <2>2 DEF MegaplayGrid
      <3>2. GridOf(w, <<>>)
        BY DEF GridOf
      <3> QED
        BY <1>4, <3>1, <3>2
    <2>3. CASE SiteOffers(rs, 10)
      <3> DEFINE n == IF hint < 1 THEN 1 ELSE IF hint > HintCap THEN HintCap ELSE hint
                 cellAt(i) == Cell(10 * i, 10 * i)
                 g == [i \in 1 .. n |-> cellAt(i)]
      <3>1. n \in Nat /\ HintCap \in Nat
        BY LabelsAssumption
      <3>2. Grid(w, rs, hint) = g
        BY <2>1, <2>3 DEF MegaplayGrid
      <3> HIDE DEF n
      <3>3. \A i \in 1 .. n : cellAt(i).label = 10 * i /\ cellAt(i).no = 10 * i
        BY DEF Cell
      <3> HIDE DEF cellAt
      <3>4. Len(g) = n /\ DOMAIN g = 1 .. n /\ g = [i \in 1 .. Len(g) |-> g[i]] /\ \A i \in 1 .. n : g[i] = cellAt(i)
        BY <3>1
      <3> HIDE DEF g
      <3>5. \A i \in 1 .. n : g[i].label = 10 * i /\ g[i].no = 10 * i /\ 10 * i \in Nat
        BY <3>1, <3>3, <3>4
      <3>6. \A i, j \in 1 .. n : i < j => Key(10 * i) <= Key(10 * j) /\ 10 * i # 10 * j
        BY <3>1 DEF Key, SpecialLabel
      <3>7. GridOf(w, g)
        BY <1>4, <3>1, <3>4, <3>5, <3>6 DEF GridOf
      <3> QED
        BY <1>4, <3>2, <3>7
    <2> QED
      BY <2>2, <2>3
  <1>5. CASE w = "anidbapp"
    <2> DEFINE off == Offset(p)
               g == Cells(p, off)
    <2>1. Grid(w, rs, hint) = g
      BY <1>2, <1>5 DEF Grid
    <2>2. /\ p = <<>> <=> Numbers(p) = {}
          /\ p # <<>> => p[1].no \in Numbers(p) /\ \A n \in Numbers(p) : p[1].no <= n
      BY <1>1, FirstIsLeast
    <2>3. off \in Int /\ (p # <<>> => off = p[1].no - 10)
      BY <1>1, <2>2 DEF Offset
    <2> HIDE DEF off
    <2>4. /\ DOMAIN g = 1 .. Len(p) /\ Len(g) = Len(p) /\ g = [i \in 1 .. Len(g) |-> g[i]] /\ Len(g) \in Nat
          /\ \A i \in 1 .. Len(p) : g[i].label = p[i].no - off /\ g[i].no = p[i].no
      BY <1>1, <2>3, CellsOf
    <2> HIDE DEF g
    <2>5. \A i \in 1 .. Len(p) : p[i].no \in Numbers(p) /\ p # <<>> /\ 1 \in 1 .. Len(p)
      BY <1>1 DEF Numbers
    <2>6. \A i \in 1 .. Len(p) : p[i].no \in Nat /\ p[i].no < SpecialLabel /\ p[1].no \in Nat /\ p[1].no >= 10 /\ p[1].no <= p[i].no
      BY <1>1, <2>2, <2>5
    <2>7. \A i \in 1 .. Len(p) : /\ g[i].no = p[i].no /\ g[1].no = p[1].no
                                 /\ g[i].label = p[i].no - (p[1].no - 10) /\ g[i].label \in Nat
                                 /\ g[i].label < SpecialLabel /\ Key(g[i].label) = g[i].label
      <3> SUFFICES ASSUME NEW i \in 1 .. Len(p)
                   PROVE  /\ g[i].no = p[i].no /\ g[1].no = p[1].no
                          /\ g[i].label = p[i].no - (p[1].no - 10) /\ g[i].label \in Nat
                          /\ g[i].label < SpecialLabel /\ Key(g[i].label) = g[i].label
        OBVIOUS
      <3>1. g[i].no = p[i].no /\ g[1].no = p[1].no /\ g[i].label = p[i].no - (p[1].no - 10)
        BY <2>3, <2>4, <2>5
      <3>2. g[i].label \in Nat /\ g[i].label < SpecialLabel
        BY <2>6, <3>1 DEF SpecialLabel
      <3> QED
        BY <3>1, <3>2 DEF Key, SpecialLabel
    <2>8. \A i, j \in 1 .. Len(p) : i < j => p[i].no < p[j].no
      BY <1>1 DEF Rising
    <2>9. \A i, j \in 1 .. Len(p) : i < j => Key(g[i].label) <= Key(g[j].label) /\ g[i].label # g[j].label
      <3> SUFFICES ASSUME NEW i \in 1 .. Len(p), NEW j \in 1 .. Len(p), i < j
                   PROVE  Key(g[i].label) <= Key(g[j].label) /\ g[i].label # g[j].label
        OBVIOUS
      <3> DEFINE a == g[i].label
                 b == g[j].label
                 x == p[i].no
                 y == p[j].no
                 z == p[1].no
      <3>1. x < y
        BY <2>8
      <3>2. a = x - (z - 10) /\ b = y - (z - 10) /\ Key(a) = a /\ Key(b) = b
        BY <2>7
      <3>3. x \in Nat /\ y \in Nat /\ z \in Nat
        BY <2>6
      <3> HIDE DEF a, b, x, y, z
      <3>4. a <= b /\ a # b
        BY <3>1, <3>2, <3>3
      <3>5. Key(a) <= Key(b) /\ a # b
        BY <3>2, <3>4
      <3> QED
        BY <3>5 DEF a, b
    <2>10. GridOf(w, g)
      <3>1. \A i \in DOMAIN g : g[i].label \in Nat /\ g[i].no \in Nat
        BY <2>4, <2>6, <2>7
      <3>2. \A i \in DOMAIN g : /\ g[i].no < SpecialLabel /\ g[1].no >= 10 /\ g[1].no <= g[i].no
                                 /\ g[i].label = g[i].no - (g[1].no - 10)
        BY <2>4, <2>6, <2>7
      <3>3. \A i, j \in DOMAIN g : i < j => Key(g[i].label) <= Key(g[j].label) /\ g[i].label # g[j].label
        BY <2>4, <2>9
      <3> QED
        BY <1>5, <2>4, <3>1, <3>2, <3>3 DEF GridOf
    <2>11. g # <<>> => p # <<>> /\ g[1].no = p[1].no
      <3> SUFFICES ASSUME g # <<>>
                   PROVE  p # <<>> /\ g[1].no = p[1].no
        OBVIOUS
      <3>1. Len(p) # 0
        BY <2>4
      <3>2. 1 \in 1 .. Len(p)
        BY <1>1, <3>1
      <3> QED
        BY <2>5, <2>7, <3>2
    <2> QED
      BY <2>1, <2>10, <2>11 DEF p
  <1>6. CASE w = "anibd"
    <2>1. GridOf(w, Cells(p, 0))
      BY <1>1, <1>3, <1>6, PlainGrid
    <2> QED
      BY <1>2, <1>6, <2>1 DEF Grid
  <1>7. CASE w = "anineko"
    <2> DEFINE c == Cut(p, HintCap)
    <2>1. c \in Seq(ListedRow) /\ Rising(c) /\ Numbers(c) \subseteq Numbers(p)
      BY <1>1, CutRises, LabelsAssumption
    <2> HIDE DEF c
    <2>2. Ascending(c)
      BY <1>1, <2>1, RisingOrdered
    <2>3. GridOf(w, Cells(c, 0))
      BY <1>7, <2>1, <2>2, PlainGrid
    <2> QED
      BY <1>2, <1>7, <2>3 DEF Grid, c
  <1>8. CASE w = "senshi"
    <2> DEFINE keeping == {i \in DOMAIN rs : rs[i].no > 0 /\ rs[i].no < SpecialLabel}
    <2>1. Kept(rs, keeping) \in Seq(ListedRow)
      BY KeptSound
    <2>2. SenshiRows(rs) \in Seq(ListedRow) /\ Ascending(SenshiRows(rs))
      BY <2>1, SortedSound DEF SenshiRows
    <2>3. GridOf(w, Cells(SenshiRows(rs), 0))
      BY <1>8, <2>2, PlainGrid
    <2> QED
      BY <1>8, <2>3 DEF Grid
  <1>9. CASE w = "allanime"
    <2>1. AllanimeRows(rs) \in Seq(ListedRow) /\ Ascending(AllanimeRows(rs))
      BY SortedSound DEF AllanimeRows
    <2>2. GridOf(w, Cells(AllanimeRows(rs), 0))
      BY <1>9, <2>1, PlainGrid
    <2> QED
      BY <1>9, <2>2 DEF Grid
  <1> QED
    BY <1>4, <1>5, <1>6, <1>7, <1>8, <1>9 DEF Providers

-----------------------------------------------------------------------------
\* Among places the first of them is one.
LEMMA FirstOfIs ==
    ASSUME NEW S \in SUBSET (Nat \ {0})
    PROVE  /\ FirstOf(S) \in S \cup {NoServer}
           /\ FirstOf(S) # NoServer => FirstOf(S) \in S
           /\ S # {} => FirstOf(S) \in S
  <1>1. S # {} => Min(S) \in S
    BY MinOf
  <1> QED
    BY <1>1 DEF FirstOf

\* The stream that is taken is of the track.
LEMMA ServerOfTrack ==
    ASSUME NEW w \in Providers, NEW track \in Tracks, NEW servers \in ServerLists, ServerFor(w, servers, track) # NoServer
    PROVE  TrackOf(servers[ServerFor(w, servers, track)]) = track
  <1> DEFINE of == OfTrack(servers, track)
  <1>1. DOMAIN servers \in SUBSET (Nat \ {0})
    BY LabelsAssumption
  <1>2. of \in SUBSET (Nat \ {0}) /\ \A i \in of : TrackOf(servers[i]) = track
    BY <1>1 DEF OfTrack
  <1>3. CASE w = "senshi"
    <2> DEFINE scored == {i \in DOMAIN servers : servers[i].usable /\ MatchScore(servers[i], track) > 0}
               top == {i \in scored : \A j \in scored : MatchScore(servers[j], track) <= MatchScore(servers[i], track)}
               i == FirstOf(top)
    <2>1. ServerFor(w, servers, track) = i
      BY <1>3 DEF ServerFor, BestServer
    <2>2. top \in SUBSET (Nat \ {0}) /\ \A j \in top : MatchScore(servers[j], track) > 0
      BY <1>1
    <2> HIDE DEF top
    <2>3. i \in top
      BY <2>1, <2>2, FirstOfIs
    <2>4. MatchScore(servers[i], track) > 0
      BY <2>2, <2>3
    <2> HIDE DEF i
    <2>5. track = "dub" => SaysDub(servers[i])
      BY <2>4 DEF MatchScore
    <2>7. track = "sub" /\ SaysDub(servers[i]) => MatchScore(servers[i], track) = 0
      BY DEF MatchScore, SaysDub
    <2>6. track = "sub" => ~SaysDub(servers[i])
      BY <2>4, <2>7
    <2> QED
      BY <2>1, <2>5, <2>6 DEF TrackOf, Tracks
  <1>4. CASE w = "anineko"
    <2> DEFINE usable == {i \in of : servers[i].usable}
    <2>1. ServerFor(w, servers, track) = FirstOf(usable)
      BY <1>4 DEF ServerFor, AninekoServer
    <2>2. usable \in SUBSET (Nat \ {0}) /\ usable \subseteq of
      BY <1>2
    <2> HIDE DEF usable
    <2>3. FirstOf(usable) \in of
      BY <2>1, <2>2, FirstOfIs
    <2> QED
      BY <1>2, <2>1, <2>3
  <1>5. CASE w \in {"megaplay", "allanime", "anidbapp", "anibd"}
    <2>1. ServerFor(w, servers, track) = OnlyFirst(servers, track)
      BY <1>5 DEF ServerFor, MegaplayServer, AllanimeServer, AnidbappServer, AnibdServer
    <2>2. OnlyFirst(servers, track) = FirstOf(of)
      BY <2>1 DEF OnlyFirst
    <2> HIDE DEF of
    <2>3. FirstOf(of) \in of
      BY <1>2, <2>1, <2>2, FirstOfIs
    <2> QED
      BY <1>2, <2>1, <2>2, <2>3
  <1> QED
    BY <1>3, <1>4, <1>5 DEF Providers

\* The caption that is taken is one, and in English unless the host says otherwise or
\* has none.
LEMMA CaptionPicked ==
    ASSUME NEW w \in {"megaplay", "senshi", "anibd"}, NEW caps \in Captions
    PROVE  LET i == Guarded(caps, PickCaption(w, caps))
           IN  /\ i \in 0 .. Len(caps)
               /\ i # NoServer =>
                     /\ caps[i].safe /\ IsCaption(w, caps[i])
                     /\ caps[i].english \/ caps[i].default
                        \/ \A j \in DOMAIN caps : IsCaption(w, caps[j]) => ~caps[j].english
  <1> DEFINE some == {i \in DOMAIN caps : IsCaption(w, caps[i])}
             english == {i \in some : caps[i].english}
             chosen == {i \in some : caps[i].default}
             c == PickCaption(w, caps)
  <1>1. DOMAIN caps = 1 .. Len(caps) /\ Len(caps) \in Nat
    BY LabelsAssumption
  <1>2. some \in SUBSET (Nat \ {0}) /\ english \in SUBSET (Nat \ {0}) /\ chosen \in SUBSET (Nat \ {0})
    BY <1>1
  <1>3. /\ some \subseteq 1 .. Len(caps) /\ \A i \in some : IsCaption(w, caps[i])
        /\ \A i \in english : i \in some /\ caps[i].english
        /\ \A i \in chosen : i \in some /\ caps[i].default
        /\ english = {} => \A j \in DOMAIN caps : IsCaption(w, caps[j]) => ~caps[j].english
    BY <1>1
  <1>4. /\ c = IF w = "anibd" THEN English(caps, some) ELSE DefaultOrEnglish(caps, some)
        /\ English(caps, some) = IF english # {} THEN Min(english) ELSE FirstOf(some)
        /\ DefaultOrEnglish(caps, some) = IF chosen # {} THEN Min(chosen) ELSE English(caps, some)
    BY DEF PickCaption, English, DefaultOrEnglish
  <1> HIDE DEF some, english, chosen, c
  <1>5. /\ english # {} => Min(english) \in english
        /\ chosen # {} => Min(chosen) \in chosen
        /\ FirstOf(some) \in some \cup {NoServer}
    BY <1>2, MinOf, FirstOfIs
  <1>6. c \in some \cup {NoServer}
    BY <1>3, <1>4, <1>5
  <1>7. c # NoServer => caps[c].english \/ caps[c].default \/ english = {}
    BY <1>3, <1>4, <1>5
  <1> DEFINE i == Guarded(caps, c)
  <1>8. i \in {c, NoServer} /\ (i # NoServer => i = c /\ caps[i].safe)
    BY DEF Guarded
  <1> HIDE DEF i
  <1>9. i \in 0 .. Len(caps)
    BY <1>1, <1>3, <1>6, <1>8 DEF NoServer
  <1>10. i # NoServer =>
            /\ caps[i].safe /\ IsCaption(w, caps[i])
            /\ caps[i].english \/ caps[i].default
               \/ \A j \in DOMAIN caps : IsCaption(w, caps[j]) => ~caps[j].english
    BY <1>3, <1>6, <1>7, <1>8
  <1> QED
    BY <1>9, <1>10 DEF i, c

-----------------------------------------------------------------------------
\* What a stream was asked for: the number of its label today, of its track.
StreamOf(g, w, rs) ==
    g # NoStream => g.no = AskedFor(w, rs, g.label) /\ TrackOf(g.server) = g.track

\* The first row of the site is the one the listing starts with.
StartsAlike(g, w, rs) ==
    w = "anidbapp" /\ g # <<>> => WholeRows(rs) # <<>> /\ WholeRows(rs)[1].no = g[1].no

LabelsInv ==
    /\ who \in Providers /\ moved \in BOOLEAN /\ rows \in Seq(ListedRow)
    /\ base \in Nat /\ (who # "anidbapp" => base = 0)
    /\ GridOf(who, grid)
    /\ ~moved => StartsAlike(grid, who, rows)
    /\ StreamOf(got, who, rows)
    /\ cues.picked \in 0 .. Len(cues.caps) /\ CaptionFits

LEMMA LabelsSoundState ==
    ASSUME LabelsInv
    PROVE  LabelsTypeOK /\ LabelsHonest
  <1>1. /\ who \in Providers /\ moved \in BOOLEAN /\ rows \in Seq(ListedRow)
        /\ base \in Nat /\ (who # "anidbapp" => base = 0)
        /\ GridOf(who, grid) /\ (~moved => StartsAlike(grid, who, rows)) /\ StreamOf(got, who, rows)
        /\ cues.picked \in 0 .. Len(cues.caps) /\ CaptionFits
    BY DEF LabelsInv
  <1>2. /\ \A i \in DOMAIN grid : grid[i].label \in Nat /\ grid[i].no \in Nat
        /\ who # "anidbapp" => \A i \in DOMAIN grid : grid[i].label = grid[i].no
        /\ who = "anidbapp" => \A i \in DOMAIN grid :
              /\ grid[i].no < SpecialLabel /\ grid[1].no >= 10 /\ grid[1].no <= grid[i].no
              /\ grid[i].label = grid[i].no - (grid[1].no - 10)
        /\ \A i, j \in DOMAIN grid : i < j =>
              /\ Key(grid[i].label) <= Key(grid[j].label)
              /\ who \notin {"senshi", "allanime"} => grid[i].label # grid[j].label
        /\ Len(grid) \in Nat /\ DOMAIN grid = 1 .. Len(grid)
    BY <1>1 DEF GridOf
  <1>3. \A i \in DOMAIN grid : grid # <<>> /\ grid[1].no \in Nat
    <2>1. \A i \in DOMAIN grid : 1 \in DOMAIN grid
      BY <1>2
    <2> QED
      BY <1>2, <2>1
  <1>4. LabelsTypeOK
    <2>1. \A i \in DOMAIN rows : rows[i].no \in (0 .. MaxNumber) \cup {SpecialLabel}
      BY <1>1, RowTyped
    <2>2. \A i \in DOMAIN grid : grid[i].label >= 0
      BY <1>2
    <2> QED
      BY <1>1, <2>1, <2>2 DEF LabelsTypeOK
  <1>5. LabelKeeps
    <2> SUFFICES ASSUME got # NoStream, ~moved, NEW i \in DOMAIN grid, grid[i].label = got.label
                 PROVE  grid[i].no = got.no
      BY DEF LabelKeeps
    <2>1. got.no = AskedFor(who, rows, got.label)
      BY <1>1 DEF StreamOf
    <2>2. CASE who # "anidbapp"
      <3>1. AskedFor(who, rows, got.label) = got.label + 0
        BY <2>2 DEF AskedFor
      <3> QED
        BY <1>2, <2>1, <2>2, <3>1
    <2>3. CASE who = "anidbapp"
      <3>1. WholeRows(rows) # <<>> /\ WholeRows(rows)[1].no = grid[1].no
        BY <1>1, <1>3, <2>3 DEF StartsAlike
      <3>2. AnidbappRows(rows) = WholeRows(rows)
        BY DEF AnidbappRows, WholeRows
      <3>3. AskedFor(who, rows, got.label) = got.label + (grid[1].no - 10)
        BY <2>3, <3>1, <3>2 DEF AskedFor, Offset
      <3> QED
        BY <1>2, <1>3, <2>1, <2>3, <3>3
    <2> QED
      BY <2>2, <2>3
  <1>6. OneNumbering
    <2> SUFFICES ASSUME grid # <<>>, grid[1].no = base + 10, NEW i \in DOMAIN grid, grid[i].no < SpecialLabel
                 PROVE  grid[i].label = grid[i].no - base
      BY DEF OneNumbering
    <2>1. CASE who # "anidbapp"
      BY <1>1, <1>2, <2>1
    <2>2. CASE who = "anidbapp"
      <3>1. grid[i].label = grid[i].no - (grid[1].no - 10) /\ grid[1].no \in Nat /\ grid[i].no \in Nat
        BY <1>2, <1>3, <2>2
      <3> QED
        BY <1>1, <3>1
    <2> QED
      BY <2>1, <2>2
  <1>7. GridInOrder
    BY <1>2 DEF GridInOrder
  <1>8. TrackHeld
    BY <1>1 DEF StreamOf, TrackHeld
  <1> QED
    BY <1>1, <1>4, <1>5, <1>6, <1>7, <1>8 DEF LabelsHonest

\* The site's next number is a row that comes after all it has numbered.
LEMMA NextRow ==
    ASSUME NEW rs \in Seq(ListedRow),
           NEW last, last = Max({0} \cup ({rs[i].no : i \in DOMAIN rs} \ {SpecialLabel})), last + 10 <= MaxNumber
    PROVE  LET m == ((last + 10) \div 10) * 10
           IN  [no |-> m, ok |-> TRUE] \in ListedRow /\ \A i \in DOMAIN rs : rs[i].no < SpecialLabel => rs[i].no < m
  <1> DEFINE S == {0} \cup ({rs[i].no : i \in DOMAIN rs} \ {SpecialLabel})
             m == ((last + 10) \div 10) * 10
  <1>1. MaxNumber \in Nat
    BY LabelsAssumption
  <1>2. S \in SUBSET (0 .. MaxNumber) /\ S # {}
    BY <1>1, RowTyped
  <1>3. last \in S /\ \A x \in S : x <= last
    BY <1>1, <1>2, MaxOf
  <1>4. \A i \in DOMAIN rs : rs[i].no < SpecialLabel => rs[i].no \in S
    BY DEF SpecialLabel
  <1> HIDE DEF S
  <1>5. last \in Nat
    BY <1>2, <1>3
  <1>6. m \in Nat /\ last < m /\ m <= last + 10
    BY <1>5
  <1>7. \A i \in DOMAIN rs : rs[i].no < SpecialLabel => rs[i].no < m
    <2> SUFFICES ASSUME NEW i \in DOMAIN rs, rs[i].no < SpecialLabel
                 PROVE  rs[i].no < m
      OBVIOUS
    <2>1. rs[i].no \in Nat /\ rs[i].no <= last
      BY <1>3, <1>4, RowTyped
    <2> HIDE DEF m
    <2> QED
      BY <1>5, <1>6, <2>1
  <1>8. m \in 0 .. MaxNumber
    BY <1>1, <1>5, <1>6
  <1> HIDE DEF m
  <1>9. [no |-> m, ok |-> TRUE] \in ListedRow
    BY <1>8 DEF ListedRow
  <1> QED
    BY <1>7, <1>9 DEF m

\* A row after all others leaves the first of the listing where it is.
LEMMA FirstStays ==
    ASSUME NEW rs \in Seq(ListedRow), NEW r \in ListedRow,
           \A i \in DOMAIN rs : rs[i].no < SpecialLabel => rs[i].no < r.no,
           WholeRows(rs) # <<>>
    PROVE  WholeRows(Append(rs, r)) # <<>> /\ WholeRows(Append(rs, r))[1].no = WholeRows(rs)[1].no
  <1> DEFINE a == Append(rs, r)
             p == WholeRows(rs)
             q == WholeRows(a)
  <1>1. /\ a \in Seq(ListedRow) /\ DOMAIN a = 1 .. Len(rs) + 1 /\ Len(rs) \in Nat /\ DOMAIN rs = 1 .. Len(rs)
        /\ a[Len(rs) + 1] = r /\ \A i \in 1 .. Len(rs) : a[i] = rs[i]
    OBVIOUS
  <1> HIDE DEF a
  <1>2. \A i \in DOMAIN rs : i \in DOMAIN a /\ a[i] = rs[i]
    BY <1>1
  <1>3. \A i \in DOMAIN a : (i \in DOMAIN rs /\ a[i] = rs[i]) \/ a[i] = r
    BY <1>1
  <1>4. WholeNumbers(rs) \subseteq WholeNumbers(a) /\ WholeNumbers(a) \subseteq WholeNumbers(rs) \cup {r.no}
    BY <1>2, <1>3 DEF WholeNumbers
  <1>5. \A n \in WholeNumbers(rs) : n < r.no
    <2>1. \A n \in WholeNumbers(rs) : n < SpecialLabel /\ \E i \in DOMAIN rs : n = rs[i].no
      BY WholeRowsSound DEF WholeNumbers
    <2> QED
      BY <2>1
  <1>6. /\ p \in Seq(ListedRow) /\ Rising(p) /\ Numbers(p) = WholeNumbers(rs)
        /\ q \in Seq(ListedRow) /\ Rising(q) /\ Numbers(q) = WholeNumbers(a)
        /\ \A n \in WholeNumbers(rs) : n \in Nat
        /\ \A n \in WholeNumbers(a) : n \in Nat
    BY <1>1, WholeRowsSound
  <1> HIDE DEF p, q
  <1>7. p # <<>>
    BY DEF p
  <1>8. p[1].no \in WholeNumbers(rs) /\ \A n \in WholeNumbers(rs) : p[1].no <= n
    BY <1>6, <1>7, FirstIsLeast
  <1>9. q # <<>>
    BY <1>4, <1>6, <1>8, FirstIsLeast
  <1>10. q[1].no \in WholeNumbers(a) /\ \A n \in WholeNumbers(a) : q[1].no <= n
    BY <1>6, <1>9, FirstIsLeast
  <1>11. q[1].no <= p[1].no /\ p[1].no < r.no /\ p[1].no \in Nat /\ q[1].no \in Nat
    BY <1>4, <1>5, <1>6, <1>8, <1>10
  <1>12. q[1].no # r.no
    BY <1>11
  <1>13. q[1].no \in WholeNumbers(rs)
    BY <1>4, <1>10, <1>12
  <1>14. p[1].no <= q[1].no
    BY <1>8, <1>13
  <1>15. q[1].no = p[1].no
    BY <1>11, <1>14
  <1> QED
    BY <1>9, <1>15 DEF p, q, a

LEMMA LabelsInitGood ==
    ASSUME LabelsInit
    PROVE  LabelsInv
  <1>1. PICK l \in Listings : (who # "anidbapp" => l.base = 0) /\ base = l.base /\ rows = l.rows
    BY DEF LabelsInit
  <1>2. /\ who \in Providers /\ grid = <<>> /\ moved = FALSE /\ got = NoStream /\ cues = NoPage
    BY DEF LabelsInit
  <1>3. base \in Nat /\ rows \in Seq(ListedRow) /\ (who # "anidbapp" => base = 0)
    BY <1>1, LabelsAssumption
  <1>4. GridOf(who, <<>>)
    BY DEF GridOf
  <1>5. StartsAlike(grid, who, rows) /\ StreamOf(got, who, rows)
    BY <1>2 DEF StartsAlike, StreamOf
  <1>6. cues.picked = NoServer /\ cues.caps = <<>> /\ Len(<<>>) = 0
    BY <1>2 DEF NoPage
  <1>7. cues.picked \in 0 .. Len(cues.caps) /\ CaptionFits
    BY <1>6 DEF CaptionFits, NoServer
  <1> QED
    BY <1>2, <1>3, <1>4, <1>5, <1>7 DEF LabelsInv

LEMMA LabelsInvHolds ==
    ASSUME LabelsInv, [LabelsNext]_labelVars
    PROVE  LabelsInv'
  <1>1. /\ who \in Providers /\ moved \in BOOLEAN /\ rows \in Seq(ListedRow)
        /\ base \in Nat /\ (who # "anidbapp" => base = 0)
        /\ GridOf(who, grid) /\ (~moved => StartsAlike(grid, who, rows)) /\ StreamOf(got, who, rows)
        /\ cues.picked \in 0 .. Len(cues.caps) /\ CaptionFits
    BY DEF LabelsInv
  <1>2. \A w, rs : StreamOf(NoStream, w, rs)
    BY DEF StreamOf
  <1>3. UNCHANGED cues => (cues.picked \in 0 .. Len(cues.caps))' /\ (UNCHANGED who => CaptionFits')
    BY <1>1 DEF CaptionFits
  <1>4. CASE SiteGrows
    <2> DEFINE last == Max({0} \cup ({rows[i].no : i \in DOMAIN rows} \ {SpecialLabel}))
               r == [no |-> ((last + 10) \div 10) * 10, ok |-> TRUE]
    <2>1. /\ last + 10 <= MaxNumber /\ rows' = Append(rows, r) /\ got = NoStream
          /\ UNCHANGED <<who, base, grid, moved, got, cues>>
      BY <1>4 DEF SiteGrows, Untouched
    <2> HIDE DEF last
    <2>2. r \in ListedRow /\ \A i \in DOMAIN rows : rows[i].no < SpecialLabel => rows[i].no < r.no
      <3>1. r \in ListedRow /\ \A i \in DOMAIN rows : rows[i].no < SpecialLabel => rows[i].no < ((last + 10) \div 10) * 10
        BY <1>1, <2>1, NextRow DEF last
      <3>2. r.no = ((last + 10) \div 10) * 10
        OBVIOUS
      <3> QED
        BY <3>1, <3>2
    <2> HIDE DEF r
    <2>3. rows' \in Seq(ListedRow)
      BY <1>1, <2>1, <2>2
    <2>4. ~moved => StartsAlike(grid, who, rows')
      <3> SUFFICES ASSUME ~moved, who = "anidbapp", grid # <<>>
                   PROVE  WholeRows(rows') # <<>> /\ WholeRows(rows')[1].no = grid[1].no
        BY DEF StartsAlike
      <3>1. WholeRows(rows) # <<>> /\ WholeRows(rows)[1].no = grid[1].no
        BY <1>1 DEF StartsAlike
      <3> QED
        BY <1>1, <2>1, <2>2, <3>1, FirstStays
    <2> QED
      BY <1>1, <1>2, <1>3, <2>1, <2>3, <2>4 DEF LabelsInv
  <1>5. CASE SiteDrops
    <2> DEFINE keeping == {i \in DOMAIN rows : rows[i].no # Min({rows[j].no : j \in DOMAIN rows})}
    <2>1. /\ rows' = Kept(rows, keeping) /\ moved' = (grid # <<>>) /\ got = NoStream
          /\ UNCHANGED <<who, base, grid, got, cues>>
      BY <1>5 DEF SiteDrops, Untouched
    <2> HIDE DEF keeping
    <2>2. rows' \in Seq(ListedRow)
      BY <1>1, <2>1, KeptSound
    <2>3. moved' \in BOOLEAN /\ (~moved' => StartsAlike(grid, who, rows'))
      BY <2>1 DEF StartsAlike
    <2> QED
      BY <1>1, <1>2, <1>3, <2>1, <2>2, <2>3 DEF LabelsInv
  <1>6. CASE Forgets
    <2>1. got' = NoStream /\ cues' = NoPage /\ UNCHANGED <<who, base, rows, grid, moved>>
      BY <1>6 DEF Forgets
    <2>2. cues'.picked = NoServer /\ cues'.caps = <<>> /\ Len(<<>>) = 0
      BY <2>1 DEF NoPage
    <2>3. (cues.picked \in 0 .. Len(cues.caps))' /\ CaptionFits'
      BY <2>2 DEF CaptionFits, NoServer
    <2> QED
      BY <1>1, <1>2, <2>1, <2>3 DEF LabelsInv
  <1>7. ASSUME NEW hint \in 0 .. HintCap + 1, Lists(hint)
        PROVE  LabelsInv'
    <2>1. /\ grid' = Grid(who, rows, hint) /\ moved' = FALSE /\ got = NoStream
          /\ UNCHANGED <<who, base, rows, got, cues>>
      BY <1>7 DEF Lists, Untouched
    <2>2. hint \in Nat
      OBVIOUS
    <2>3. GridOf(who, grid') /\ StartsAlike(grid', who, rows)
      BY <1>1, <2>1, <2>2, GridSound DEF StartsAlike
    <2> QED
      BY <1>1, <1>2, <1>3, <2>1, <2>3 DEF LabelsInv
  <1>8. ASSUME NEW label \in LabelsHeld, NEW track \in Tracks, NEW servers \in ServerLists,
               Resolves(label, track, servers)
        PROVE  LabelsInv'
    <2> DEFINE n == AskedFor(who, rows, label)
               i == ServerFor(who, servers, track)
    <2>1. /\ i # NoServer /\ got' = [label |-> label, track |-> track, no |-> n, server |-> servers[i]]
          /\ UNCHANGED <<who, base, rows, grid, moved, cues>>
      BY <1>8 DEF Resolves
    <2>2. TrackOf(servers[i]) = track
      BY <1>1, <2>1, ServerOfTrack
    <2>3. got'.label = label /\ got'.track = track /\ got'.no = n /\ got'.server = servers[i]
      BY <2>1
    <2>4. StreamOf(got', who, rows)
      BY <2>2, <2>3 DEF StreamOf
    <2> QED
      BY <1>1, <1>3, <2>1, <2>4 DEF LabelsInv
  <1>9. ASSUME NEW caps \in Captions, Captioned(caps)
        PROVE  LabelsInv'
    <2> DEFINE i == Guarded(caps, PickCaption(who, caps))
    <2>1. /\ who \in {"megaplay", "senshi", "anibd"} /\ cues' = [caps |-> caps, picked |-> i]
          /\ UNCHANGED <<who, base, rows, grid, moved, got>>
      BY <1>9 DEF Captioned
    <2>2. /\ i \in 0 .. Len(caps)
          /\ i # NoServer =>
                /\ caps[i].safe /\ IsCaption(who, caps[i])
                /\ caps[i].english \/ caps[i].default
                   \/ \A j \in DOMAIN caps : IsCaption(who, caps[j]) => ~caps[j].english
      BY <2>1, CaptionPicked
    <2> HIDE DEF i
    <2>3. cues'.caps = caps /\ cues'.picked = i
      BY <2>1
    <2>4. (cues.picked \in 0 .. Len(cues.caps))' /\ CaptionFits'
      BY <2>1, <2>2, <2>3 DEF CaptionFits
    <2> QED
      BY <1>1, <2>1, <2>4 DEF LabelsInv
  <1>10. CASE UNCHANGED labelVars
    BY <1>1, <1>3, <1>10 DEF labelVars, LabelsInv
  <1> QED
    BY <1>4, <1>5, <1>6, <1>7, <1>8, <1>9, <1>10 DEF LabelsNext

\* The five together: a label keeps its episode while the site only grows, listings
\* share one numbering and one order, a stream is of the track asked for, and a caption
\* fits (src/providers/*.rs).
THEOREM LabelsAreHonest == LabelsSpec => [](LabelsTypeOK /\ LabelsHonest)
  <1>1. LabelsInit => LabelsInv
    BY LabelsInitGood
  <1>2. LabelsInv /\ [LabelsNext]_labelVars => LabelsInv'
    BY LabelsInvHolds
  <1>3. LabelsInv => LabelsTypeOK /\ LabelsHonest
    BY LabelsSoundState
  <1> QED
    BY <1>1, <1>2, <1>3, PTL DEF LabelsSpec

-----------------------------------------------------------------------------
(***************************************************************************)
(* The match: the hit of a search that is bound (Matching).                *)
(***************************************************************************)
\* A set of integers with a bound has a greatest member, and Max is it.
LEMMA TopOf ==
    ASSUME NEW B \in Int, NEW S \in SUBSET Int, S # {}, \A x \in S : x <= B
    PROVE  Max(S) \in S /\ \A x \in S : x <= Max(S)
  <1> DEFINE T == {n \in Nat : B - n \in S}
  <1>1. T \in SUBSET Nat /\ T # {}
    <2>1. PICK x \in S : TRUE
      OBVIOUS
    <2>2. x \in Int /\ x <= B
      OBVIOUS
    <2>3. B - x \in Nat /\ B - (B - x) = x
      BY <2>2
    <2>4. B - x \in T
      BY <2>3
    <2> QED
      BY <2>4
  <1>2. PICK m \in T : \A k \in T : m <= k
    BY <1>1, LeastOf
  <1>3. m \in Nat /\ B - m \in S
    BY <1>2
  <1>4. ASSUME NEW x \in S
        PROVE  x <= B - m
    <2>1. x \in Int /\ x <= B
      OBVIOUS
    <2>2. B - x \in Nat /\ B - (B - x) = x
      BY <2>1
    <2>3. m <= B - x
      BY <1>2, <2>2
    <2> QED
      BY <1>3, <2>1, <2>3
  <1>5. \E x \in S : \A y \in S : x >= y
    <2>1. \A y \in S : y \in Int /\ B - m >= y
      BY <1>3, <1>4
    <2> QED
      BY <1>3, <2>1
  <1> DEFINE top == Max(S)
  <1>6. top \in S /\ \A y \in S : top >= y
    BY <1>5 DEF Max
  <1> HIDE DEF top
  <1>7. \A y \in S : y <= top
    BY <1>6
  <1> QED
    BY <1>6, <1>7 DEF top

LEMMA ListHas ==
    ASSUME NEW S, NEW s \in Seq(S)
    PROVE  /\ Len(s) \in Nat /\ DOMAIN s = 1 .. Len(s) /\ (s = <<>> <=> Len(s) = 0)
           /\ s # <<>> <=> 1 \in DOMAIN s
  OBVIOUS

\* A set of naturals that has a least member has it as its Min.
LEMMA LeastIsMin ==
    ASSUME NEW S \in SUBSET Nat, S # {}
    PROVE  Min(S) \in S /\ \A x \in S : Min(S) <= x
  <1>1. \E x \in S : \A y \in S : x <= y
    BY LeastOf
  <1> QED
    BY <1>1 DEF Min

-----------------------------------------------------------------------------
(***************************************************************************)
(* Scores.                                                                 *)
(***************************************************************************)
SiteHit == {HitOf(p, w) : p \in SearchSites, w \in Works}

LEMMA HitTyped ==
    ASSUME NEW h \in SiteHit
    PROVE  h.titles # {} /\ h.eps \in Nat /\ h.year \in Nat
  <1>1. PICK p \in SearchSites, w \in Works : h = HitOf(p, w)
    BY DEF SiteHit
  <1>2. w.titles # {} /\ w.eps \in Nat /\ w.year \in Nat /\ Unknown \in Nat
    BY MatchAssumption DEF Unknown
  <1>3. \A i, e, y : /\ HitRecord(i, w, e, y).titles = w.titles /\ HitRecord(i, w, e, y).eps = e
                     /\ HitRecord(i, w, e, y).year = y
    BY DEF HitRecord
  <1>4. CASE p = "senshi"
    BY <1>1, <1>2, <1>3, <1>4 DEF HitOf, SenshiHit
  <1>5. CASE p = "anidbapp"
    BY <1>1, <1>2, <1>3, <1>5 DEF HitOf, AnidbappHit
  <1>6. CASE p = "anineko"
    BY <1>1, <1>2, <1>3, <1>6 DEF HitOf, AninekoHit
  <1>7. CASE p = "allanime"
    BY <1>1, <1>2, <1>3, <1>7 DEF HitOf, AllanimeHit
  <1> QED
    BY <1>4, <1>5, <1>6, <1>7 DEF SearchSites

TitleValues == {Exact, 1250, 900, NoOverlap}

LEMMA TitleScored ==
    ASSUME NEW a, NEW b
    PROVE  /\ TitleScore(a, b) \in TitleValues
           /\ TitleScore(a, b) = Exact => TitleScore(b, a) = Exact
  BY DEF TitleScore, TitleValues

LEMMA BestTitled ==
    ASSUME NEW s, NEW h, s.titles # {}, h.titles # {}
    PROVE  /\ BestTitle(s, h) \in TitleValues
           /\ \A a \in s.titles, b \in h.titles : TitleScore(a, b) <= BestTitle(s, h)
  <1> DEFINE S == {TitleScore(a, b) : a \in s.titles, b \in h.titles}
  <1>1. S \subseteq TitleValues /\ S # {}
    <2>1. \A a \in s.titles, b \in h.titles : TitleScore(a, b) \in TitleValues
      BY TitleScored
    <2>2. \E a \in s.titles, b \in h.titles : TRUE
      OBVIOUS
    <2> QED
      BY <2>1, <2>2
  <1>2. BestTitle(s, h) = Max(S)
    BY DEF BestTitle
  <1>3. \A a \in s.titles, b \in h.titles : TitleScore(a, b) \in S
    OBVIOUS
  <1> HIDE DEF S
  <1>4. S \in SUBSET Int /\ \A x \in S : x <= Exact
    BY <1>1 DEF TitleValues, Exact, NoOverlap
  <1>5. Exact \in Int
    BY DEF Exact
  <1>6. Max(S) \in S /\ \A x \in S : x <= Max(S)
    BY <1>1, <1>4, <1>5, TopOf
  <1> QED
    BY <1>1, <1>2, <1>3, <1>6

\* The extremes of a score.
LEMMA Scored ==
    ASSUME NEW s \in Shows, NEW h \in SiteHit
    PROVE  /\ BestTitle(s, h) \in TitleValues /\ Score(s, h) \in Int
           /\ Score(s, h) <= BestTitle(s, h) + 300
           /\ BestTitle(s, h) < 0 => Score(s, h) < 0
           /\ AnotherWork(s, h) => Score(s, h) < 0
           /\ BestTitle(s, h) = Exact /\ ~AnotherWork(s, h) => Score(s, h) >= 1320
           /\ Score(s, h) <= 1900
           /\ BestTitle(s, h) = Exact /\ (EpsKnown(s, h) => s.eps = h.eps)
                 /\ (BothKnown(s.year, h.year) => s.year = h.year) => Score(s, h) >= BestFloor
  <1> DEFINE t == BestTitle(s, h)
             e == EpsScore(s, h)
             y == YearScore(s, h)
  <1>1. /\ s.titles # {} /\ s.eps \in Nat /\ s.year \in Nat
        /\ h.titles # {} /\ h.eps \in Nat /\ h.year \in Nat
    BY MatchAssumption, HitTyped
  <1>2. t \in TitleValues
    BY <1>1, BestTitled
  <1>3. e \in {180, 120, 60, 0, -120} /\ y \in {120, 40, 0, -160}
    BY DEF EpsScore, YearScore
  <1>6. (EpsKnown(s, h) => s.eps = h.eps) => ~AnotherWork(s, h)
    BY <1>1 DEF AnotherWork, Apart
  <1>7. /\ t < 0 => Score(s, h) = t
        /\ ~(t < 0) /\ AnotherWork(s, h) => Score(s, h) = -4000
        /\ ~(t < 0) /\ ~AnotherWork(s, h) => Score(s, h) = t + e + y
    BY DEF Score
  <1>8. (EpsKnown(s, h) => s.eps = h.eps) => e >= 0
    BY <1>1 DEF EpsScore, Apart
  <1>9. (BothKnown(s.year, h.year) => s.year = h.year) => y >= 0
    BY <1>1 DEF YearScore
  <1> DEFINE sc == Score(s, h)
  <1> HIDE DEF t, e, y, sc
  <1>10. t \in {1600, 1250, 900, -5000}
    BY <1>2 DEF TitleValues, Exact, NoOverlap
  <1>11. /\ t < 0 => sc = t
         /\ ~(t < 0) /\ AnotherWork(s, h) => sc = -4000
         /\ ~(t < 0) /\ ~AnotherWork(s, h) => sc = t + e + y
    BY <1>7 DEF sc
  <1>12. sc \in Int /\ sc <= t + 300 /\ (t < 0 => sc < 0) /\ (AnotherWork(s, h) => sc < 0) /\ sc <= 1900
    BY <1>3, <1>10, <1>11
  <1>13. t = 1600 /\ ~AnotherWork(s, h) => sc >= 1320
    BY <1>3, <1>10, <1>11
  <1>14. t = 1600 /\ (EpsKnown(s, h) => s.eps = h.eps)
            /\ (BothKnown(s.year, h.year) => s.year = h.year) => sc >= 1200
    BY <1>3, <1>6, <1>8, <1>9, <1>11
  <1> QED
    BY <1>2, <1>12, <1>13, <1>14 DEF t, sc, Exact, BestFloor

-----------------------------------------------------------------------------
(***************************************************************************)
(* The match.                                                              *)
(***************************************************************************)
\* The hit the id decides for: no other is corroborated if it is not, nor before it.
IdWinner(s, hs, i) ==
    /\ i \in Survivors(s, hs)
    /\ \A j \in Survivors(s, hs) :
          /\ Corroborated(s, hs[j]) => Corroborated(s, hs[i])
          /\ j < i => Corroborated(s, hs[i]) /\ ~Corroborated(s, hs[j])

\* The hit the title decides for.
Winner(s, hs, i) ==
    /\ i \in DOMAIN hs /\ Score(s, hs[i]) >= BestFloor
    /\ \A j \in DOMAIN hs : j # i => Leads(Score(s, hs[i]), Score(s, hs[j]))

LEMMA IdMatched ==
    ASSUME NEW s, NEW hs \in Seq(SiteHit)
    PROVE  /\ IdMatch(s, hs) = NoMatch <=> Survivors(s, hs) = {}
           /\ IdMatch(s, hs) # NoMatch => IdWinner(s, hs, IdMatch(s, hs))
           /\ \A i \in DOMAIN hs : IdWinner(s, hs, i) => IdMatch(s, hs) = i
  <1> DEFINE all == Survivors(s, hs)
             sure == {i \in all : Corroborated(s, hs[i])}
             m == IdMatch(s, hs)
  <1>1. all \in SUBSET Nat /\ \A i \in all : i \in Nat /\ i # 0
    BY DEF Survivors
  <1>2. m = IF sure # {} THEN Min(sure) ELSE IF all # {} THEN Min(all) ELSE NoMatch
    BY DEF IdMatch
  <1>3. sure \in SUBSET all /\ \A i \in all : i \in sure <=> Corroborated(s, hs[i])
    OBVIOUS
  <1> HIDE DEF all, sure, m
  <1>4. /\ all # {} => Min(all) \in all /\ \A x \in all : Min(all) <= x
        /\ sure # {} => Min(sure) \in sure /\ \A x \in sure : Min(sure) <= x
    BY <1>1, <1>3, LeastIsMin
  <1>5. m = NoMatch <=> all = {}
    BY <1>1, <1>2, <1>3, <1>4 DEF NoMatch
  <1>6. ASSUME all # {}
        PROVE  /\ m \in all /\ \A j \in all : (j \in sure => m \in sure) /\ (j < m => m \in sure /\ j \notin sure)
    <2>1. CASE sure # {}
      <3>1. m \in sure /\ \A x \in sure : m <= x
        BY <1>2, <1>4, <2>1
      <3>2. \A j \in all : j < m => j \notin sure
        BY <1>1, <1>3, <3>1
      <3> QED
        BY <1>3, <3>1, <3>2
    <2>2. CASE sure = {}
      <3>1. m \in all /\ \A x \in all : m <= x
        BY <1>2, <1>4, <1>6, <2>2
      <3>2. \A j \in all : ~(j < m)
        BY <1>1, <3>1
      <3> QED
        BY <2>2, <3>1, <3>2
    <2> QED
      BY <2>1, <2>2
  <1>7. \A i \in all : IdWinner(s, hs, i) <=>
            \A j \in all : (j \in sure => i \in sure) /\ (j < i => i \in sure /\ j \notin sure)
    BY <1>3 DEF IdWinner, all
  <1>8. m # NoMatch => IdWinner(s, hs, m)
    BY <1>5, <1>6, <1>7
  <1>9. ASSUME NEW i \in DOMAIN hs, IdWinner(s, hs, i)
        PROVE  m = i
    <2>1. i \in all
      BY <1>9 DEF IdWinner, all
    <2>2. \A j \in all : (j \in sure => i \in sure) /\ (j < i => i \in sure /\ j \notin sure)
      BY <1>7, <1>9, <2>1
    <2>3. m \in all /\ \A j \in all : (j \in sure => m \in sure) /\ (j < m => m \in sure /\ j \notin sure)
      BY <1>6, <2>1
    <2>4. ~(i < m)
      BY <2>1, <2>2, <2>3
    <2>5. ~(m < i)
      BY <2>1, <2>2, <2>3
    <2> QED
      BY <1>1, <2>1, <2>3, <2>4, <2>5
  <1> QED
    BY <1>5, <1>8, <1>9 DEF m, all

LEMMA TitleMatched ==
    ASSUME NEW s \in Shows, NEW hs \in Seq(SiteHit)
    PROVE  /\ ProviderMatch(s, hs) # NoMatch => Winner(s, hs, ProviderMatch(s, hs))
           /\ \A i \in DOMAIN hs : Winner(s, hs, i) => ProviderMatch(s, hs) = i
  <1> DEFINE score == [i \in DOMAIN hs |-> Score(s, hs[i])]
             values == {score[i] : i \in DOMAIN hs}
             best == Max(values)
             top == {i \in DOMAIN hs : score[i] = best}
             leader == Min(top)
             m == ProviderMatch(s, hs)
  <1>1. m = IF hs # <<>> /\ best >= BestFloor /\ \A i \in DOMAIN hs \ {leader} : Leads(best, score[i])
            THEN leader ELSE NoMatch
    BY DEF ProviderMatch
  <1>2. DOMAIN hs \in SUBSET Nat /\ \A i \in DOMAIN hs : hs[i] \in SiteHit /\ i # 0
    BY ListHas
  <1>3. \A i \in DOMAIN hs : score[i] = Score(s, hs[i]) /\ score[i] \in Int /\ score[i] <= 1900
    BY <1>2, Scored
  <1> HIDE DEF score
  <1>4. values \in SUBSET Int /\ \A x \in values : x <= 1900
    BY <1>3
  <1>5. hs # <<>> => values # {}
    <2>1. hs # <<>> => DOMAIN hs # {}
      BY ListHas
    <2> QED
      BY <2>1
  <1> HIDE DEF values
  <1>6. hs # <<>> => best \in values /\ \A x \in values : x <= best
    <2> SUFFICES ASSUME hs # <<>>
                 PROVE  best \in values /\ \A x \in values : x <= best
      OBVIOUS
    <2> DEFINE bound == 1900
    <2>1. bound \in Int /\ values \in SUBSET Int /\ values # {} /\ \A x \in values : x <= bound
      BY <1>4, <1>5
    <2> HIDE DEF bound
    <2> QED
      BY <2>1, TopOf
  <1>7. \A i \in DOMAIN hs : score[i] \in values
    BY DEF values
  <1>8. best \in values => \E i \in DOMAIN hs : score[i] = best
    BY DEF values
  <1> HIDE DEF best
  <1>9. hs # <<>> => leader \in DOMAIN hs /\ score[leader] = best
    <2>1. top \in SUBSET Nat
      BY <1>2
    <2>2. hs # <<>> => top # {}
      BY <1>6, <1>8
    <2>3. hs # <<>> => leader \in top
      BY <2>1, <2>2, LeastIsMin
    <2> QED
      BY <2>3
  <1> HIDE DEF leader
  <1>10. ASSUME m # NoMatch
         PROVE  Winner(s, hs, m)
    <2>1. /\ m = leader /\ hs # <<>> /\ best >= BestFloor
          /\ \A i \in DOMAIN hs \ {leader} : Leads(best, score[i])
      BY <1>1, <1>10
    <2>2. m \in DOMAIN hs /\ score[m] = best
      BY <1>9, <2>1
    <2> QED
      BY <1>3, <2>1, <2>2 DEF Winner
  <1>11. ASSUME NEW i \in DOMAIN hs, Winner(s, hs, i)
         PROVE  m = i
    <2>1. score[i] >= BestFloor /\ \A j \in DOMAIN hs : j # i => Leads(score[i], score[j])
      BY <1>3, <1>11 DEF Winner
    <2>2. hs # <<>>
      BY <1>2
    <2>3. score[i] <= best /\ leader \in DOMAIN hs /\ score[leader] = best /\ best \in Int
      BY <1>3, <1>6, <1>7, <1>9, <2>2
    <2>4. leader = i
      <3> SUFFICES ASSUME leader # i
                   PROVE  FALSE
        OBVIOUS
      <3>1. Leads(score[i], best)
        BY <2>1, <2>3
      <3>2. score[i] \in Int /\ score[i] >= 1200
        BY <1>3, <2>1 DEF BestFloor
      <3> QED
        BY <2>3, <3>1, <3>2 DEF Leads
    <2> QED
      BY <1>1, <2>1, <2>2, <2>3, <2>4
  <1> QED
    BY <1>10, <1>11 DEF m

\* The hit that is bound: by its id, or by its title where no id is left.
IsBound(s, hs, i) == i \in DOMAIN hs /\ (IdWinner(s, hs, i) \/ (Survivors(s, hs) = {} /\ Winner(s, hs, i)))

LEMMA Matched ==
    ASSUME NEW s \in Shows, NEW hs \in Seq(SiteHit)
    PROVE  /\ Match(s, hs) # NoMatch => IsBound(s, hs, Match(s, hs))
           /\ \A i \in DOMAIN hs : IsBound(s, hs, i) => Match(s, hs) = i /\ Match(s, hs) # NoMatch
           /\ IdMatch(s, hs) = NoMatch <=> Survivors(s, hs) = {}
  <1> DEFINE a == IdMatch(s, hs)
             b == ProviderMatch(s, hs)
             m == Match(s, hs)
  <1>1. /\ a = NoMatch <=> Survivors(s, hs) = {}
        /\ a # NoMatch => IdWinner(s, hs, a)
        /\ \A i \in DOMAIN hs : IdWinner(s, hs, i) => a = i
    BY IdMatched
  <1>2. /\ b # NoMatch => Winner(s, hs, b)
        /\ \A i \in DOMAIN hs : Winner(s, hs, i) => b = i
    BY TitleMatched
  <1>3. m = IF a # NoMatch THEN a ELSE b
    BY DEF Match
  <1>4. \A i \in DOMAIN hs : i # NoMatch
    BY DEF NoMatch
  <1>5. \A i : (IdWinner(s, hs, i) => i \in DOMAIN hs /\ Survivors(s, hs) # {}) /\ (Winner(s, hs, i) => i \in DOMAIN hs)
    BY DEF IdWinner, Winner, Survivors
  <1> HIDE DEF a, b, m
  <1>6. m # NoMatch => IsBound(s, hs, m)
    BY <1>1, <1>2, <1>3, <1>5 DEF IsBound
  <1>7. \A i \in DOMAIN hs : IsBound(s, hs, i) => m = i /\ m # NoMatch
    BY <1>1, <1>2, <1>3, <1>4 DEF IsBound
  <1> QED
    BY <1>1, <1>6, <1>7 DEF a, m

-----------------------------------------------------------------------------
(***************************************************************************)
(* Lists in another order, and with one more.                              *)
(***************************************************************************)
Mutual(n, f, g) ==
    /\ f \in [1 .. n -> 1 .. n] /\ g \in [1 .. n -> 1 .. n]
    /\ \A i \in 1 .. n : f[g[i]] = i /\ g[f[i]] = i

\* List b is list a in the order f, and a is b in the order g.
ReorderedBy(a, b, f, g) ==
    /\ Len(a) = Len(b) /\ Mutual(Len(a), f, g)
    /\ \A i \in 1 .. Len(a) : b[i] = a[f[i]]

Rearranged(a, b) == \E f, g : ReorderedBy(a, b, f, g)

LEMMA RearrangedBack ==
    ASSUME NEW S, NEW a \in Seq(S), NEW b \in Seq(S), NEW f, NEW g, ReorderedBy(a, b, f, g)
    PROVE  ReorderedBy(b, a, g, f)
  <1> DEFINE n == Len(a)
  <1>1. n \in Nat /\ Len(b) = n /\ Mutual(n, f, g) /\ \A i \in 1 .. n : b[i] = a[f[i]]
    BY DEF ReorderedBy
  <1> HIDE DEF n
  <1>2. Mutual(n, g, f)
    BY <1>1 DEF Mutual
  <1>3. \A i \in 1 .. n : a[i] = b[g[i]]
    <2>1. \A i \in 1 .. n : g[i] \in 1 .. n /\ f[g[i]] = i
      BY <1>1 DEF Mutual
    <2> QED
      BY <1>1, <2>1
  <1> QED
    BY <1>1, <1>2, <1>3 DEF ReorderedBy, n

LEMMA RearrangedOn ==
    ASSUME NEW S, NEW a \in Seq(S), NEW b \in Seq(S), NEW c \in Seq(S), Rearranged(a, b), Rearranged(b, c)
    PROVE  Rearranged(a, c)
  <1> DEFINE n == Len(a)
  <1>1. PICK f, g : ReorderedBy(a, b, f, g)
    BY DEF Rearranged
  <1>2. PICK u, v : ReorderedBy(b, c, u, v)
    BY DEF Rearranged
  <1>3. /\ n \in Nat /\ Len(b) = n /\ Len(c) = n /\ Mutual(n, f, g) /\ Mutual(n, u, v)
        /\ \A i \in 1 .. n : b[i] = a[f[i]] /\ c[i] = b[u[i]]
    BY <1>1, <1>2 DEF ReorderedBy
  <1> HIDE DEF n
  <1> DEFINE p == [i \in 1 .. n |-> f[u[i]]]
             q == [i \in 1 .. n |-> v[g[i]]]
  <1>4. \A i \in 1 .. n : /\ f[i] \in 1 .. n /\ g[i] \in 1 .. n /\ u[i] \in 1 .. n /\ v[i] \in 1 .. n
                          /\ f[g[i]] = i /\ g[f[i]] = i /\ u[v[i]] = i /\ v[u[i]] = i
    BY <1>3 DEF Mutual
  <1>5. p \in [1 .. n -> 1 .. n] /\ q \in [1 .. n -> 1 .. n] /\ \A i \in 1 .. n : p[i] = f[u[i]] /\ q[i] = v[g[i]]
    BY <1>4
  <1> HIDE DEF p, q
  <1>6. \A i \in 1 .. n : p[q[i]] = i /\ q[p[i]] = i
    <2> SUFFICES ASSUME NEW i \in 1 .. n
                 PROVE  p[q[i]] = i /\ q[p[i]] = i
      OBVIOUS
    <2>1. q[i] = v[g[i]] /\ q[i] \in 1 .. n /\ p[q[i]] = f[u[q[i]]] /\ u[v[g[i]]] = g[i] /\ f[g[i]] = i
      BY <1>4, <1>5
    <2>2. p[i] = f[u[i]] /\ p[i] \in 1 .. n /\ q[p[i]] = v[g[p[i]]] /\ g[f[u[i]]] = u[i] /\ v[u[i]] = i
      BY <1>4, <1>5
    <2> QED
      BY <2>1, <2>2
  <1>7. \A i \in 1 .. n : c[i] = a[p[i]]
    <2> SUFFICES ASSUME NEW i \in 1 .. n
                 PROVE  c[i] = a[p[i]]
      OBVIOUS
    <2>1. c[i] = b[u[i]] /\ u[i] \in 1 .. n /\ p[i] = f[u[i]]
      BY <1>3, <1>4, <1>5
    <2>2. b[u[i]] = a[f[u[i]]]
      BY <1>3, <2>1
    <2> QED
      BY <2>1, <2>2
  <1>8. ReorderedBy(a, c, p, q)
    BY <1>3, <1>5, <1>6, <1>7 DEF ReorderedBy, Mutual, n
  <1> QED
    BY <1>8 DEF Rearranged

\* List r is list s with e after its first k.
HasInserted(S, s, e, k, r) ==
    /\ r \in Seq(S) /\ Len(r) = Len(s) + 1 /\ k \in 0 .. Len(s) /\ r[k + 1] = e
    /\ \A i \in 1 .. k : r[i] = s[i]
    /\ \A i \in (k + 1) .. Len(s) : r[i + 1] = s[i]

\* What a list reordered becomes with one more at its end, and the other anywhere.
LEMMA RearrangedWithOneMore ==
    ASSUME NEW S, NEW a \in Seq(S), NEW b \in Seq(S), NEW e \in S, NEW k, NEW r, NEW more \in Seq(S),
           HasInserted(S, b, e, k, r), Rearranged(a, b),
           Len(more) = Len(a) + 1, more[Len(a) + 1] = e, \A i \in 1 .. Len(a) : more[i] = a[i]
    PROVE  Rearranged(more, r)
  <1> DEFINE n == Len(a)
  <1>1. PICK f, g : ReorderedBy(a, b, f, g)
    BY DEF Rearranged
  <1>2. /\ n \in Nat /\ Len(b) = n /\ Mutual(n, f, g) /\ \A i \in 1 .. n : b[i] = a[f[i]]
    BY <1>1 DEF ReorderedBy
  <1>3. /\ Len(r) = n + 1 /\ k \in 0 .. n /\ r[k + 1] = e
        /\ \A i \in 1 .. k : r[i] = b[i]
        /\ \A i \in (k + 1) .. n : r[i + 1] = b[i]
    BY <1>2 DEF HasInserted
  <1>4. Len(more) = n + 1 /\ more[n + 1] = e /\ \A i \in 1 .. n : more[i] = a[i]
    OBVIOUS
  <1> HIDE DEF n
  <1>5. \A i \in 1 .. n : f[i] \in 1 .. n /\ g[i] \in 1 .. n /\ f[g[i]] = i /\ g[f[i]] = i
    BY <1>2 DEF Mutual
  <1> DEFINE N == n + 1
             p == [i \in 1 .. N |-> IF i <= k THEN f[i] ELSE IF i = k + 1 THEN N ELSE f[i - 1]]
             q == [j \in 1 .. N |-> IF j = N THEN k + 1 ELSE IF g[j] <= k THEN g[j] ELSE g[j] + 1]
  <1>6. \A i \in 1 .. N : /\ i <= k => i \in 1 .. n /\ p[i] = f[i]
                          /\ i = k + 1 => p[i] = N
                          /\ i > k + 1 => i - 1 \in 1 .. n /\ p[i] = f[i - 1] /\ i - 1 > k /\ i - 1 \in (k + 1) .. n
                          /\ (i <= k \/ i = k + 1 \/ i > k + 1)
    BY <1>2, <1>3
  <1>7. \A j \in 1 .. N : /\ j = N => q[j] = k + 1
                          /\ j # N => j \in 1 .. n
                          /\ j # N /\ g[j] <= k => q[j] = g[j]
                          /\ j # N /\ ~(g[j] <= k) => q[j] = g[j] + 1
    BY <1>2, <1>3
  <1>8. N \in Nat /\ k + 1 \in 1 .. N /\ N \in 1 .. N /\ \A i \in 1 .. n : i \in 1 .. N /\ i + 1 \in 1 .. N /\ i # N
    BY <1>2, <1>3
  <1>9. p \in [1 .. N -> 1 .. N]
    <2>1. \A i \in 1 .. N : p[i] \in 1 .. N
      BY <1>5, <1>6, <1>8
    <2> QED
      BY <2>1
  <1>10. q \in [1 .. N -> 1 .. N]
    <2>1. \A j \in 1 .. N : q[j] \in 1 .. N
      BY <1>5, <1>7, <1>8
    <2> QED
      BY <2>1
  <1> HIDE DEF p, q
  <1>11. ASSUME NEW i \in 1 .. N
         PROVE  q[p[i]] = i /\ r[i] = more[p[i]]
    <2>1. CASE i <= k
      <3>1. i \in 1 .. n /\ p[i] = f[i] /\ f[i] \in 1 .. n /\ g[f[i]] = i /\ i \in 1 .. k
        BY <1>3, <1>5, <1>6, <2>1
      <3>2. q[f[i]] = i
        BY <1>7, <1>8, <2>1, <3>1
      <3>3. r[i] = b[i] /\ b[i] = a[f[i]] /\ more[f[i]] = a[f[i]]
        BY <1>2, <1>3, <1>4, <3>1
      <3> QED
        BY <3>1, <3>2, <3>3
    <2>2. CASE i = k + 1
      BY <1>3, <1>4, <1>6, <1>7, <1>8, <2>2
    <2>3. CASE i > k + 1
      <3> DEFINE l == i - 1
      <3>1. l \in 1 .. n /\ p[i] = f[l] /\ l > k /\ l \in (k + 1) .. n /\ l + 1 = i
        BY <1>6, <2>3
      <3> HIDE DEF l
      <3>2. f[l] \in 1 .. n /\ g[f[l]] = l
        BY <1>5, <3>1
      <3>3. ~(l <= k)
        BY <1>3, <3>1
      <3>4. q[f[l]] = l + 1
        BY <1>7, <1>8, <3>2, <3>3
      <3>5. r[l + 1] = b[l] /\ b[l] = a[f[l]] /\ more[f[l]] = a[f[l]]
        BY <1>2, <1>3, <1>4, <3>1, <3>2
      <3> QED
        BY <3>1, <3>4, <3>5
    <2> QED
      BY <1>6, <2>1, <2>2, <2>3
  <1>12. ASSUME NEW j \in 1 .. N
         PROVE  p[q[j]] = j
    <2>1. CASE j = N
      BY <1>6, <1>7, <1>8, <2>1
    <2>2. CASE j # N /\ g[j] <= k
      <3>1. j \in 1 .. n /\ q[j] = g[j] /\ g[j] \in 1 .. n /\ f[g[j]] = j
        BY <1>5, <1>7, <2>2
      <3>2. g[j] \in 1 .. N
        BY <1>8, <3>1
      <3> QED
        BY <1>6, <2>2, <3>1, <3>2
    <2>3. CASE j # N /\ ~(g[j] <= k)
      <3> DEFINE l == g[j]
      <3>1. j \in 1 .. n /\ q[j] = l + 1 /\ l \in 1 .. n /\ f[l] = j
        BY <1>5, <1>7, <2>3
      <3> HIDE DEF l
      <3>2. l + 1 \in 1 .. N /\ (l + 1) - 1 = l
        BY <1>8, <3>1
      <3>3. l + 1 > k + 1
        <4>1. ~(l <= k) /\ l \in Nat /\ k \in Nat
          BY <1>3, <2>3, <3>1 DEF l
        <4> QED
          BY <4>1
      <3>4. p[l + 1] = f[l]
        BY <1>6, <3>2, <3>3
      <3> QED
        BY <3>1, <3>4
    <2> QED
      BY <2>1, <2>2, <2>3
  <1> HIDE DEF N
  <1>13. ReorderedBy(more, r, p, q)
    <2>1. Len(more) = N /\ Len(r) = N
      BY <1>3, <1>4 DEF N
    <2> QED
      BY <1>9, <1>10, <1>11, <1>12, <2>1 DEF ReorderedBy, Mutual
  <1> QED
    BY <1>13 DEF Rearranged

LEMMA RearrangedSame ==
    ASSUME NEW S, NEW a \in Seq(S)
    PROVE  Rearranged(a, a)
  <1> DEFINE n == Len(a)
             f == [i \in 1 .. n |-> i]
  <1>1. f \in [1 .. n -> 1 .. n] /\ \A i \in 1 .. n : f[i] = i
    OBVIOUS
  <1> HIDE DEF f
  <1>2. Mutual(n, f, f) /\ \A i \in 1 .. n : a[i] = a[f[i]]
    BY <1>1 DEF Mutual
  <1>3. ReorderedBy(a, a, f, f)
    BY <1>2 DEF ReorderedBy
  <1> QED
    BY <1>3 DEF Rearranged

LEMMA RearrangedHits ==
    ASSUME NEW S, NEW a \in Seq(S), NEW b \in Seq(S), Rearranged(a, b), NEW V, NEW c \in Seq(V), NEW d \in Seq(V), NEW Op,
           Op \in [S -> V], Len(c) = Len(a), Len(d) = Len(b),
           \A i \in 1 .. Len(a) : c[i] = Op[a[i]], \A i \in 1 .. Len(b) : d[i] = Op[b[i]]
    PROVE  Rearranged(c, d)
  <1> DEFINE n == Len(a)
  <1>1. PICK f, g : ReorderedBy(a, b, f, g)
    BY DEF Rearranged
  <1>2. n \in Nat /\ Len(b) = n /\ Mutual(n, f, g) /\ \A i \in 1 .. n : b[i] = a[f[i]]
    BY <1>1 DEF ReorderedBy
  <1>3. \A i \in 1 .. n : f[i] \in 1 .. n
    BY <1>2 DEF Mutual
  <1>4. /\ \A i \in 1 .. n : c[i] = Op[a[i]] /\ d[i] = Op[b[i]]
        /\ Len(c) = n /\ Len(d) = n
    BY <1>2
  <1> HIDE DEF n
  <1>5. \A i \in 1 .. n : d[i] = c[f[i]]
    <2> SUFFICES ASSUME NEW i \in 1 .. n
                 PROVE  d[i] = c[f[i]]
      OBVIOUS
    <2>1. f[i] \in 1 .. n /\ b[i] = a[f[i]] /\ d[i] = Op[b[i]]
      BY <1>2, <1>3, <1>4
    <2>2. c[f[i]] = Op[a[f[i]]]
      BY <1>4, <2>1
    <2> QED
      BY <2>1, <2>2
  <1>6. ReorderedBy(c, d, f, g)
    BY <1>2, <1>4, <1>5 DEF ReorderedBy
  <1> QED
    BY <1>6 DEF Rearranged

\* What InsertAt makes of a list.
LEMMA InsertAtPuts ==
    ASSUME NEW S, NEW s \in Seq(S), NEW e \in S, NEW k \in 0 .. Len(s)
    PROVE  HasInserted(S, s, e, k, InsertAt(s, k + 1, e))
  <1> DEFINE front == SubSeq(s, 1, k)
             back == SubSeq(s, k + 1, Len(s))
  <1>1. (k + 1) - 1 = k /\ k \in Nat /\ Len(s) \in Nat
    OBVIOUS
  <1>2. front \in Seq(S) /\ Len(front) = k /\ \A i \in 1 .. k : front[i] = s[i]
    BY <1>1
  <1>3. back \in Seq(S) /\ Len(back) = Len(s) - k /\ \A i \in 1 .. (Len(s) - k) : back[i] = s[k + i]
    BY <1>1
  <1>4. InsertAt(s, k + 1, e) = front \o <<e>> \o back
    BY <1>1 DEF InsertAt
  <1> HIDE DEF front, back
  <1> DEFINE head == front \o <<e>>
  <1>5. <<e>> \in Seq(S) /\ Len(<<e>>) = 1 /\ <<e>>[1] = e
    OBVIOUS
  <1>6. /\ head \in Seq(S) /\ Len(head) = k + 1 /\ head[k + 1] = e
        /\ \A i \in 1 .. k : head[i] = s[i]
    BY <1>1, <1>2, <1>5
  <1> HIDE DEF head
  <1>7. /\ head \o back \in Seq(S) /\ Len(head \o back) = Len(s) + 1
        /\ \A i \in 1 .. (k + 1) : (head \o back)[i] = head[i]
        /\ \A i \in 1 .. (Len(s) - k) : (head \o back)[k + 1 + i] = back[i]
    BY <1>1, <1>3, <1>6
  <1>8. \A i \in (k + 1) .. Len(s) : (head \o back)[i + 1] = s[i]
    <2> SUFFICES ASSUME NEW i \in (k + 1) .. Len(s)
                 PROVE  (head \o back)[i + 1] = s[i]
      OBVIOUS
    <2> DEFINE j == i - k
    <2>1. j \in 1 .. (Len(s) - k) /\ k + 1 + j = i + 1 /\ k + j = i
      BY <1>1
    <2> HIDE DEF j
    <2>2. (head \o back)[k + 1 + j] = back[j]
      BY <1>7, <2>1
    <2>3. back[j] = s[k + j]
      BY <1>3, <2>1
    <2> QED
      BY <2>1, <2>2, <2>3
  <1>9. k + 1 \in 1 .. (k + 1) /\ \A i \in 1 .. k : i \in 1 .. (k + 1)
    BY <1>1
  <1>10. InsertAt(s, k + 1, e) = head \o back
    BY <1>4 DEF head
  <1> QED
    BY <1>6, <1>7, <1>8, <1>9, <1>10 DEF HasInserted

-----------------------------------------------------------------------------
(***************************************************************************)
(* What a site makes of the works it lists.                                *)
(***************************************************************************)
LEMMA PlacedInserts ==
    ASSUME NEW ranked \in Seq(Works), NEW w \in Works, NEW q
    PROVE  \E k : HasInserted(Works, ranked, w, k, Placed(w, ranked, q))
  <1> DEFINE earlier == {i \in DOMAIN ranked : Relevance(ranked[i], q) >= Relevance(w, q)}
             k == Max({0} \cup earlier)
             N == Len(ranked)
  <1>1. N \in Nat /\ DOMAIN ranked = 1 .. N
    BY ListHas
  <1>2. earlier \subseteq 1 .. N
    BY <1>1
  <1> HIDE DEF earlier
  <1>3. {0} \cup earlier \in SUBSET Int /\ {0} \cup earlier # {} /\ N \in Int /\ \A x \in {0} \cup earlier : x <= N
    BY <1>1, <1>2
  <1>4. k \in {0} \cup earlier
    BY <1>3, TopOf
  <1> HIDE DEF k
  <1>5. k \in 0 .. Len(ranked)
    BY <1>1, <1>2, <1>4
  <1>6. Placed(w, ranked, q) = InsertAt(ranked, k + 1, w)
    BY DEF Placed, earlier, k
  <1>7. HasInserted(Works, ranked, w, k, InsertAt(ranked, k + 1, w))
    BY <1>5, InsertAtPuts
  <1> QED
    BY <1>6, <1>7

\* The works are ranked one by one.
LEMMA RanksStepwise ==
    ASSUME NEW ws \in Seq(Works), NEW q
    PROVE  /\ Ranking(ws, q) \in [0 .. Len(ws) -> Seq(Works)]
           /\ Ranking(ws, q)[0] = <<>>
           /\ \A n \in 1 .. Len(ws) : Ranking(ws, q)[n] = Placed(ws[n], Ranking(ws, q)[n - 1], q)
  <1> DEFINE N == Len(ws)
             put(n, r) == Placed(ws[n], r, q)
             step == [n \in 1 .. N |-> [r \in Seq(Works) |-> put(n, r)]]
  <1>1. N \in Nat /\ \A n \in 1 .. N : ws[n] \in Works
    OBVIOUS
  <1>2. <<>> \in Seq(Works)
    OBVIOUS
  <1>3. \A n \in 1 .. N, r \in Seq(Works) : put(n, r) \in Seq(Works)
    BY <1>1, PlacedInserts DEF HasInserted
  <1> HIDE DEF put, N
  <1>4. step \in StepFunctions(N, Seq(Works))
    BY <1>3 DEF StepFunctions
  <1>5. \A n \in 1 .. N, r \in Seq(Works) : step[n][r] = put(n, r)
    OBVIOUS
  <1> HIDE DEF step
  <1>6. PICK f \in [0 .. N -> Seq(Works)] : MadeUpTo(N, f, <<>>, step)
    BY <1>1, <1>2, <1>4, Recursion
  <1>7. ASSUME NEW n \in 0 .. N
        PROVE  (IF n = 0 THEN <<>> ELSE step[n][f[n - 1]]) = (IF n = 0 THEN <<>> ELSE put(n, f[n - 1]))
    <2>1. CASE n # 0
      <3>1. n \in 1 .. N /\ n - 1 \in 0 .. N
        BY <1>1, <2>1
      <3>2. f[n - 1] \in Seq(Works)
        BY <3>1
      <3> QED
        BY <1>5, <2>1, <3>1, <3>2
    <2> QED
      BY <2>1
  <1>8. f = [n \in 0 .. N |-> IF n = 0 THEN <<>> ELSE put(n, f[n - 1])]
    BY <1>6, <1>7 DEF MadeUpTo
  <1> DEFINE Ranks(g) == g = [n \in 0 .. N |-> IF n = 0 THEN <<>> ELSE put(n, g[n - 1])]
  <1>9. Ranking(ws, q) = CHOOSE g : Ranks(g)
    BY DEF Ranking, put, N
  <1>10. Ranks(f)
    BY <1>8
  <1> HIDE DEF Ranks
  <1>11. Ranks(Ranking(ws, q))
    BY <1>9, <1>10
  <1> DEFINE ranked == Ranking(ws, q)
  <1>12. ranked = [n \in 0 .. N |-> IF n = 0 THEN <<>> ELSE put(n, ranked[n - 1])]
    BY <1>11 DEF Ranks
  <1> HIDE DEF ranked
  <1>13. ranked[0] = <<>> /\ \A n \in 1 .. N : ranked[n] = put(n, ranked[n - 1])
    <2>1. 0 \in 0 .. N /\ \A n \in 1 .. N : n \in 0 .. N /\ n # 0
      BY <1>1
    <2> QED
      BY <1>12, <2>1
  <1> DEFINE T == {n \in 0 .. N : ranked[n] \in Seq(Works)}
  <1>14. 0 \in T
    <2>1. 0 \in 0 .. N
      BY <1>1
    <2>2. ranked[0] \in Seq(Works)
      BY <1>2, <1>13
    <2> QED
      BY <2>1, <2>2
  <1>15. ASSUME NEW n \in 0 .. (N - 1), n \in T
         PROVE  n + 1 \in T
    <2>1. n + 1 \in 1 .. N /\ (n + 1) - 1 = n /\ n + 1 \in 0 .. N
      BY <1>1
    <2>2. put(n + 1, ranked[n]) \in Seq(Works)
      BY <1>3, <1>15, <2>1
    <2> QED
      BY <1>13, <2>1, <2>2
  <1> HIDE DEF T
  <1>16. 0 .. N \subseteq T
    BY <1>1, <1>14, <1>15, ReachedUpTo
  <1>17. ranked \in [0 .. N -> Seq(Works)]
    BY <1>12, <1>16 DEF T
  <1> QED
    BY <1>13, <1>17 DEF ranked, put, N

\* Ranking only changes the order.
LEMMA RankingRearranges ==
    ASSUME NEW ws \in Seq(Works), NEW q
    PROVE  Ranking(ws, q)[Len(ws)] \in Seq(Works) /\ Rearranged(ws, Ranking(ws, q)[Len(ws)])
  <1> DEFINE N == Len(ws)
             ranked == Ranking(ws, q)
             upTo(n) == SubSeq(ws, 1, n)
             T == {n \in 0 .. N : Rearranged(upTo(n), ranked[n])}
  <1>1. N \in Nat /\ \A n \in 1 .. N : ws[n] \in Works
    OBVIOUS
  <1>2. /\ ranked \in [0 .. N -> Seq(Works)] /\ ranked[0] = <<>>
        /\ \A n \in 1 .. N : ranked[n] = Placed(ws[n], ranked[n - 1], q)
    BY RanksStepwise
  <1>3. ASSUME NEW n \in 0 .. N
        PROVE  upTo(n) \in Seq(Works) /\ Len(upTo(n)) = n /\ \A i \in 1 .. n : upTo(n)[i] = ws[i]
    BY <1>1
  <1>4. upTo(N) = ws /\ upTo(0) = <<>>
    OBVIOUS
  <1> HIDE DEF ranked, upTo
  <1>5. 0 \in T
    <2>1. <<>> \in Seq(Works) /\ 0 \in 0 .. N
      BY <1>1
    <2> QED
      BY <1>2, <1>4, <2>1, RearrangedSame
  <1>6. ASSUME NEW n \in 0 .. (N - 1), n \in T
        PROVE  n + 1 \in T
    <2>1. n + 1 \in 1 .. N /\ (n + 1) - 1 = n /\ n + 1 \in 0 .. N /\ n \in 0 .. N
      BY <1>1
    <2> DEFINE w == ws[n + 1]
               a == upTo(n)
               b == ranked[n]
               more == upTo(n + 1)
               r == ranked[n + 1]
    <2>2. w \in Works /\ a \in Seq(Works) /\ b \in Seq(Works) /\ more \in Seq(Works) /\ Rearranged(a, b)
      BY <1>1, <1>2, <1>3, <1>6, <2>1
    <2>3. Len(a) = n /\ Len(more) = n + 1 /\ more[n + 1] = w /\ \A i \in 1 .. n : more[i] = a[i]
      <3>1. \A i \in 1 .. n : i \in 1 .. (n + 1)
        BY <2>1
      <3>2. n + 1 \in 1 .. (n + 1)
        BY <2>1
      <3> QED
        BY <1>3, <2>1, <3>1, <3>2
    <2>4. r = Placed(w, b, q)
      BY <1>2, <2>1
    <2> HIDE DEF w, a, b, more, r
    <2>5. PICK k : HasInserted(Works, b, w, k, r)
      BY <2>2, <2>4, PlacedInserts
    <2>6. Rearranged(more, r)
      BY <2>2, <2>3, <2>5, RearrangedWithOneMore
    <2> QED
      BY <2>1, <2>6 DEF more, r
  <1> HIDE DEF T
  <1>7. 0 .. N \subseteq T
    BY <1>1, <1>5, <1>6, ReachedUpTo
  <1>8. N \in 0 .. N
    BY <1>1
  <1>9. Rearranged(ws, ranked[N]) /\ ranked[N] \in Seq(Works)
    BY <1>2, <1>4, <1>7, <1>8 DEF T
  <1> QED
    BY <1>9 DEF ranked

\* One more work is placed among those ranked before.
LEMMA RankingGrows ==
    ASSUME NEW ws \in Seq(Works), NEW w \in Works, NEW q
    PROVE  Ranking(Append(ws, w), q)[Len(Append(ws, w))] = Placed(w, Ranking(ws, q)[Len(ws)], q)
  <1> DEFINE N == Len(ws)
             more == Append(ws, w)
             old == Ranking(ws, q)
             new == Ranking(more, q)
             T == {n \in 0 .. N : new[n] = old[n]}
  <1>1. /\ N \in Nat /\ more \in Seq(Works) /\ Len(more) = N + 1
        /\ more[N + 1] = w /\ \A n \in 1 .. N : more[n] = ws[n]
    OBVIOUS
  <1> HIDE DEF more
  <1>2. old[0] = <<>> /\ \A n \in 1 .. N : old[n] = Placed(ws[n], old[n - 1], q)
    BY RanksStepwise
  <1>3. new[0] = <<>> /\ \A n \in 1 .. (N + 1) : new[n] = Placed(more[n], new[n - 1], q)
    BY <1>1, RanksStepwise
  <1> HIDE DEF old, new
  <1>4. 0 \in T
    BY <1>1, <1>2, <1>3
  <1>5. ASSUME NEW n \in 0 .. (N - 1), n \in T
        PROVE  n + 1 \in T
    <2>1. n + 1 \in 1 .. N /\ n + 1 \in 1 .. (N + 1) /\ (n + 1) - 1 = n /\ n + 1 \in 0 .. N
      BY <1>1
    <2>2. new[n] = old[n] /\ more[n + 1] = ws[n + 1]
      BY <1>1, <1>5, <2>1
    <2> QED
      BY <1>2, <1>3, <2>1, <2>2
  <1> HIDE DEF T
  <1>6. 0 .. N \subseteq T
    BY <1>1, <1>4, <1>5, ReachedUpTo
  <1>7. N \in 0 .. N /\ N + 1 \in 1 .. (N + 1) /\ (N + 1) - 1 = N
    BY <1>1
  <1>8. new[N] = old[N]
    BY <1>6, <1>7 DEF T
  <1>9. new[N + 1] = Placed(w, old[N], q)
    BY <1>1, <1>3, <1>7, <1>8
  <1> QED
    BY <1>1, <1>9 DEF old, new, more

\* The works a provider makes its hits of (parse_search, MAX_PROBE).
ListedBy(p, s, ws) ==
    CASE p = "allanime" -> Ranking(ws, CHOOSE t \in s.titles : TRUE)[Len(ws)]
      [] p = "anidbapp" /\ Len(ws) > MaxProbe -> SubSeq(ws, 1, MaxProbe)
      [] OTHER -> ws

LEMMA ListedAre ==
    ASSUME NEW p \in SearchSites, NEW s, NEW ws \in Seq(Works)
    PROVE  /\ ListedBy(p, s, ws) \in Seq(Works)
           /\ (p = "anidbapp" => Len(ws) <= MaxProbe) => Rearranged(ws, ListedBy(p, s, ws))
  <1>1. MaxProbe \in Nat \ {0} /\ Len(ws) \in Nat
    BY MatchAssumption
  <1>2. CASE p = "allanime"
    <2>1. ListedBy(p, s, ws) = Ranking(ws, CHOOSE t \in s.titles : TRUE)[Len(ws)]
      BY <1>2 DEF ListedBy
    <2> QED
      BY <2>1, RankingRearranges
  <1>3. CASE p = "anidbapp" /\ Len(ws) > MaxProbe
    <2>1. ListedBy(p, s, ws) = SubSeq(ws, 1, MaxProbe)
      BY <1>3 DEF ListedBy
    <2>2. SubSeq(ws, 1, MaxProbe) \in Seq(Works)
      BY <1>1, <1>3
    <2> QED
      BY <1>1, <1>3, <2>1, <2>2
  <1>4. CASE p # "allanime" /\ ~(p = "anidbapp" /\ Len(ws) > MaxProbe)
    <2>1. ListedBy(p, s, ws) = ws
      BY <1>4 DEF ListedBy
    <2> QED
      BY <2>1, RearrangedSame
  <1> QED
    BY <1>2, <1>3, <1>4

LEMMA HitsAre ==
    ASSUME NEW p \in SearchSites, NEW s, NEW ws \in Seq(Works)
    PROVE  /\ SiteHits(p, s, ws) \in Seq(SiteHit) /\ Len(SiteHits(p, s, ws)) = Len(ListedBy(p, s, ws))
           /\ \A i \in 1 .. Len(ListedBy(p, s, ws)) : SiteHits(p, s, ws)[i] = HitOf(p, ListedBy(p, s, ws)[i])
  <1> DEFINE taken == ListedBy(p, s, ws)
             made == [i \in DOMAIN taken |-> HitOf(p, taken[i])]
  <1>1. SiteHits(p, s, ws) = made
    BY DEF SiteHits, ListedBy
  <1>2. taken \in Seq(Works)
    BY ListedAre
  <1> HIDE DEF taken
  <1>3. Len(taken) \in Nat /\ DOMAIN taken = 1 .. Len(taken) /\ \A i \in 1 .. Len(taken) : taken[i] \in Works
    BY <1>2
  <1>4. \A w \in Works : HitOf(p, w) \in SiteHit
    BY DEF SiteHit
  <1>5. made \in [1 .. Len(taken) -> SiteHit]
    BY <1>3, <1>4
  <1>6. made \in Seq(SiteHit) /\ Len(made) = Len(taken) /\ \A i \in 1 .. Len(taken) : made[i] = HitOf(p, taken[i])
    BY <1>3, <1>5
  <1> QED
    BY <1>1, <1>6 DEF taken

\* One more work is one more hit somewhere, or none.
LEMMA HitsGrow ==
    ASSUME NEW p \in SearchSites, NEW s, NEW ws \in Seq(Works), NEW w \in Works
    PROVE  \/ SiteHits(p, s, Append(ws, w)) = SiteHits(p, s, ws)
           \/ \E k : HasInserted(SiteHit, SiteHits(p, s, ws), HitOf(p, w), k, SiteHits(p, s, Append(ws, w)))
  <1> DEFINE more == Append(ws, w)
             a == ListedBy(p, s, ws)
             b == ListedBy(p, s, more)
             hs == SiteHits(p, s, ws)
             r == SiteHits(p, s, more)
  <1>1. MaxProbe \in Nat \ {0} /\ Len(ws) \in Nat
    BY MatchAssumption
  <1>2. more \in Seq(Works) /\ Len(more) = Len(ws) + 1 /\ more[Len(ws) + 1] = w /\ \A i \in 1 .. Len(ws) : more[i] = ws[i]
    OBVIOUS
  <1>3. b = a \/ \E k : HasInserted(Works, a, w, k, b)
    <2>1. ASSUME p # "allanime", p = "anidbapp" => Len(more) <= MaxProbe
          PROVE  \E k : HasInserted(Works, a, w, k, b)
      <3>1. ~(p = "anidbapp" /\ Len(ws) > MaxProbe) /\ ~(p = "anidbapp" /\ Len(more) > MaxProbe)
        BY <1>1, <1>2, <2>1
      <3>2. a = ws /\ b = more
        BY <2>1, <3>1 DEF ListedBy
      <3>3. HasInserted(Works, ws, w, Len(ws), more)
        BY <1>1, <1>2 DEF HasInserted
      <3> QED
        BY <3>2, <3>3
    <2>2. CASE p = "allanime"
      <3> DEFINE q == CHOOSE t \in s.titles : TRUE
      <3>1. a = Ranking(ws, q)[Len(ws)] /\ b = Ranking(more, q)[Len(more)]
        BY <2>2 DEF ListedBy
      <3> HIDE DEF q
      <3>2. b = Placed(w, a, q)
        BY <3>1, RankingGrows
      <3>3. a \in Seq(Works)
        BY ListedAre
      <3> QED
        BY <3>2, <3>3, PlacedInserts
    <2>3. CASE p = "anidbapp" /\ Len(more) > MaxProbe
      <3> DEFINE few == SubSeq(more, 1, MaxProbe)
      <3>1. b = few
        BY <2>3 DEF ListedBy
      <3>2. few \in Seq(Works) /\ Len(few) = MaxProbe /\ \A i \in 1 .. MaxProbe : few[i] = more[i] /\ i \in 1 .. Len(ws)
        BY <1>1, <1>2, <2>3
      <3>3. CASE Len(ws) > MaxProbe
        <4> DEFINE cut == SubSeq(ws, 1, MaxProbe)
        <4>1. a = cut
          BY <2>3, <3>3 DEF ListedBy
        <4>2. cut \in Seq(Works) /\ Len(cut) = MaxProbe /\ \A i \in 1 .. MaxProbe : cut[i] = ws[i]
          BY <1>1, <3>3
        <4> HIDE DEF cut, few, more
        <4>3. few = cut
          BY <1>2, <3>2, <4>2
        <4> QED
          BY <3>1, <4>1, <4>3
      <3>4. CASE ~(Len(ws) > MaxProbe)
        <4>1. a = ws /\ Len(ws) = MaxProbe
          BY <1>1, <1>2, <2>3, <3>4 DEF ListedBy
        <4> HIDE DEF few, more
        <4>2. few = ws
          BY <1>2, <3>2, <4>1
        <4> QED
          BY <3>1, <4>1, <4>2
      <3> QED
        BY <3>3, <3>4
    <2> QED
      BY <1>1, <1>2, <2>1, <2>2, <2>3
  <1>4. /\ hs \in Seq(SiteHit) /\ Len(hs) = Len(a) /\ \A i \in 1 .. Len(a) : hs[i] = HitOf(p, a[i])
        /\ r \in Seq(SiteHit) /\ Len(r) = Len(b) /\ \A i \in 1 .. Len(b) : r[i] = HitOf(p, b[i])
    BY <1>2, HitsAre
  <1> HIDE DEF more, a, b, hs, r
  <1>5. CASE b = a
    <2>1. r = hs
      BY <1>4, <1>5
    <2> QED
      BY <2>1 DEF r, hs, more
  <1>6. ASSUME NEW k, HasInserted(Works, a, w, k, b)
        PROVE  HasInserted(SiteHit, hs, HitOf(p, w), k, r)
    <2>1. /\ b \in Seq(Works) /\ Len(b) = Len(a) + 1 /\ k \in 0 .. Len(a) /\ b[k + 1] = w
          /\ \A i \in 1 .. k : b[i] = a[i]
          /\ \A i \in (k + 1) .. Len(a) : b[i + 1] = a[i]
      BY <1>6 DEF HasInserted
    <2>2. Len(a) \in Nat /\ k \in Nat /\ k <= Len(a)
      BY <1>4, <2>1
    <2> DEFINE n == Len(a)
    <2> HIDE DEF n
    <2>3. n \in Nat /\ k \in Nat /\ k <= n /\ Len(a) = n /\ Len(b) = n + 1
      BY <2>1, <2>2 DEF n
    <2>4. r[k + 1] = HitOf(p, w)
      BY <1>4, <2>1, <2>3
    <2>5. \A i \in 1 .. k : r[i] = hs[i]
      BY <1>4, <2>1, <2>3
    <2>6. ASSUME NEW i \in (k + 1) .. n
          PROVE  r[i + 1] = hs[i]
      <3>1. i \in 1 .. n /\ i + 1 \in 1 .. (n + 1)
        BY <2>3
      <3>2. b[i + 1] = a[i]
        BY <2>1, <2>3
      <3> QED
        BY <1>4, <2>3, <3>1, <3>2
    <2> QED
      BY <1>4, <2>1, <2>3, <2>4, <2>5, <2>6 DEF HasInserted
  <1> QED
    BY <1>3, <1>5, <1>6 DEF r, hs, more

\* The hits of works in another order are the hits in another order.
LEMMA HitsRearranged ==
    ASSUME NEW p \in SearchSites, NEW s, NEW ws \in Seq(Works), NEW vs \in Seq(Works), Rearranged(ws, vs),
           p = "anidbapp" => Len(ws) <= MaxProbe
    PROVE  Rearranged(SiteHits(p, s, ws), SiteHits(p, s, vs))
  <1> DEFINE a == ListedBy(p, s, ws)
             b == ListedBy(p, s, vs)
             hs == SiteHits(p, s, ws)
             gs == SiteHits(p, s, vs)
             Op == [w \in Works |-> HitOf(p, w)]
  <1>1. Len(vs) = Len(ws)
    BY DEF Rearranged, ReorderedBy
  <1>2. a \in Seq(Works) /\ b \in Seq(Works) /\ Rearranged(ws, a) /\ Rearranged(vs, b)
    BY <1>1, ListedAre
  <1>3. /\ hs \in Seq(SiteHit) /\ Len(hs) = Len(a) /\ \A i \in 1 .. Len(a) : hs[i] = HitOf(p, a[i])
        /\ gs \in Seq(SiteHit) /\ Len(gs) = Len(b) /\ \A i \in 1 .. Len(b) : gs[i] = HitOf(p, b[i])
    BY HitsAre
  <1>4. Op \in [Works -> SiteHit] /\ \A w \in Works : Op[w] = HitOf(p, w)
    BY DEF SiteHit
  <1> HIDE DEF a, b, hs, gs, Op
  <1>5. Rearranged(a, ws)
    <2>1. PICK f, g : ReorderedBy(ws, a, f, g)
      BY <1>2 DEF Rearranged
    <2>2. ReorderedBy(a, ws, g, f)
      BY <1>2, <2>1, RearrangedBack
    <2> QED
      BY <2>2 DEF Rearranged
  <1>6. Rearranged(a, vs)
    BY <1>2, <1>5, RearrangedOn
  <1>7. Rearranged(a, b)
    BY <1>2, <1>6, RearrangedOn
  <1>8. /\ \A i \in 1 .. Len(a) : hs[i] = Op[a[i]]
        /\ \A i \in 1 .. Len(b) : gs[i] = Op[b[i]]
    BY <1>2, <1>3, <1>4
  <1>9. Rearranged(hs, gs)
    BY <1>2, <1>3, <1>4, <1>7, <1>8, RearrangedHits
  <1> QED
    BY <1>9 DEF hs, gs

-----------------------------------------------------------------------------
\* Where one hit more is bound, it is that one or the one bound before.
LEMMA BoundBefore ==
    ASSUME NEW s \in Shows, NEW hs \in Seq(SiteHit), NEW h, NEW k, NEW r,
           HasInserted(SiteHit, hs, h, k, r), NEW m, IsBound(s, r, m), r[m] # h
    PROVE  \E i \in DOMAIN hs : IsBound(s, hs, i) /\ hs[i] = r[m]
  <1> DEFINE n == Len(hs)
             e(i) == IF i <= k THEN i ELSE i + 1
  <1>1. /\ r \in Seq(SiteHit) /\ Len(r) = n + 1 /\ k \in 0 .. n /\ r[k + 1] = h
        /\ \A i \in 1 .. k : r[i] = hs[i]
        /\ \A i \in (k + 1) .. n : r[i + 1] = hs[i]
    BY DEF HasInserted
  <1>2. n \in Nat /\ DOMAIN hs = 1 .. n /\ DOMAIN r = 1 .. (n + 1)
    BY <1>1, ListHas
  <1> HIDE DEF n
  <1>3. \A i \in 1 .. n : e(i) \in 1 .. (n + 1) /\ e(i) # k + 1 /\ r[e(i)] = hs[i]
    BY <1>1, <1>2
  <1>4. \A i, j \in 1 .. n : (i < j => e(i) < e(j)) /\ (i # j => e(i) # e(j))
    BY <1>1, <1>2
  <1>5. m \in 1 .. (n + 1) /\ m # k + 1
    BY <1>1, <1>2 DEF IsBound
  <1>6. PICK i \in 1 .. n : m = e(i)
    <2>1. CASE m <= k
      BY <1>1, <1>2, <1>5, <2>1
    <2>2. CASE ~(m <= k)
      <3>1. m - 1 \in 1 .. n /\ e(m - 1) = m
        BY <1>1, <1>2, <1>5, <2>2
      <3> QED
        BY <3>1
    <2> QED
      BY <2>1, <2>2
  <1> HIDE DEF e
  <1>7. r[m] = hs[i]
    BY <1>3, <1>6
  <1>8. \A j \in 1 .. n : j \in Survivors(s, hs) <=> e(j) \in Survivors(s, r)
    BY <1>2, <1>3 DEF Survivors
  <1>9. CASE IdWinner(s, r, m)
    <2>1. i \in Survivors(s, hs)
      BY <1>6, <1>8, <1>9 DEF IdWinner
    <2>2. ASSUME NEW j \in Survivors(s, hs)
          PROVE  /\ Corroborated(s, hs[j]) => Corroborated(s, hs[i])
                 /\ j < i => Corroborated(s, hs[i]) /\ ~Corroborated(s, hs[j])
      <3>1. j \in 1 .. n
        BY <1>2 DEF Survivors
      <3>2. e(j) \in Survivors(s, r) /\ r[e(j)] = hs[j] /\ (j < i => e(j) < m)
        BY <1>3, <1>4, <1>6, <1>8, <3>1
      <3> QED
        BY <1>7, <1>9, <3>2 DEF IdWinner
    <2>3. IsBound(s, hs, i)
      BY <1>2, <2>1, <2>2 DEF IsBound, IdWinner
    <2> QED
      BY <1>2, <1>7, <2>3
  <1>10. CASE Survivors(s, r) = {} /\ Winner(s, r, m)
    <2>1. Survivors(s, hs) = {}
      <3>1. \A j \in Survivors(s, hs) : j \in 1 .. n
        BY <1>2 DEF Survivors
      <3> QED
        BY <1>8, <1>10, <3>1
    <2>2. Score(s, hs[i]) >= BestFloor
      BY <1>7, <1>10 DEF Winner
    <2>3. \A j \in 1 .. n : j # i => Leads(Score(s, hs[i]), Score(s, hs[j]))
      BY <1>2, <1>3, <1>4, <1>6, <1>7, <1>10 DEF Winner
    <2>4. IsBound(s, hs, i)
      BY <1>2, <2>1, <2>2, <2>3 DEF IsBound, Winner
    <2> QED
      BY <1>2, <1>7, <2>4
  <1> QED
    BY <1>9, <1>10 DEF IsBound

\* No two hits the id vouches for alike.
OneOfAKind(s, hs) ==
    \A i, j \in Survivors(s, hs) : Corroborated(s, hs[i]) = Corroborated(s, hs[j]) => i = j

LEMMA BoundElsewhere ==
    ASSUME NEW s \in Shows, NEW hs \in Seq(SiteHit), NEW gs \in Seq(SiteHit), NEW f, NEW g, ReorderedBy(hs, gs, f, g),
           OneOfAKind(s, hs)
    PROVE  /\ OneOfAKind(s, gs)
           /\ \A i \in DOMAIN hs : IsBound(s, hs, i) => g[i] \in DOMAIN gs /\ IsBound(s, gs, g[i]) /\ gs[g[i]] = hs[i]
  <1> DEFINE n == Len(hs)
  <1>1. n \in Nat /\ Len(gs) = n /\ DOMAIN hs = 1 .. n /\ DOMAIN gs = 1 .. n /\ \A i \in 1 .. n : gs[i] = hs[f[i]]
    BY ListHas DEF ReorderedBy
  <1>2. Mutual(n, f, g)
    BY DEF ReorderedBy
  <1> HIDE DEF n
  <1>3. \A i \in 1 .. n : f[i] \in 1 .. n /\ g[i] \in 1 .. n /\ f[g[i]] = i /\ g[f[i]] = i
    BY <1>2 DEF Mutual
  <1>4. \A i \in 1 .. n : gs[i] = hs[f[i]] /\ gs[g[i]] = hs[i]
    BY <1>1, <1>3
  <1>5. \A i \in 1 .. n : i \in Survivors(s, gs) <=> f[i] \in Survivors(s, hs)
    BY <1>1, <1>3, <1>4 DEF Survivors
  <1>6. Survivors(s, gs) \subseteq 1 .. n /\ Survivors(s, hs) \subseteq 1 .. n
    BY <1>1 DEF Survivors
  <1>7. \A h : Corroborated(s, h) \in BOOLEAN
    BY DEF Corroborated
  <1>8. OneOfAKind(s, gs)
    <2> SUFFICES ASSUME NEW i \in Survivors(s, gs), NEW j \in Survivors(s, gs),
                        Corroborated(s, gs[i]) = Corroborated(s, gs[j])
                 PROVE  i = j
      BY DEF OneOfAKind
    <2>1. i \in 1 .. n /\ j \in 1 .. n /\ f[i] \in Survivors(s, hs) /\ f[j] \in Survivors(s, hs)
      BY <1>5, <1>6
    <2>2. Corroborated(s, hs[f[i]]) = Corroborated(s, hs[f[j]])
      BY <1>4, <2>1
    <2>3. f[i] = f[j]
      BY <2>1, <2>2 DEF OneOfAKind
    <2> QED
      BY <1>3, <2>1, <2>3
  <1>9. ASSUME NEW i \in 1 .. n, IsBound(s, hs, i)
        PROVE  IsBound(s, gs, g[i])
    <2>1. g[i] \in 1 .. n /\ gs[g[i]] = hs[i] /\ f[g[i]] = i
      BY <1>3, <1>4
    <2>2. CASE IdWinner(s, hs, i)
      <3>1. g[i] \in Survivors(s, gs)
        BY <1>5, <2>1, <2>2 DEF IdWinner
      <3>2. ASSUME NEW j \in Survivors(s, gs)
            PROVE  /\ Corroborated(s, gs[j]) => Corroborated(s, gs[g[i]])
                   /\ j < g[i] => Corroborated(s, gs[g[i]]) /\ ~Corroborated(s, gs[j])
        <4>1. j \in 1 .. n /\ f[j] \in Survivors(s, hs) /\ gs[j] = hs[f[j]] /\ g[f[j]] = j
          BY <1>3, <1>4, <1>5, <1>6
        <4>2. Corroborated(s, hs[f[j]]) => Corroborated(s, hs[i])
          BY <2>2, <4>1 DEF IdWinner
        <4>3. CASE f[j] = i
          <5>1. j = g[i]
            BY <4>1, <4>3
          <5> QED
            BY <1>1, <2>1, <5>1
        <4>4. CASE f[j] # i
          <5>1. i \in Survivors(s, hs)
            BY <2>2 DEF IdWinner
          <5>2. Corroborated(s, hs[f[j]]) # Corroborated(s, hs[i])
            BY <4>1, <4>4, <5>1 DEF OneOfAKind
          <5>3. Corroborated(s, hs[i]) /\ ~Corroborated(s, hs[f[j]])
            BY <1>7, <4>2, <5>2
          <5> QED
            BY <2>1, <4>1, <5>3
        <4> QED
          BY <4>3, <4>4
      <3> QED
        BY <1>1, <2>1, <3>1, <3>2 DEF IsBound, IdWinner
    <2>3. CASE Survivors(s, hs) = {} /\ Winner(s, hs, i)
      <3>1. Survivors(s, gs) = {}
        BY <1>5, <1>6, <2>3
      <3>2. Score(s, gs[g[i]]) >= BestFloor
        BY <2>1, <2>3 DEF Winner
      <3>3. ASSUME NEW j \in 1 .. n, j # g[i]
            PROVE  Leads(Score(s, gs[g[i]]), Score(s, gs[j]))
        <4>1. f[j] \in 1 .. n /\ gs[j] = hs[f[j]] /\ g[f[j]] = j
          BY <1>3, <1>4
        <4>2. f[j] # i
          BY <3>3, <4>1
        <4> QED
          BY <1>1, <2>1, <2>3, <4>1, <4>2 DEF Winner
      <3> QED
        BY <1>1, <2>1, <3>1, <3>2, <3>3 DEF IsBound, Winner
    <2> QED
      BY <1>9, <2>2, <2>3 DEF IsBound
  <1> QED
    BY <1>1, <1>3, <1>4, <1>8, <1>9

-----------------------------------------------------------------------------
(***************************************************************************)
(* The steps.                                                              *)
(***************************************************************************)
\* The match follows the list.
MatchInv ==
    /\ show \in Shows /\ site \in SearchSites
    /\ works \in Seq(Works) /\ Len(works) <= MaxWorks
    /\ bind = Match(show, hits)

LEMMA MatchStarts ==
    ASSUME MatchInit
    PROVE  MatchInv
  <1>1. show \in Shows /\ site \in SearchSites /\ works = <<>> /\ bind = NoMatch
    BY DEF MatchInit
  <1>2. works \in Seq(Works) /\ Len(works) = 0
    BY <1>1
  <1>3. Rearranged(works, ListedBy(site, show, works))
    <2>1. Len(works) <= MaxProbe
      BY <1>2, MatchAssumption
    <2> QED
      BY <1>1, <1>2, <2>1, ListedAre
  <1>4. Len(ListedBy(site, show, works)) = 0
    BY <1>2, <1>3 DEF Rearranged, ReorderedBy
  <1>5. hits \in Seq(SiteHit) /\ Len(hits) = 0
    BY <1>1, <1>2, <1>4, HitsAre DEF hits
  <1>6. DOMAIN hits = {}
    BY <1>5
  <1>7. Match(show, hits) = NoMatch
    BY <1>1, <1>5, <1>6, Matched DEF IsBound
  <1> QED
    BY <1>1, <1>2, <1>7, MatchAssumption DEF MatchInv

\* What a step makes of the list.
LEMMA MatchStepIs ==
    ASSUME MatchInv, MatchNext
    PROVE  /\ show' = show /\ site' = site /\ bind' = Match(show, SiteHits(site, show, works'))
           /\ \/ Len(works) < MaxWorks /\ \E w \in Works : works' = Append(works, w)
              \/ works' \in Seq(Works) /\ Len(works') = Len(works) /\ Rearranged(works, works')
  <1>1. works \in Seq(Works)
    BY DEF MatchInv
  <1>2. ASSUME NEW i \in 1 .. Len(works) - 1,
               Answers([works EXCEPT ![i] = works[i + 1], ![i + 1] = works[i]])
        PROVE  works' \in Seq(Works) /\ Len(works') = Len(works) /\ Rearranged(works, works')
    <2> DEFINE n == Len(works)
               f == [j \in 1 .. n |-> IF j = i THEN i + 1 ELSE IF j = i + 1 THEN i ELSE j]
               swapped == [works EXCEPT ![i] = works[i + 1], ![i + 1] = works[i]]
    <2>1. n \in Nat /\ DOMAIN works = 1 .. n /\ \A j \in 1 .. n : works[j] \in Works
      BY <1>1
    <2>2. works' = swapped
      BY <1>2 DEF Answers
    <2>3. i \in 1 .. n /\ i + 1 \in 1 .. n /\ i # i + 1
      BY <2>1
    <2>4. swapped \in [1 .. n -> Works]
      BY <2>1, <2>3
    <2>5. swapped \in Seq(Works) /\ Len(swapped) = n
      <3> HIDE DEF n, swapped
      <3> QED
        BY <2>1, <2>4
    <2>6. f \in [1 .. n -> 1 .. n] /\ \A j \in 1 .. n : f[f[j]] = j
      BY <2>1, <2>3
    <2>7. \A j \in 1 .. n : swapped[j] = works[f[j]]
      BY <2>1, <2>3
    <2> HIDE DEF n, f, swapped
    <2>8. Mutual(n, f, f)
      BY <2>6 DEF Mutual
    <2>9. ReorderedBy(works, works', f, f)
      BY <2>2, <2>5, <2>7, <2>8 DEF ReorderedBy, n
    <2> QED
      BY <2>2, <2>5, <2>9 DEF Rearranged, n
  <1>3. CASE ListsAnother
    <2>1. PICK w \in Works : Answers(Append(works, w))
      BY <1>3 DEF ListsAnother
    <2> QED
      BY <1>3, <2>1 DEF ListsAnother, Answers
  <1>4. CASE Reranks
    <2>1. PICK i \in 1 .. Len(works) - 1 : Answers([works EXCEPT ![i] = works[i + 1], ![i + 1] = works[i]])
      BY <1>4 DEF Reranks
    <2>2. works' \in Seq(Works) /\ Len(works') = Len(works) /\ Rearranged(works, works')
      BY <1>2, <2>1
    <2> QED
      BY <2>1, <2>2 DEF Answers
  <1> QED
    BY <1>3, <1>4 DEF MatchNext

LEMMA MatchSteps ==
    ASSUME MatchInv, [MatchNext]_matchVars
    PROVE  MatchInv'
  <1>1. CASE MatchNext
    <2>1. /\ show' = show /\ site' = site /\ bind' = Match(show, SiteHits(site, show, works'))
          /\ \/ Len(works) < MaxWorks /\ \E w \in Works : works' = Append(works, w)
             \/ works' \in Seq(Works) /\ Len(works') = Len(works) /\ Rearranged(works, works')
      BY <1>1, MatchStepIs
    <2>2. show \in Shows /\ site \in SearchSites /\ works \in Seq(Works) /\ Len(works) <= MaxWorks
      BY DEF MatchInv
    <2>3. works' \in Seq(Works) /\ Len(works') <= MaxWorks
      BY <2>1, <2>2, MatchAssumption
    <2>4. bind' = Match(show, hits)'
      BY <2>1 DEF hits
    <2> QED
      BY <2>1, <2>2, <2>3, <2>4 DEF MatchInv
  <1>2. CASE UNCHANGED matchVars
    BY <1>2 DEF MatchInv, matchVars, hits
  <1> QED
    BY <1>1, <1>2

-----------------------------------------------------------------------------
(***************************************************************************)
(* What the match promises.                                                *)
(***************************************************************************)
LEMMA BindIs ==
    ASSUME MatchInv
    PROVE  /\ show \in Shows /\ hits \in Seq(SiteHit) /\ Len(hits) \in Nat /\ DOMAIN hits = 1 .. Len(hits)
           /\ bind # NoMatch => IsBound(show, hits, bind)
           /\ \A i \in DOMAIN hits : IsBound(show, hits, i) => bind = i
           /\ bind # NoMatch => bind \in DOMAIN hits /\ hits[bind] \in SiteHit
           /\ IdMatch(show, hits) = NoMatch <=> Survivors(show, hits) = {}
  <1>1. show \in Shows /\ site \in SearchSites /\ works \in Seq(Works) /\ bind = Match(show, hits)
    BY DEF MatchInv
  <1>2. hits \in Seq(SiteHit)
    BY <1>1, HitsAre DEF hits
  <1>3. /\ bind # NoMatch => IsBound(show, hits, bind)
        /\ \A i \in DOMAIN hits : IsBound(show, hits, i) => bind = i
        /\ IdMatch(show, hits) = NoMatch <=> Survivors(show, hits) = {}
    BY <1>1, <1>2, Matched
  <1>4. Len(hits) \in Nat /\ DOMAIN hits = 1 .. Len(hits) /\ \A i \in DOMAIN hits : hits[i] \in SiteHit
    BY <1>2
  <1>5. bind # NoMatch => bind \in DOMAIN hits
    BY <1>3 DEF IsBound
  <1> QED
    BY <1>1, <1>2, <1>3, <1>4, <1>5

LEMMA MatchTyped ==
    ASSUME MatchInv
    PROVE  MatchTypeOK
  <1>1. bind \in 0 .. Len(hits)
    BY BindIs DEF NoMatch
  <1>2. works \in Seq(Works)
    BY DEF MatchInv
  <1>3. Range(works) \subseteq Works
    BY <1>2 DEF Range
  <1> QED
    BY <1>1, <1>3 DEF MatchTypeOK, MatchInv

LEMMA NoneOfAnotherWork ==
    ASSUME MatchInv
    PROVE  NoOtherWork
  <1> SUFFICES ASSUME bind # NoMatch
               PROVE  ~AnotherWork(show, hits[bind])
    BY DEF NoOtherWork, Chosen
  <1>1. bind \in DOMAIN hits /\ hits[bind] \in SiteHit /\ show \in Shows /\ IsBound(show, hits, bind)
    BY BindIs
  <1>2. CASE IdWinner(show, hits, bind)
    <2>1. ~Contradicted(show, hits[bind])
      BY <1>2 DEF IdWinner, Survivors
    <2> QED
      BY <2>1 DEF Contradicted, AnotherWork
  <1>3. CASE Winner(show, hits, bind)
    <2> DEFINE sc == Score(show, hits[bind])
    <2>1. sc >= BestFloor
      BY <1>3 DEF Winner
    <2>2. sc \in Int /\ (AnotherWork(show, hits[bind]) => sc < 0)
      BY <1>1, Scored
    <2> HIDE DEF sc
    <2> QED
      BY <2>1, <2>2 DEF BestFloor
  <1> QED
    BY <1>1, <1>2, <1>3 DEF IsBound

LEMMA ExactStands ==
    ASSUME MatchInv
    PROVE  ExactTitleStands
  <1> SUFFICES ASSUME bind # NoMatch, IdMatch(show, hits) = NoMatch, BestTitle(show, hits[bind]) < Exact,
                      NEW i \in DOMAIN hits, BestTitle(show, hits[i]) = Exact, ~AnotherWork(show, hits[i])
               PROVE  FALSE
    BY DEF ExactTitleStands
  <1>1. bind \in DOMAIN hits /\ hits[bind] \in SiteHit /\ show \in Shows /\ IsBound(show, hits, bind)
        /\ hits \in Seq(SiteHit) /\ Survivors(show, hits) = {}
    BY BindIs
  <1>2. Winner(show, hits, bind)
    BY <1>1 DEF IsBound, IdWinner
  <1>3. hits[i] \in SiteHit
    BY <1>1
  <1> DEFINE a == Score(show, hits[bind])
             b == Score(show, hits[i])
             t == BestTitle(show, hits[bind])
  <1>4. a \in Int /\ t \in TitleValues /\ a <= t + 300
    BY <1>1, Scored
  <1>5. b \in Int /\ b >= 1320
    BY <1>1, <1>3, Scored
  <1>6. i # bind
    BY DEF Exact
  <1>7. Leads(a, b)
    BY <1>2, <1>6 DEF Winner
  <1>8. t < Exact
    OBVIOUS
  <1> HIDE DEF a, b, t
  <1>9. t \in {1250, 900, -5000}
    BY <1>4, <1>8 DEF TitleValues, Exact, NoOverlap
  <1> QED
    BY <1>4, <1>5, <1>7, <1>9 DEF Leads

\* What an adapter makes of a work keeps its titles and leaves its numbers, or drops them.
LEMMA HitKeeps ==
    ASSUME NEW p \in SearchSites, NEW w \in Works
    PROVE  /\ HitOf(p, w).titles = w.titles
           /\ HitOf(p, w).eps \in {Unknown, w.eps} /\ HitOf(p, w).year \in {Unknown, w.year}
  <1>1. \A i, e, y : /\ HitRecord(i, w, e, y).titles = w.titles /\ HitRecord(i, w, e, y).eps = e
                     /\ HitRecord(i, w, e, y).year = y
    BY DEF HitRecord
  <1>2. CASE p = "senshi"
    BY <1>1, <1>2 DEF HitOf, SenshiHit
  <1>3. CASE p = "anidbapp"
    BY <1>1, <1>3 DEF HitOf, AnidbappHit
  <1>4. CASE p = "anineko"
    BY <1>1, <1>4 DEF HitOf, AninekoHit
  <1>5. CASE p = "allanime"
    BY <1>1, <1>5 DEF HitOf, AllanimeHit
  <1> QED
    BY <1>2, <1>3, <1>4, <1>5 DEF SearchSites

LEMMA RightBinds ==
    ASSUME MatchInv
    PROVE  RightShowBinds
  <1> SUFFICES ASSUME Len(works) = 1, Own(works[1])
               PROVE  bind # NoMatch
    BY DEF RightShowBinds
  <1> DEFINE w == works[1]
             h == HitOf(site, w)
             taken == ListedBy(site, show, works)
  <1>1. show \in Shows /\ site \in SearchSites /\ works \in Seq(Works) /\ bind = Match(show, hits) /\ w \in Works
    BY DEF MatchInv
  <1>2. taken \in Seq(Works) /\ Rearranged(works, taken)
    <2>1. Len(works) <= MaxProbe
      BY MatchAssumption
    <2> QED
      BY <1>1, <2>1, ListedAre
  <1>3. Len(taken) = 1 /\ taken[1] = w
    <2>1. PICK f, g : ReorderedBy(works, taken, f, g)
      BY <1>2 DEF Rearranged
    <2>2. Len(taken) = 1 /\ taken[1] = works[f[1]] /\ f \in [1 .. 1 -> 1 .. 1]
      <3>1. /\ Len(works) = Len(taken) /\ f \in [1 .. Len(works) -> 1 .. Len(works)]
            /\ \A i \in 1 .. Len(works) : taken[i] = works[f[i]]
        BY <2>1 DEF ReorderedBy, Mutual
      <3>2. 1 \in 1 .. Len(works)
        OBVIOUS
      <3> QED
        BY <3>1, <3>2
    <2>3. f[1] = 1
      BY <2>2
    <2> QED
      BY <2>2, <2>3
  <1>4. hits \in Seq(SiteHit) /\ Len(hits) = 1 /\ hits[1] = h
    BY <1>1, <1>3, HitsAre DEF hits
  <1>5. h \in SiteHit
    BY <1>1 DEF SiteHit
  <1>6. h.titles = w.titles /\ h.eps \in {Unknown, w.eps} /\ h.year \in {Unknown, w.year}
    BY <1>1, HitKeeps
  <1>7. w.eps \in {Unknown, show.eps} /\ w.year \in {Unknown, show.year}
        /\ \E t \in w.titles : TitleScore(t, CHOOSE s \in show.titles : TRUE) = Exact
    BY DEF Own
  <1>8. show.titles # {} /\ show.eps \in Nat /\ show.year \in Nat /\ w.titles # {}
    BY <1>1, MatchAssumption
  <1>9. BestTitle(show, h) = Exact
    <2> DEFINE own == CHOOSE s \in show.titles : TRUE
    <2>1. own \in show.titles
      BY <1>8
    <2>2. PICK t \in w.titles : TitleScore(t, own) = Exact
      BY <1>7
    <2> HIDE DEF own
    <2>3. TitleScore(own, t) = Exact
      BY <2>2, TitleScored
    <2>4. Exact <= BestTitle(show, h) /\ BestTitle(show, h) \in TitleValues
      BY <1>6, <1>8, <2>1, <2>3, BestTitled
    <2> QED
      BY <2>4 DEF TitleValues, Exact, NoOverlap
  <1> HIDE DEF h
  <1>10. EpsKnown(show, h) => show.eps = h.eps
    BY <1>6, <1>7 DEF EpsKnown, Unknown
  <1>11. BothKnown(show.year, h.year) => show.year = h.year
    BY <1>6, <1>7 DEF BothKnown, Unknown
  <1>12. Score(show, h) >= BestFloor
    BY <1>1, <1>5, <1>9, <1>10, <1>11, Scored
  <1>13. DOMAIN hits = {1}
    BY <1>4
  <1>14. CASE Survivors(show, hits) # {}
    BY <1>1, <1>4, <1>14, Matched DEF Match
  <1>15. CASE Survivors(show, hits) = {}
    <2>1. IsBound(show, hits, 1)
      BY <1>4, <1>12, <1>13, <1>15 DEF IsBound, Winner
    <2> QED
      BY <1>1, <1>4, <1>13, <2>1, Matched
  <1> QED
    BY <1>14, <1>15

LEMMA ChosenIs ==
    ASSUME MatchInv
    PROVE  \A h : h \in Chosen <=> \E i \in DOMAIN hits : IsBound(show, hits, i) /\ h = hits[i]
  <1>1. bind # NoMatch => bind \in DOMAIN hits /\ IsBound(show, hits, bind)
    BY BindIs
  <1>2. \A i \in DOMAIN hits : IsBound(show, hits, i) => bind = i /\ bind # NoMatch
    BY BindIs DEF NoMatch
  <1> QED
    BY <1>1, <1>2 DEF Chosen

\* The hits that are bound in a list, as a set.
BoundIn(s, hs) == {hs[i] : i \in {j \in DOMAIN hs : IsBound(s, hs, j)}}

LEMMA ChosenBefore ==
    ASSUME MatchInv, MatchInv', show' = show, site' = site
    PROVE  /\ Chosen = BoundIn(show, hits)
           /\ Chosen' = BoundIn(show, SiteHits(site, show, works'))
  <1>1. Chosen = BoundIn(show, hits)
    BY ChosenIs DEF BoundIn
  <1>2. \A h : h \in Chosen' <=> \E i \in DOMAIN hits' : IsBound(show', hits', i) /\ h = hits'[i]
    <2>1. bind' # NoMatch => IsBound(show', hits', bind')
      <3>1. show' \in Shows /\ site' \in SearchSites /\ works' \in Seq(Works) /\ bind' = Match(show', hits')
        BY DEF MatchInv
      <3>2. hits' \in Seq(SiteHit)
        BY <3>1, HitsAre DEF hits
      <3> QED
        BY <3>1, <3>2, Matched
    <2>2. \A i \in DOMAIN hits' : IsBound(show', hits', i) => bind' = i /\ bind' # NoMatch
      <3>1. show' \in Shows /\ site' \in SearchSites /\ works' \in Seq(Works) /\ bind' = Match(show', hits')
        BY DEF MatchInv
      <3>2. hits' \in Seq(SiteHit)
        BY <3>1, HitsAre DEF hits
      <3> QED
        BY <3>1, <3>2, Matched
    <2> QED
      BY <2>1, <2>2 DEF Chosen, IsBound
  <1>3. hits' = SiteHits(site, show, works')
    BY DEF hits
  <1> DEFINE next == SiteHits(site, show, works')
  <1>4. \A h : h \in Chosen' <=> \E i \in DOMAIN next : IsBound(show, next, i) /\ h = next[i]
    BY <1>2, <1>3
  <1> HIDE DEF next
  <1>5. Chosen' = BoundIn(show, next)
    BY <1>4 DEF BoundIn
  <1> QED
    BY <1>1, <1>5 DEF next

\* One more work.
LEMMA RivalRefuses ==
    ASSUME MatchInv, MatchInv', [MatchNext]_matchVars, Len(works') > Len(works)
    PROVE  Chosen' \subseteq Chosen \cup {HitOf(site, Last(works'))}
  <1>1. works \in Seq(Works) /\ Len(works) \in Nat /\ show \in Shows /\ site \in SearchSites
    BY DEF MatchInv
  <1>2. MatchNext
    BY <1>1 DEF matchVars
  <1>3. /\ show' = show /\ site' = site
        /\ \/ \E w \in Works : works' = Append(works, w)
           \/ Len(works') = Len(works)
    BY <1>2, MatchStepIs
  <1>4. PICK w \in Works : works' = Append(works, w)
    BY <1>1, <1>3
  <1>5. Last(works') = w
    BY <1>1, <1>4 DEF Last
  <1> DEFINE hs == hits
             r == SiteHits(site, show, Append(works, w))
  <1>6. Chosen = BoundIn(show, hs) /\ Chosen' = BoundIn(show, r)
    BY <1>3, <1>4, ChosenBefore
  <1>7. hs \in Seq(SiteHit)
    BY BindIs
  <1>8. r = hs \/ \E k : HasInserted(SiteHit, hs, HitOf(site, w), k, r)
    BY <1>1, HitsGrow DEF hits
  <1> HIDE DEF hs, r
  <1>9. ASSUME NEW k, HasInserted(SiteHit, hs, HitOf(site, w), k, r), NEW m \in DOMAIN r, IsBound(show, r, m),
               r[m] # HitOf(site, w)
        PROVE  r[m] \in BoundIn(show, hs)
    <2>1. \E i \in DOMAIN hs : IsBound(show, hs, i) /\ hs[i] = r[m]
      BY <1>1, <1>7, <1>9, BoundBefore
    <2> QED
      BY <2>1 DEF BoundIn
  <1>10. BoundIn(show, r) \subseteq BoundIn(show, hs) \cup {HitOf(site, w)}
    BY <1>8, <1>9 DEF BoundIn
  <1> QED
    BY <1>5, <1>6, <1>10

\* The order of the works.
LEMMA OrderDecidesNothing ==
    ASSUME MatchInv, MatchInv', [MatchNext]_matchVars, works' # works, Len(works') = Len(works),
           site = "anidbapp" => Len(works) <= MaxProbe, OneOfAKind(show, hits)
    PROVE  Chosen' = Chosen
  <1>1. works \in Seq(Works) /\ Len(works) \in Nat /\ show \in Shows /\ site \in SearchSites
    BY DEF MatchInv
  <1>2. MatchNext
    BY DEF matchVars
  <1>3. /\ show' = show /\ site' = site
        /\ \/ \E w \in Works : works' = Append(works, w)
           \/ works' \in Seq(Works) /\ Rearranged(works, works')
    BY <1>2, MatchStepIs
  <1>4. works' \in Seq(Works) /\ Rearranged(works, works')
    <2>1. \A w \in Works : Len(Append(works, w)) # Len(works)
      BY <1>1
    <2> QED
      BY <1>3, <2>1
  <1> DEFINE hs == hits
             r == SiteHits(site, show, works')
  <1>5. Chosen = BoundIn(show, hs) /\ Chosen' = BoundIn(show, r)
    BY <1>3, ChosenBefore
  <1>6. hs \in Seq(SiteHit) /\ r \in Seq(SiteHit)
    BY <1>1, <1>4, BindIs, HitsAre
  <1>7. Rearranged(hs, r)
    BY <1>1, <1>4, HitsRearranged DEF hits
  <1> HIDE DEF hs, r
  <1>8. PICK f, g : ReorderedBy(hs, r, f, g)
    BY <1>7 DEF Rearranged
  <1>9. ReorderedBy(r, hs, g, f)
    BY <1>6, <1>8, RearrangedBack
  <1>10. OneOfAKind(show, hs)
    BY DEF hs
  <1>11. /\ OneOfAKind(show, r)
         /\ \A i \in DOMAIN hs : IsBound(show, hs, i) => g[i] \in DOMAIN r /\ IsBound(show, r, g[i]) /\ r[g[i]] = hs[i]
    BY <1>1, <1>6, <1>8, <1>10, BoundElsewhere
  <1>12. \A i \in DOMAIN r : IsBound(show, r, i) => f[i] \in DOMAIN hs /\ IsBound(show, hs, f[i]) /\ hs[f[i]] = r[i]
    BY <1>1, <1>6, <1>9, <1>11, BoundElsewhere
  <1>13. BoundIn(show, r) \subseteq BoundIn(show, hs)
    BY <1>12 DEF BoundIn
  <1>14. BoundIn(show, hs) \subseteq BoundIn(show, r)
    BY <1>11 DEF BoundIn
  <1> QED
    BY <1>5, <1>13, <1>14

-----------------------------------------------------------------------------
\* MatchSound (best_provider_match, best_id_match, search of the providers): the show
\* itself is bound when it alone is listed, never a work of another length, never a lesser
\* title beside the exact one; another work may replace the match or end it and never moves
\* it to a third, and the order decides nothing among hits that can be told apart.
THEOREM MatchesAreSound == MatchSpec => []MatchTypeOK /\ MatchSound
  <1> DEFINE Rival == Len(works') > Len(works) => Chosen' \subseteq Chosen \cup {HitOf(site, Last(works'))}
             Told == /\ works' # works /\ Len(works') = Len(works)
                     /\ site = "anidbapp" => Len(works) <= MaxProbe
                     /\ \A i, j \in Survivors(show, hits) :
                           Corroborated(show, hits[i]) = Corroborated(show, hits[j]) => i = j
             Fair == Told => Chosen' = Chosen
  <1>1. MatchInit => MatchInv
    BY MatchStarts
  <1>2. MatchInv /\ [MatchNext]_matchVars => MatchInv'
    BY MatchSteps
  <1>3. MatchInv => MatchTypeOK /\ RightShowBinds /\ NoOtherWork /\ ExactTitleStands
    BY MatchTyped, RightBinds, NoneOfAnotherWork, ExactStands
  <1>4. MatchInv /\ MatchInv' /\ [MatchNext]_matchVars => [Rival]_matchVars
    BY RivalRefuses
  <1>5. MatchInv /\ MatchInv' /\ [MatchNext]_matchVars => [Fair]_matchVars
    <2> SUFFICES ASSUME MatchInv, MatchInv', [MatchNext]_matchVars
                 PROVE  Fair
      OBVIOUS
    <2> SUFFICES ASSUME Told
                 PROVE  Chosen' = Chosen
      BY Zenon
    <2>0. /\ works' # works /\ Len(works') = Len(works)
          /\ site = "anidbapp" => Len(works) <= MaxProbe
      BY Zenon
    <2>2. \A i, j \in Survivors(show, hits) :
             Corroborated(show, hits[i]) = Corroborated(show, hits[j]) => i = j
      BY Zenon
    <2>1. OneOfAKind(show, hits)
      BY Zenon, <2>2 DEF OneOfAKind
    <2> HIDE DEF Told
    <2> QED
      BY <2>0, <2>1, OrderDecidesNothing
  <1>6. MatchSpec => []MatchInv
    BY <1>1, <1>2, PTL DEF MatchSpec
  <1>7. MatchSpec => [](MatchTypeOK /\ RightShowBinds /\ NoOtherWork /\ ExactTitleStands)
    BY <1>3, <1>6, PTL
  <1>8. MatchSpec => [][Rival]_matchVars
    BY <1>4, <1>6, PTL DEF MatchSpec
  <1>9. MatchSpec => [][Fair]_matchVars
    BY <1>5, <1>6, PTL DEF MatchSpec
  <1> QED
    BY <1>7, <1>8, <1>9, PTL DEF MatchSound, RivalOnlyRefuses, OrderFree

-----------------------------------------------------------------------------
(***************************************************************************)
(* Time: the calendar, the cours, the episodes aired (Airing).             *)
(***************************************************************************)
-----------------------------------------------------------------------------
(***************************************************************************)
(* The calendar.  An era has 400 years of its own, from March to February. *)
(***************************************************************************)
YearStart(y) == 365 * y + y \div 4 - y \div 100
YearLength(y) == IF (y + 1) % 4 = 0 /\ ((y + 1) % 100 # 0 \/ y = 399) THEN 366 ELSE 365
MonthOf(d) == (5 * d + 2) \div 153
MonthStart(m) == (153 * m + 2) \div 5
MonthLength(m) == IF m \in {1, 3, 6, 8} THEN 30 ELSE 31
EraEnd == 146096
EraDay(z) == (z + 719468) % 146097
Era(z) == (z + 719468) \div 146097

Years == 0 .. 399
EraMonths == 0 .. 11
Months == 1 .. 12

\* Day e of an era is in year y.
InYear(e, y) == y \in 0 .. 399 /\ YearStart(y) <= e /\ e < YearStart(y) + YearLength(y)

LEMMA YearFound ==
    ASSUME NEW e \in Nat, e <= EraEnd
    PROVE  InYear(e, YearOfEra(e))
  BY SMTT(60) DEF InYear, YearOfEra, YearStart, YearLength, EraEnd

LEMMA YearsFollow ==
    ASSUME NEW e \in Nat, e < EraEnd, NEW y, InYear(e, y)
    PROVE  YearOfEra(e + 1) = IF e + 1 < YearStart(y) + YearLength(y) THEN y ELSE y + 1
  <1> DEFINE x == YearOfEra(e + 1)
  <1>1. InYear(e + 1, x)
    BY YearFound, SMT DEF EraEnd
  <1> HIDE DEF x
  <1>2. x = IF e + 1 < YearStart(y) + YearLength(y) THEN y ELSE y + 1
    BY <1>1, SMTT(60) DEF InYear, YearStart, YearLength, EraEnd
  <1> QED
    BY <1>2, Zenon DEF x

LEMMA YearsAbut ==
    ASSUME NEW y \in 0 .. 398
    PROVE  YearStart(y + 1) = YearStart(y) + YearLength(y)
  BY SMTT(60) DEF YearStart, YearLength

LEMMA EraEnds ==
    /\ YearOfEra(EraEnd) = 399 /\ YearStart(399) = EraEnd - 365 /\ YearLength(399) = 366
    /\ YearOfEra(0) = 0 /\ YearStart(0) = 0
  BY SMT DEF YearOfEra, YearStart, YearLength, EraEnd

LEMMA MonthsFollow ==
    ASSUME NEW d \in 0 .. 365
    PROVE  /\ MonthOf(d) \in 0 .. 11 /\ MonthStart(MonthOf(d)) <= d
           /\ d < 365 /\ MonthOf(d) < 11 =>
                IF d - MonthStart(MonthOf(d)) + 1 < MonthLength(MonthOf(d))
                THEN MonthOf(d + 1) = MonthOf(d)
                ELSE MonthOf(d + 1) = MonthOf(d) + 1 /\ MonthStart(MonthOf(d) + 1) = d + 1
           /\ MonthOf(d) = 11 <=> d >= 337
           /\ MonthStart(11) = 337 /\ MonthOf(0) = 0 /\ MonthStart(0) = 0
  BY SMTT(60) DEF MonthOf, MonthStart, MonthLength

NextDate(t) ==
    IF t.dom < DaysOf(t.month, t.year) THEN [t EXCEPT !.dom = @ + 1]
    ELSE IF t.month < 12 THEN [year |-> t.year, month |-> t.month + 1, dom |-> 1]
    ELSE [year |-> t.year + 1, month |-> 1, dom |-> 1]

CalendarMonth(m) == IF m < 10 THEN m + 3 ELSE m - 9

\* The year on the calendar of month m of year y of an era.
CalendarYear(era, y, m) == y + era * 400 + (IF CalendarMonth(m) <= 2 THEN 1 ELSE 0)

\* The date of day d of year y of an era.
DateOf(era, y, d) ==
    [year |-> CalendarYear(era, y, MonthOf(d)),
     month |-> CalendarMonth(MonthOf(d)), dom |-> d - MonthStart(MonthOf(d)) + 1]

LEMMA CivilIs ==
    ASSUME NEW z \in Int
    PROVE  Civil(z) = DateOf(Era(z), YearOfEra(EraDay(z)), EraDay(z) - YearStart(YearOfEra(EraDay(z))))
  BY DEF Civil, DateOf, Era, EraDay, YearStart, MonthOf, MonthStart, CalendarMonth, CalendarYear

\* The same with names for the era, the day in it and the year.
LEMMA CivilAt ==
    ASSUME NEW z \in Int, NEW a, NEW e, NEW y, a = Era(z), e = EraDay(z), y = YearOfEra(e)
    PROVE  Civil(z) = DateOf(a, y, e - YearStart(y))
  BY CivilIs

LEMMA DaysOfMonth ==
    ASSUME NEW era \in Int, NEW y \in Years, NEW m \in EraMonths
    PROVE  /\ CalendarMonth(m) \in Months /\ CalendarYear(era, y, m) \in Int
           /\ DaysOf(CalendarMonth(m), CalendarYear(era, y, m)) = IF m = 11 THEN YearLength(y) - 337 ELSE MonthLength(m)
  <1> USE DEF Years, EraMonths, Months
  <1> DEFINE Y == CalendarYear(era, y, m)
  <1>1. CalendarMonth(m) \in 1 .. 12 /\ Y = y + era * 400 + (IF CalendarMonth(m) <= 2 THEN 1 ELSE 0)
    BY DEF CalendarMonth, CalendarYear
  <1> HIDE DEF Y
  <1>2. CASE m = 11
    <2>1. Y = y + 1 + era * 400 /\ CalendarMonth(m) = 2
      BY <1>1, <1>2 DEF CalendarMonth
    <2>2. Y % 4 = (y + 1) % 4 /\ Y % 100 = (y + 1) % 100 /\ Y % 400 = (y + 1) % 400
      BY <2>1
    <2>3. (y + 1) % 400 = 0 <=> y = 399
      OBVIOUS
    <2>4. LeapYear(Y) <=> (y + 1) % 4 = 0 /\ ((y + 1) % 100 # 0 \/ y = 399)
      BY <2>2, <2>3 DEF LeapYear
    <2>5. DaysOf(2, Y) = YearLength(y) - 337
      BY <2>4 DEF DaysOf, YearLength
    <2> QED
      BY <1>1, <1>2, <2>1, <2>5 DEF Y
  <1>3. CASE m # 11
    <2>1. CalendarMonth(m) # 2 /\ (CalendarMonth(m) \in {4, 6, 9, 11} <=> m \in {1, 3, 6, 8})
      BY <1>3 DEF CalendarMonth
    <2>2. DaysOf(CalendarMonth(m), Y) = MonthLength(m)
      BY <2>1 DEF DaysOf, MonthLength
    <2>3. Y \in Int
      BY <1>1
    <2> QED
      BY <1>1, <1>3, <2>2, <2>3 DEF Y
  <1> QED
    BY <1>2, <1>3

LEMMA MonthRange ==
    ASSUME NEW d \in 0 .. 365
    PROVE  /\ MonthOf(d) \in 0 .. 11 /\ MonthStart(MonthOf(d)) \in Int
           /\ (MonthOf(d) = 11 <=> d >= 337)
  BY SMTT(60) DEF MonthOf, MonthStart

\* The date after day i of month c of year Y, which has so many days.
LEMMA NextInMonth ==
    ASSUME NEW Y \in Int, NEW c \in Months, NEW i \in Int, NEW n \in Int, DaysOf(c, Y) = n
    PROVE  NextDate([year |-> Y, month |-> c, dom |-> i]) =
              IF i < n THEN [year |-> Y, month |-> c, dom |-> i + 1]
              ELSE IF c < 12 THEN [year |-> Y, month |-> c + 1, dom |-> 1]
              ELSE [year |-> Y + 1, month |-> 1, dom |-> 1]
  <1> DEFINE t == [year |-> Y, month |-> c, dom |-> i]
  <1>1. t.year = Y /\ t.month = c /\ t.dom = i
    OBVIOUS
  <1>2. [t EXCEPT !.dom = t.dom + 1] = [year |-> Y, month |-> c, dom |-> i + 1]
    OBVIOUS
  <1> HIDE DEF t
  <1>4. NextDate(t) = IF t.dom < DaysOf(t.month, t.year) THEN [t EXCEPT !.dom = t.dom + 1]
                      ELSE IF t.month < 12 THEN [year |-> t.year, month |-> t.month + 1, dom |-> 1]
                      ELSE [year |-> t.year + 1, month |-> 1, dom |-> 1]
    BY Zenon DEF NextDate
  <1> QED
    BY <1>1, <1>2, <1>4, Zenon DEF t

\* The next day of the same year.
LEMMA DaysFollow ==
    ASSUME NEW era \in Int, NEW y \in Years, NEW d \in Nat, d + 1 < YearLength(y)
    PROVE  DateOf(era, y, d + 1) = NextDate(DateOf(era, y, d))
  <1> DEFINE x == d + 1
             m == MonthOf(d)
             n == MonthOf(x)
             c == CalendarMonth(m)
             Y == CalendarYear(era, y, m)
             i == d - MonthStart(m) + 1
             j == x - MonthStart(n) + 1
             b == CalendarMonth(n)
             Z == CalendarYear(era, y, n)
             long == YearLength(y)
  <1>1. DateOf(era, y, d) = [year |-> Y, month |-> c, dom |-> i]
    BY Zenon DEF DateOf
  <1>2. DateOf(era, y, x) = [year |-> Z, month |-> b, dom |-> j]
    BY Zenon DEF DateOf
  <1>3. d \in 0 .. 364 /\ x \in 0 .. 365 /\ long \in {365, 366} /\ x < long
    BY DEF YearLength
  <1>4. m \in 0 .. 11 /\ MonthStart(m) \in Int /\ (m = 11 <=> d >= 337)
    BY <1>3, MonthRange
  <1>5. n \in 0 .. 11 /\ (n = 11 <=> x >= 337)
    <2> HIDE DEF x
    <2> QED
      BY <1>3, MonthRange
  <1>6. m < 11 => IF i < MonthLength(m) THEN n = m ELSE n = m + 1 /\ MonthStart(m + 1) = x
    BY <1>3, MonthsFollow
  <1> HIDE DEF m, n
  <1>7. c \in Months /\ Y \in Int /\ DaysOf(c, Y) = IF m = 11 THEN long - 337 ELSE MonthLength(m)
    <2>1. m \in EraMonths
      BY <1>4 DEF EraMonths
    <2> QED
      BY <2>1, DaysOfMonth, Zenon
  <1>8. /\ Y = y + era * 400 + (IF c <= 2 THEN 1 ELSE 0) /\ Z = y + era * 400 + (IF b <= 2 THEN 1 ELSE 0)
        /\ c = (IF m < 10 THEN m + 3 ELSE m - 9) /\ b = (IF n < 10 THEN n + 3 ELSE n - 9)
    BY DEF CalendarYear, CalendarMonth
  <1>9. MonthStart(11) = 337
    BY DEF MonthStart
  <1>10. i = d - MonthStart(m) + 1 /\ j = x - MonthStart(n) + 1 /\ x = d + 1
    OBVIOUS
  <1> DEFINE last == DaysOf(c, Y)
  <1> HIDE DEF x, c, Y, i, j, b, Z, last, long
  <1>11. last = IF m = 11 THEN long - 337 ELSE MonthLength(m)
    BY <1>7 DEF last
  <1>12. i \in Int /\ last \in Int
    BY <1>3, <1>4, <1>10, <1>11 DEF MonthLength
  <1>13. NextDate([year |-> Y, month |-> c, dom |-> i]) =
              IF i < last THEN [year |-> Y, month |-> c, dom |-> i + 1]
              ELSE IF c < 12 THEN [year |-> Y, month |-> c + 1, dom |-> 1]
              ELSE [year |-> Y + 1, month |-> 1, dom |-> 1]
    BY <1>7, <1>12, NextInMonth, Zenon DEF last
  <1>14. CASE i < last
    <2>1. n = m
      BY <1>3, <1>4, <1>5, <1>6, <1>9, <1>10, <1>11, <1>14
    <2>2. Z = Y /\ b = c /\ j = i + 1
      BY <1>3, <1>4, <1>8, <1>10, <2>1 DEF Years
    <2> QED
      BY <1>1, <1>2, <1>13, <1>14, <2>2 DEF x
  <1>15. CASE ~(i < last)
    <2>1. m < 11
      BY <1>3, <1>4, <1>9, <1>10, <1>11, <1>15
    <2>2. n = m + 1 /\ MonthStart(n) = x
      BY <1>4, <1>6, <1>11, <1>15, <2>1
    <2>3. j = 1
      BY <1>3, <1>10, <2>2
    <2>4. IF c < 12 THEN b = c + 1 /\ Z = Y ELSE b = 1 /\ Z = Y + 1
      BY <1>4, <1>8, <2>1, <2>2 DEF Years
    <2> QED
      BY <1>1, <1>2, <1>13, <1>15, <2>3, <2>4 DEF x
  <1> QED
    BY <1>14, <1>15

YearAfter(era, y, e, x) == x + e * 400 = y + 1 + era * 400

\* The first of March after the last day of a year.
LEMMA MarchFollows ==
    ASSUME NEW era \in Int, NEW y \in Years, NEW d \in Nat, d + 1 = YearLength(y),
           NEW e \in Int, NEW x \in Years, YearAfter(era, y, e, x)
    PROVE  DateOf(e, x, 0) = NextDate(DateOf(era, y, d))
  <1> DEFINE Y == CalendarYear(era, y, 11)
             long == YearLength(y)
             i == d - 336
             n == long - 337
  <1>1. d \in 364 .. 365 /\ long = d + 1
    BY DEF YearLength
  <1>2. MonthOf(d) = 11 /\ MonthStart(11) = 337 /\ MonthOf(0) = 0 /\ MonthStart(0) = 0
    BY <1>1 DEF MonthOf, MonthStart
  <1>3. CalendarMonth(11) = 2 /\ CalendarMonth(0) = 3
    BY DEF CalendarMonth
  <1>4. Y \in Int /\ DaysOf(2, Y) = n
    <2> DEFINE m == 11
    <2>1. m \in EraMonths
      BY DEF EraMonths
    <2> HIDE DEF m
    <2>2. CalendarYear(era, y, m) \in Int
          /\ DaysOf(CalendarMonth(m), CalendarYear(era, y, m)) = IF m = 11 THEN YearLength(y) - 337 ELSE MonthLength(m)
      BY <2>1, DaysOfMonth, Zenon
    <2> QED
      BY <1>3, <2>2 DEF m
  <1>5. d - MonthStart(11) + 1 = i
    BY <1>1, <1>2
  <1>6. DateOf(era, y, d) = [year |-> Y, month |-> 2, dom |-> i]
    BY <1>2, <1>3, <1>5, Zenon DEF DateOf
  <1>7. CalendarYear(e, x, 0) = Y /\ 0 - MonthStart(0) + 1 = 1
    BY <1>2, <1>3 DEF CalendarYear, YearAfter, Years
  <1>8. DateOf(e, x, 0) = [year |-> Y, month |-> 3, dom |-> 1]
    BY <1>2, <1>3, <1>7, Zenon DEF DateOf
  <1>9. i \in Int /\ n \in Int /\ i = n /\ 2 \in Months
    BY <1>1 DEF Months
  <1> HIDE DEF Y, long, i, n
  <1>10. NextDate([year |-> Y, month |-> 2, dom |-> i]) =
              IF i < n THEN [year |-> Y, month |-> 2, dom |-> i + 1]
              ELSE IF 2 < 12 THEN [year |-> Y, month |-> 2 + 1, dom |-> 1]
              ELSE [year |-> Y + 1, month |-> 1, dom |-> 1]
    BY <1>4, <1>9, NextInMonth, Zenon
  <1>11. ~(i < n) /\ 2 < 12 /\ 2 + 1 = 3
    BY <1>9
  <1> QED
    BY <1>6, <1>8, <1>10, <1>11

\* civil_from_days is the calendar, from any day to the next.
LEMMA CivilSteps ==
    ASSUME NEW z \in Int
    PROVE  Civil(z + 1) = NextDate(Civil(z))
  <1> DEFINE e == EraDay(z)
             a == Era(z)
             y == YearOfEra(e)
             d == e - YearStart(y)
             long == YearLength(y)
             start == YearStart(y)
  <1>1. e \in Nat /\ e <= EraEnd /\ a \in Int
    BY SMT DEF EraDay, Era, EraEnd
  <1>2. Civil(z) = DateOf(a, y, d)
    BY CivilAt
  <1>3. /\ e < EraEnd => EraDay(z + 1) = e + 1 /\ Era(z + 1) = a
        /\ e = EraEnd => EraDay(z + 1) = 0 /\ Era(z + 1) = a + 1
    BY SMT DEF EraDay, Era, EraEnd
  <1> HIDE DEF e, a
  <1>4. InYear(e, y)
    BY <1>1, YearFound
  <1> HIDE DEF y
  <1>5. y \in 0 .. 399 /\ y \in Years /\ start <= e /\ e < start + long
    BY <1>4 DEF InYear, Years
  <1>6. start \in Int /\ long \in {365, 366}
    BY <1>5 DEF YearStart, YearLength
  <1>7. d = e - start
    OBVIOUS
  <1> HIDE DEF d, start, long
  <1>8. d \in Nat
    BY <1>1, <1>5, <1>6, <1>7
  <1>9. z + 1 \in Int
    OBVIOUS
  <1>10. CASE e < EraEnd
    <2> DEFINE x == e + 1
               v == YearOfEra(x)
    <2>1. v = IF e + 1 < start + long THEN y ELSE y + 1
      BY <1>1, <1>4, <1>10, YearsFollow DEF start, long
    <2>2. Civil(z + 1) = DateOf(a, v, x - YearStart(v))
      BY <1>3, <1>9, <1>10, CivilAt
    <2> HIDE DEF v
    <2>3. CASE x < start + long
      <3>1. v = y
        BY <2>1, <2>3
      <3>2. x - start = d + 1 /\ d + 1 < long
        BY <1>1, <1>6, <1>7, <2>3
      <3>3. DateOf(a, y, d + 1) = NextDate(DateOf(a, y, d))
        BY <1>1, <1>5, <1>8, <3>2, DaysFollow DEF long
      <3> QED
        BY <1>2, <2>2, <3>1, <3>2, <3>3 DEF start
    <2>4. CASE ~(x < start + long)
      <3>1. v = y + 1 /\ d + 1 = long /\ x = start + long
        BY <1>1, <1>5, <1>6, <1>7, <2>1, <2>4
      <3>2. y # 399
        <4> SUFFICES ASSUME y = 399
                     PROVE  FALSE
          OBVIOUS
        <4>1. start = EraEnd - 365 /\ long = 366
          BY EraEnds DEF start, long
        <4> QED
          BY <1>1, <1>10, <3>1, <4>1 DEF EraEnd
      <3>3. y \in 0 .. 398 /\ y + 1 \in 0 .. 399
        BY <1>5, <3>2
      <3>4. YearStart(y + 1) = x
        BY <3>1, <3>3, YearsAbut DEF start, long
      <3>5. Civil(z + 1) = DateOf(a, y + 1, 0)
        <4>1. x - x = 0
          BY <1>1
        <4> QED
          BY <2>2, <3>1, <3>4, <4>1
      <3>6. DateOf(a, y + 1, 0) = NextDate(DateOf(a, y, d))
        <4> DEFINE u == y + 1
        <4>1. YearAfter(a, y, a, u) /\ u \in Years
          BY <3>3 DEF YearAfter, Years
        <4> HIDE DEF u
        <4>2. d + 1 = YearLength(y)
          BY <3>1 DEF long
        <4>3. \A f \in Int, v1 \in Years : YearAfter(a, y, f, v1) => DateOf(f, v1, 0) = NextDate(DateOf(a, y, d))
          BY <1>1, <1>5, <1>8, <4>2, MarchFollows, Zenon
        <4>4. DateOf(a, u, 0) = NextDate(DateOf(a, y, d))
          BY <1>1, <4>1, <4>3, Zenon
        <4> QED
          BY <4>4 DEF u
      <3> QED
        BY <1>2, <3>5, <3>6
    <2> QED
      BY <2>3, <2>4
  <1>11. CASE e = EraEnd
    <2>1. EraDay(z + 1) = 0 /\ Era(z + 1) = a + 1
      BY <1>3, <1>11
    <2>2. y = 399
      BY <1>11, EraEnds DEF y
    <2>3. d = 365 /\ long = 366
      BY <1>7, <1>11, <2>2, EraEnds DEF start, long, EraEnd
    <2>4. Civil(z + 1) = DateOf(a + 1, 0, 0 - 0)
      <3> DEFINE b == a + 1
      <3>1. b = Era(z + 1)
        BY <2>1
      <3> HIDE DEF b
      <3>2. Civil(z + 1) = DateOf(b, 0, 0 - YearStart(0))
        BY <1>9, <2>1, <3>1, EraEnds, CivilAt
      <3> QED
        BY <3>2, EraEnds DEF b
    <2>5. DateOf(a + 1, 0, 0) = NextDate(DateOf(a, y, d))
      <3> DEFINE b == a + 1
                 u == 0
      <3>1. u \in Years /\ b \in Int /\ YearAfter(a, y, b, u) /\ d + 1 = long
        BY <1>1, <2>2, <2>3 DEF Years, YearAfter
      <3> HIDE DEF b, u
      <3>2. d + 1 = YearLength(y)
        BY <3>1 DEF long
      <3>3. \A f \in Int, v \in Years : YearAfter(a, y, f, v) => DateOf(f, v, 0) = NextDate(DateOf(a, y, d))
        BY <1>1, <1>5, <1>8, <3>2, MarchFollows, Zenon
      <3>4. DateOf(b, u, 0) = NextDate(DateOf(a, y, d))
        BY <3>1, <3>3, Zenon
      <3> QED
        BY <3>4 DEF b, u
    <2> QED
      BY <1>2, <2>4, <2>5
  <1> QED
    BY <1>1, <1>10, <1>11 DEF EraEnd

LEMMA CivilTyped ==
    ASSUME NEW z \in Int
    PROVE  Civil(z).month \in Months /\ Civil(z).year \in Int /\ Civil(z).dom \in Int
  <1> DEFINE e == EraDay(z)
             a == Era(z)
             y == YearOfEra(e)
             d == e - YearStart(y)
             m == MonthOf(d)
  <1>1. e \in Nat /\ e <= EraEnd /\ a \in Int
    BY SMT DEF EraDay, Era, EraEnd
  <1>2. Civil(z) = DateOf(a, y, d)
    BY CivilAt
  <1> HIDE DEF e, a
  <1>3. InYear(e, y)
    BY <1>1, YearFound
  <1> HIDE DEF y
  <1>4. y \in 0 .. 399 /\ y \in Years /\ YearStart(y) <= e /\ e < YearStart(y) + YearLength(y)
    BY <1>3 DEF InYear, Years
  <1>5. YearStart(y) \in Int /\ YearLength(y) \in {365, 366}
    BY <1>4 DEF YearStart, YearLength
  <1>6. d \in 0 .. 365
    BY <1>1, <1>4, <1>5
  <1> HIDE DEF d
  <1>7. m \in 0 .. 11 /\ MonthStart(m) \in Int /\ d - MonthStart(m) + 1 \in Int
    BY <1>6, MonthRange
  <1>8. m \in EraMonths
    BY <1>7 DEF EraMonths
  <1> HIDE DEF m
  <1>9. CalendarMonth(m) \in Months /\ CalendarYear(a, y, m) \in Int
    BY <1>1, <1>4, <1>8, DaysOfMonth, Zenon
  <1> DEFINE c == CalendarMonth(m)
             Y == CalendarYear(a, y, m)
             i == d - MonthStart(m) + 1
  <1>10. DateOf(a, y, d) = [year |-> Y, month |-> c, dom |-> i]
    BY Zenon DEF DateOf, m
  <1> HIDE DEF c, Y, i
  <1>11. Civil(z).month = c /\ Civil(z).year = Y /\ Civil(z).dom = i
    BY <1>2, <1>10
  <1> QED
    BY <1>7, <1>9, <1>11 DEF c, Y, i

-----------------------------------------------------------------------------
(***************************************************************************)
(* The cours.                                                              *)
(***************************************************************************)
LEMMA NextSeasons ==
    /\ NextSeason("winter") = "spring" /\ NextSeason("spring") = "summer"
    /\ NextSeason("summer") = "fall" /\ NextSeason("fall") = "winter"
  <1>1. ASSUME NEW k \in 1 .. 4
        PROVE  (CHOOSE i \in 1 .. 4 : Seasons[i] = Seasons[k]) = k
    <2>1. \A i, j \in 1 .. 4 : Seasons[i] = Seasons[j] => i = j
      BY DEF Seasons
    <2> QED
      BY <2>1
  <1>2. Seasons[1] = "winter" /\ Seasons[2] = "spring" /\ Seasons[3] = "summer" /\ Seasons[4] = "fall"
    BY DEF Seasons
  <1>3. /\ (CHOOSE i \in 1 .. 4 : Seasons[i] = "winter") = 1 /\ (CHOOSE i \in 1 .. 4 : Seasons[i] = "spring") = 2
        /\ (CHOOSE i \in 1 .. 4 : Seasons[i] = "summer") = 3 /\ (CHOOSE i \in 1 .. 4 : Seasons[i] = "fall") = 4
    BY <1>1, <1>2
  <1>4. (1 % 4) + 1 = 2 /\ (2 % 4) + 1 = 3 /\ (3 % 4) + 1 = 4 /\ (4 % 4) + 1 = 1
    OBVIOUS
  <1> QED
    BY <1>2, <1>3, <1>4 DEF NextSeason

\* The cour of a date.
CourOf(t) == [season |-> FromMonth(t.month), year |-> t.year + (IF t.month = 12 THEN 1 ELSE 0)]

CourFollows(c, d) ==
    /\ d.season = NextSeason(c.season)
    /\ d.year = c.year + (IF d.season = "winter" THEN 1 ELSE 0)

LEMMA CoursFollow ==
    ASSUME NEW Y \in Int, NEW c \in Months, NEW i \in Int, NEW t, t = [year |-> Y, month |-> c, dom |-> i]
    PROVE  CourOf(NextDate(t)) = CourOf(t) \/ CourFollows(CourOf(t), CourOf(NextDate(t)))
  <1> DEFINE u == NextDate(t)
  <1>1. t.year = Y /\ t.month = c
    OBVIOUS
  <1>2. \/ u.year = Y /\ u.month = c
        \/ c < 12 /\ u.year = Y /\ u.month = c + 1
        \/ c = 12 /\ u.year = Y + 1 /\ u.month = 1
    <2>1. c < 12 \/ c = 12
      BY DEF Months
    <2>2. \/ u = [t EXCEPT !.dom = @ + 1]
          \/ c < 12 /\ u = [year |-> t.year, month |-> t.month + 1, dom |-> 1]
          \/ ~(c < 12) /\ u = [year |-> t.year + 1, month |-> 1, dom |-> 1]
      BY <1>1, Zenon DEF NextDate
    <2> HIDE DEF u
    <2>3. [t EXCEPT !.dom = @ + 1].year = Y /\ [t EXCEPT !.dom = @ + 1].month = c
      OBVIOUS
    <2> QED
      BY <1>1, <2>1, <2>2, <2>3
  <1> HIDE DEF u
  <1> DEFINE m == u.month
             a == CourOf(t)
             b == CourOf(u)
  <1>3. /\ a.season = FromMonth(c) /\ a.year = Y + (IF c = 12 THEN 1 ELSE 0)
        /\ b.season = FromMonth(m) /\ b.year = u.year + (IF m = 12 THEN 1 ELSE 0)
        /\ a = [season |-> a.season, year |-> a.year] /\ b = [season |-> b.season, year |-> b.year]
    BY <1>1 DEF CourOf
  <1> HIDE DEF m, a, b
  <1>4. \/ u.year = Y /\ m = c
        \/ c < 12 /\ u.year = Y /\ m = c + 1
        \/ c = 12 /\ u.year = Y + 1 /\ m = 1
    BY <1>2 DEF m
  <1>5. CASE u.year = Y /\ m = c
    BY <1>3, <1>5 DEF a, b, u
  <1>6. CASE c = 12 /\ u.year = Y + 1 /\ m = 1
    <2>1. FromMonth(12) = "winter" /\ FromMonth(1) = "winter"
      BY DEF FromMonth
    <2>2. a.season = b.season /\ a.year = b.year
      BY <1>3, <1>6, <2>1
    <2>3. a = b
      BY <1>3, <2>2
    <2> QED
      BY <2>3 DEF a, b, u
  <1>7. CASE c < 12 /\ u.year = Y /\ m = c + 1
    <2>1. CASE c \in {2, 5, 8, 11}
      <3>1. /\ FromMonth(2) = "winter" /\ FromMonth(3) = "spring" /\ FromMonth(5) = "spring" /\ FromMonth(6) = "summer"
            /\ FromMonth(8) = "summer" /\ FromMonth(9) = "fall" /\ FromMonth(11) = "fall" /\ FromMonth(12) = "winter"
        BY DEF FromMonth
      <3>2. b.season = NextSeason(a.season)
        BY <1>3, <1>7, <2>1, <3>1, NextSeasons
      <3>3. b.year = a.year + (IF b.season = "winter" THEN 1 ELSE 0)
        BY <1>3, <1>7, <2>1, <3>1
      <3> QED
        BY <3>2, <3>3 DEF CourFollows, a, b, u
    <2>2. CASE c \notin {2, 5, 8, 11}
      <3>1. FromMonth(m) = FromMonth(c) /\ m # 12 /\ c # 12
        BY <1>7, <2>2 DEF FromMonth, Months
      <3>2. a.season = b.season /\ a.year = b.year
        BY <1>3, <1>7, <3>1
      <3>3. a = b
        BY <1>3, <3>2
      <3> QED
        BY <3>3 DEF a, b, u
    <2> QED
      BY <2>1, <2>2
  <1> QED
    BY <1>4, <1>5, <1>6, <1>7

-----------------------------------------------------------------------------
(***************************************************************************)
(* The steps.                                                              *)
(***************************************************************************)
Standings == {"planning", "watching", "completed"}

AiringInv ==
    /\ day \in Int /\ Civil(day) = date
    /\ aired \in 0 .. Length /\ seen \in 0 .. aired /\ standing \in Standings
    /\ record.total \in 0 .. Length /\ record.next \in 0 .. Length
    /\ record.status \in Settled => aired = Length /\ record.total \in {NoNumber, Length}
    /\ CompletedIsOver

LEMMA AiringStarts ==
    ASSUME AiringInit
    PROVE  AiringInv
  <1>1. Length \in Nat \ {0} /\ Announced.total = 0 /\ Announced.next = 1 /\ Announced.status \notin Settled
    BY AiringAssumption DEF Announced, Settled, NoNumber
  <1>2. day \in Int /\ Civil(day) = date
    BY FirstDaysAssumption DEF AiringInit
  <1> QED
    BY <1>1, <1>2 DEF AiringInit, AiringInv, Standings, CompletedIsOver

\* What AniList may say.
LEMMA RecordsAre ==
    ASSUME AiringInv, NEW r \in Records
    PROVE  /\ r.total \in 0 .. Length /\ r.next \in 0 .. Length
           /\ r.status \in Settled => aired = Length /\ r.total \in {NoNumber, Length}
           /\ Expected(r) # Unlisted => Expected(r) >= Least(aired, HintLimit)
  <1>1. Length \in Nat \ {0} /\ HintLimit \in Nat \ {0} /\ aired \in 0 .. Length
    BY AiringAssumption DEF AiringInv
  <1>2. CASE aired = Length
    <2>1. r.status \in {"FINISHED", "none"} /\ r.total \in {NoNumber, Length} /\ r.next = NoNumber
      BY <1>2 DEF Records
    <2>2. ExpectedRaw(r) = IF r.total = NoNumber THEN Unlisted ELSE r.total
      BY <2>1 DEF ExpectedRaw
    <2> QED
      BY <1>1, <1>2, <2>1, <2>2 DEF NoNumber, Unlisted, Expected, Least
  <1>3. CASE aired # Length
    <2>1. r.status \notin Settled /\ r.total \in {NoNumber, aired, Length} /\ r.next \in {NoNumber, aired + 1}
      BY <1>3 DEF Records, Settled
    <2>2. ExpectedRaw(r) = Unlisted \/ (ExpectedRaw(r) \in Nat /\ ExpectedRaw(r) >= aired)
      BY <1>1, <1>3, <2>1 DEF ExpectedRaw, IsStillAiring, NoNumber, Unlisted, Least
    <2> QED
      BY <1>1, <1>3, <2>1, <2>2 DEF NoNumber, Unlisted, Expected, Least
  <1> QED
    BY <1>2, <1>3

\* A day that passes has the next date.
LEMMA DayPassesOn ==
    ASSUME AiringInv, DayPasses
    PROVE  day' = day + 1 /\ date' = NextDate(date) /\ Civil(day') = date'
           /\ UNCHANGED <<aired, record, seen, standing>>
  <1>1. day' = day + 1 /\ date' = NextDate(date) /\ UNCHANGED <<aired, record, seen, standing>>
    BY Zenon DEF DayPasses, NextDate
  <1>2. day \in Int /\ Civil(day) = date
    BY DEF AiringInv
  <1> QED
    BY <1>1, <1>2, CivilSteps

LEMMA AiringSteps ==
    ASSUME AiringInv, [AiringNext]_airingVars
    PROVE  AiringInv'
  <1>1. Length \in Nat \ {0}
    BY AiringAssumption
  <1>2. CASE DayPasses
    <2>1. day' = day + 1 /\ Civil(day') = date' /\ UNCHANGED <<aired, record, seen, standing>>
      BY <1>2, DayPassesOn
    <2>2. day' \in Int
      BY <2>1 DEF AiringInv
    <2> QED
      BY <2>1, <2>2 DEF AiringInv, CompletedIsOver
  <1>3. CASE EpisodeAirs
    <2>1. aired < Length /\ aired' = aired + 1 /\ UNCHANGED <<day, date, record, seen, standing>>
      BY <1>3 DEF EpisodeAirs
    <2>2. aired' \in 0 .. Length /\ seen' \in 0 .. aired'
      BY <1>1, <2>1 DEF AiringInv
    <2>3. record.status \notin Settled /\ standing # "completed"
      BY <1>1, <2>1 DEF AiringInv, CompletedIsOver
    <2> QED
      BY <2>1, <2>2, <2>3 DEF AiringInv, CompletedIsOver
  <1>4. CASE Refreshed
    <2>1. record' \in Records /\ UNCHANGED <<day, date, aired, seen, standing>>
      BY <1>4 DEF Refreshed
    <2> DEFINE r == record'
    <2>2. /\ r.total \in 0 .. Length /\ r.next \in 0 .. Length
          /\ r.status \in Settled => aired = Length /\ r.total \in {NoNumber, Length}
      <3>1. r \in Records
        BY <2>1
      <3> HIDE DEF r
      <3> QED
        BY <3>1, RecordsAre
    <2> QED
      BY <2>1, <2>2 DEF AiringInv, CompletedIsOver
  <1>5. CASE Played
    <2>1. /\ \E e \in 1 .. aired : seen' = IF e > seen THEN e ELSE seen
          /\ standing' = StatusAfter(standing, seen', record)
          /\ UNCHANGED <<day, date, aired, record>>
      BY <1>5 DEF Played
    <2>2. aired \in 0 .. Length /\ seen \in 0 .. aired /\ record.total \in 0 .. Length
      BY DEF AiringInv
    <2>3. seen' \in 0 .. aired /\ seen' >= seen
      BY <1>1, <2>1, <2>2
    <2>4. standing' \in Standings
      BY <2>1 DEF StatusAfter, Standings
    <2>5. ASSUME standing' = "completed"
          PROVE  aired = Length /\ seen' = Length
      <3>1. CASE standing = "completed"
        <4>1. aired = Length /\ seen = Length
          BY <3>1 DEF AiringInv, CompletedIsOver
        <4> QED
          BY <1>1, <2>2, <2>3, <4>1
      <3>2. CASE standing # "completed"
        <4>1. record.status \in Settled /\ record.total > 0 /\ seen' >= record.total
          BY <2>1, <2>5, <3>2 DEF StatusAfter, IsStillAiring
        <4>2. aired = Length /\ record.total = Length
          BY <4>1 DEF AiringInv, NoNumber
        <4> QED
          BY <1>1, <2>2, <2>3, <4>1, <4>2
      <3> QED
        BY <3>1, <3>2
    <2>6. CompletedIsOver'
      BY <2>1, <2>5 DEF CompletedIsOver
    <2> QED
      BY <2>1, <2>3, <2>4, <2>6 DEF AiringInv
  <1>6. CASE UNCHANGED airingVars
    BY <1>6 DEF AiringInv, CompletedIsOver, airingVars
  <1> QED
    BY <1>2, <1>3, <1>4, <1>5, <1>6 DEF AiringNext

Cours ==
    day' # day /\ CurrentCour(day') # CurrentCour(day) =>
          /\ CurrentCour(day').season = NextSeason(CurrentCour(day).season)
          /\ CurrentCour(day').year = CurrentCour(day).year
                + (IF CurrentCour(day').season = "winter" THEN 1 ELSE 0)

LEMMA CoursStep ==
    ASSUME AiringInv, [AiringNext]_airingVars
    PROVE  Cours
  <1> SUFFICES ASSUME day' # day
               PROVE  CurrentCour(day') = CurrentCour(day) \/ CourFollows(CurrentCour(day), CurrentCour(day'))
    BY DEF Cours, CourFollows
  <1>1. DayPasses
    BY DEF AiringNext, EpisodeAirs, Refreshed, Played, airingVars
  <1>2. day \in Int /\ Civil(day) = date /\ Civil(day') = NextDate(date)
    BY <1>1, DayPassesOn DEF AiringInv
  <1>3. Civil(day).month \in Months /\ Civil(day).year \in Int /\ Civil(day).dom \in Int
    BY <1>2, CivilTyped
  <1>4. \A z : CurrentCour(z) = CourOf(Civil(z))
    BY DEF CurrentCour, CourOf
  <1>5. \A z : Civil(z) = [year |-> Civil(z).year, month |-> Civil(z).month, dom |-> Civil(z).dom]
    BY DEF Civil
  <1>6. CourOf(NextDate(date)) = CourOf(date) \/ CourFollows(CourOf(date), CourOf(NextDate(date)))
    <2> DEFINE a == Civil(day).year
               b == Civil(day).month
               c == Civil(day).dom
    <2>1. a \in Int /\ b \in Months /\ c \in Int /\ date = [year |-> a, month |-> b, dom |-> c]
      BY <1>2, <1>3, <1>5
    <2> HIDE DEF a, b, c
    <2> QED
      BY <2>1, CoursFollow, Zenon
  <1> QED
    BY <1>2, <1>4, <1>6, Zenon

LEMMA NoneHiddenStep ==
    ASSUME AiringInv, [AiringNext]_airingVars, record' # record
    PROVE  Expected(record') # Unlisted => Expected(record') >= Least(aired, HintLimit)
  <1>1. record' \in Records
    BY DEF AiringNext, DayPasses, EpisodeAirs, Refreshed, Played, airingVars
  <1> DEFINE r == record'
  <1>2. r \in Records
    BY <1>1
  <1> HIDE DEF r
  <1>3. Expected(r) # Unlisted => Expected(r) >= Least(aired, HintLimit)
    BY <1>2, RecordsAre
  <1> QED
    BY <1>3 DEF r

\* AiringSound (civil_from_days, current_cour, expected_episode_count, after_play): the date
\* of a day is that of the calendar, for every day; no cour is skipped, repeated or put in the
\* wrong year; the grid hides no episode that has aired; and a play completes a show only
\* when all of it has aired and been seen.
THEOREM AiringIsSound == AiringSpec => []AiringTypeOK /\ AiringSound
  <1> DEFINE Hidden == record' # record /\ Expected(record') # Unlisted =>
                           Expected(record') >= Least(aired, HintLimit)
             Following == day' # day /\ CurrentCour(day') # CurrentCour(day) =>
                  /\ CurrentCour(day').season = NextSeason(CurrentCour(day).season)
                  /\ CurrentCour(day').year = CurrentCour(day).year
                        + (IF CurrentCour(day').season = "winter" THEN 1 ELSE 0)
  <1>1. AiringInit => AiringInv
    BY AiringStarts
  <1>2. AiringInv /\ [AiringNext]_airingVars => AiringInv'
    BY AiringSteps
  <1>3. AiringInv => AiringTypeOK /\ DateTrue /\ CompletedIsOver
    BY DEF AiringInv, AiringTypeOK, DateTrue, Standings
  <1>4. AiringInv /\ [AiringNext]_airingVars => [Following]_airingVars
    BY CoursStep DEF Cours
  <1>5. AiringInv /\ [AiringNext]_airingVars => [Hidden]_airingVars
    BY NoneHiddenStep
  <1>6. AiringSpec => []AiringInv
    BY <1>1, <1>2, PTL DEF AiringSpec
  <1>7. AiringSpec => [](AiringTypeOK /\ DateTrue /\ CompletedIsOver)
    BY <1>3, <1>6, PTL
  <1>8. AiringSpec => [][Following]_airingVars
    BY <1>4, <1>6, PTL DEF AiringSpec
  <1>9. AiringSpec => [][Hidden]_airingVars
    BY <1>5, <1>6, PTL DEF AiringSpec
  <1> QED
    BY <1>7, <1>8, <1>9, PTL DEF AiringSound, CoursInOrder, NoneHidden

-----------------------------------------------------------------------------
(***************************************************************************)
(* The program of MCData runs one of the parts; the others rest.           *)
(***************************************************************************)
LEMMA DataStart ==
    ASSUME DataInit
    PROVE  /\ OpenInit /\ ResumeInit /\ LegacyInit /\ DiscoverInit /\ NavInit
           /\ ReplicasInit /\ QueryInit /\ PanesInit /\ WindowsInit
           /\ MatchInit /\ VariantsInit /\ AiringInit /\ LabelsInit
  <1>1. OpenInit /\ ResumeInit /\ LegacyInit
    BY ONLY DataInit DEF DataInit
  <1>2. DiscoverInit /\ NavInit /\ ReplicasInit
    BY ONLY DataInit DEF DataInit
  <1>3. QueryInit /\ PanesInit /\ WindowsInit
    BY ONLY DataInit DEF DataInit
  <1>4. MatchInit /\ VariantsInit
    BY ONLY DataInit DEF DataInit
  <1>5. AiringInit /\ LabelsInit
    BY ONLY DataInit DEF DataInit
  <1> QED
    BY <1>1, <1>2, <1>3, <1>4, <1>5

LEMMA DataStep ==
    ASSUME [DataNext]_dataVars
    PROVE  /\ [OpenNext]_openVars /\ [ResumeNext]_resumeVars /\ [LegacyNext]_legacyVars
           /\ [DiscoverNext]_discoverVars /\ [NavNext]_navVars /\ [ReplicasNext]_replicaVars
           /\ [QueryNext]_queryVars /\ [PanesNext]_paneVars /\ [WindowsNext]_windowVars
           /\ [MatchNext]_matchVars /\ [VariantsNext]_variantVars
           /\ [AiringNext]_airingVars /\ [LabelsNext]_labelVars
  <1>1. CASE UNCHANGED dataVars
    BY <1>1 DEF dataVars
  <1>2. CASE DataNext
    BY <1>2 DEF DataNext, PartSteps, OthersRest
  <1> QED
    BY <1>1, <1>2

LEMMA DataRunsParts ==
    DataSpec => /\ OpenSpec /\ ResumeSpec /\ LegacySpec /\ DiscoverSpec /\ NavSpec
                /\ QuerySpec /\ PanesSpec /\ WindowsSpec
                /\ MatchSpec /\ VariantsSpec /\ AiringSpec /\ LabelsSpec
  <1>1. DataInit => /\ OpenInit /\ ResumeInit /\ LegacyInit /\ DiscoverInit /\ NavInit
                    /\ QueryInit /\ PanesInit /\ WindowsInit
                    /\ MatchInit /\ VariantsInit /\ AiringInit /\ LabelsInit
    BY DataStart
  <1>2. [DataNext]_dataVars => /\ [OpenNext]_openVars /\ [ResumeNext]_resumeVars /\ [LegacyNext]_legacyVars
           /\ [DiscoverNext]_discoverVars /\ [NavNext]_navVars
           /\ [QueryNext]_queryVars /\ [PanesNext]_paneVars /\ [WindowsNext]_windowVars
           /\ [MatchNext]_matchVars /\ [VariantsNext]_variantVars
           /\ [AiringNext]_airingVars /\ [LabelsNext]_labelVars
    BY DataStep
  <1> QED
    BY <1>1, <1>2, PTL DEF DataSpec, OpenSpec, ResumeSpec, LegacySpec, DiscoverSpec, NavSpec, QuerySpec, PanesSpec,
       WindowsSpec, MatchSpec, VariantsSpec, AiringSpec, LabelsSpec

\* The replicas of the list, without the fairness of their syncs.
LEMMA ReplicasTyped == DataSpec => []ReplicasTypeOK
  <1>1. DataInit => ReplicasTypeOK
    <2>1. ReplicasInit => ReplicasTypeOK
      BY EditsAssumption DEF ReplicasInit, ReplicasTypeOK
    <2> QED
      BY <2>1, DataStart
  <1>2. ReplicasTypeOK /\ [DataNext]_dataVars => ReplicasTypeOK'
    <2>1. ASSUME ReplicasTypeOK, ReplicasNext
          PROVE  ReplicasTypeOK'
      BY <2>1, ReplicasStep
    <2>2. ASSUME ReplicasTypeOK, UNCHANGED replicaVars
          PROVE  ReplicasTypeOK'
      BY <2>2 DEF ReplicasTypeOK, replicaVars
    <2> QED
      BY <2>1, <2>2, DataStep
  <1> QED
    BY <1>1, <1>2, PTL DEF DataSpec

\* The picks of the program are honest: the rendition is the best the quality and the
\* screen allow, the label on screen is the label that is asked for, the hit that is bound is
\* the show and no lesser one, and the calendar, the cours and the counts are true
\* (src/tui/episodes.rs, src/resolver.rs, src/domain.rs, src/providers).
THEOREM PicksAreHonest == DataSpec => PicksHonest
  <1>1. MatchSpec => MatchSound
    BY MatchesAreSound, PTL
  <1>2. AiringSpec => AiringSound
    BY AiringIsSound, PTL
  <1>3. LabelsSpec => []LabelsHonest
    BY LabelsAreHonest, PTL
  <1> QED
    BY <1>1, <1>2, <1>3, DataRunsParts, VariantsAreSound, PTL DEF PicksHonest

\* Every part that keeps data stays in its types: no cursor leaves its list, no frontier
\* its season, no retry its limit, no window what is listed.
THEOREM DataTypeCorrect == DataSpec => []DataTypeOK
  <1>1. OpenSpec => []OpenTypeOK
    BY FilesTyped
  <1>2. ResumeSpec => []ResumeTypeOK
    BY ResumesTyped
  <1>3. LegacySpec => []LegacyTypeOK
    BY ImportsAreHonest, PTL
  <1>4. DiscoverSpec => []DiscoverTypeOK
    BY GridsTyped
  <1>5. NavSpec => []NavTypeOK
    BY KeysTyped
  <1>6. QuerySpec => []QueryTypeOK
    BY QueriesAreSound, PTL
  <1>7. MatchSpec => []MatchTypeOK
    BY MatchesAreSound, PTL
  <1>8. VariantsSpec => []VariantsTypeOK
    BY VariantsTyped
  <1>9. AiringSpec => []AiringTypeOK
    BY AiringIsSound, PTL
  <1>10. LabelsSpec => []LabelsTypeOK
    BY LabelsAreHonest, PTL
  <1>11. PanesSpec => []PanesTypeOK
    BY PanesTyped
  <1>12. WindowsSpec => []WindowsTypeOK
    BY ListsTyped
  <1>13. OpenTypeOK /\ ResumeTypeOK /\ LegacyTypeOK /\ DiscoverTypeOK /\ NavTypeOK /\ ReplicasTypeOK /\ QueryTypeOK
         /\ MatchTypeOK /\ VariantsTypeOK /\ AiringTypeOK /\ LabelsTypeOK /\ PanesTypeOK /\ WindowsTypeOK
         => DataTypeOK
    BY DEF DataTypeOK
  <1> QED
    BY <1>1, <1>2, <1>3, <1>4, <1>5, <1>6, <1>7, <1>8, <1>9, <1>10, <1>11, <1>12, <1>13, DataRunsParts, ReplicasTyped, PTL
=============================================================================
