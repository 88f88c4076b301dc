---------------------------- MODULE ClientProofs ----------------------------
(***************************************************************************)
(* Theorems about what comes from the network: what the AniList client     *)
(* reads and overwrites, what the update check and the installer leave,    *)
(* what a late enrichment changes, which poster is kept, what the answer   *)
(* of a provider says, and where the relay is led; for every account, list *)
(* of releases, set of shows, number of calls and chain of redirects.      *)
(***************************************************************************)
EXTENDS Catalog, Update, Enrichment, Covers, Adapters, Relay, Induction,
        SequenceTheorems, FiniteSetTheorems

-----------------------------------------------------------------------------
(***************************************************************************)
(* The AniList client.                                                     *)
(***************************************************************************)
Posted == {NoPost} \cup [op : Ops \ {"save"}, of : Media] \cup [op : {"save"}, of : Media, pair : Pair]

CatalogTypes ==
    /\ account \in [Media -> Entry \cup {Missing}] /\ truth \in [Media -> Entry \cup {Missing}]
    /\ post \in Posted /\ spentTime \in 0 .. DeadlineAt /\ foreign \in Nat
    /\ read \in [Media -> Pair \cup {Missing, Unread}]
    /\ body.nulled \in Depths \cup {"no body"}
    /\ Bodied => post # NoPost
    /\ result = NoResult \/ (result.op \in Ops /\ post = NoPost)

\* What was read of an entry still holds, if no other client moved it and no save is
\* about to be concluded.
ReadHolds ==
    \A m \in Media :
        read[m] # Unread /\ m \notin moved /\ ~(post.op = "save" /\ Bodied /\ post.of = m)
            => Mapped(account[m]) = read[m]

\* The body under way is what the account says, or said when it was served.
BodyTrue ==
    /\ post.op = "entry" /\ Bodied /\ post.of \notin moved => body.value = {account[post.of]} \ {Missing}
    /\ post.op = "entry" /\ Bodied /\ body.nulled # "nothing" => body.errors
    /\ post.op = "entry" /\ Bodied => body.value \subseteq Entry
    /\ post.op = "list" /\ Bodied =>
           body.value = {[media |-> n, entry |-> truth[n]] : n \in {k \in Media : truth[k] # Missing}}
    /\ post.op = "entry" => read[post.of] = Unread
    /\ post.op = "save" => read[post.of] # Unread
    /\ post.op = "save" /\ body.nulled = "nothing" => body.done

CatalogInv == CatalogTypes /\ ReadHolds /\ BodyTrue /\ PullInventsNothing

\* A status goes through both vocabularies and comes back; an entry is never taken for
\* no entry.
LEMMA Vocabularies ==
    /\ \A s \in ListStatus : ToWire(s) \in Wire /\ FromWire(ToWire(s)) = s
    /\ \A w \in Wire : FromWire(w) \in ListStatus
    /\ \A e \in Entry : Mapped(e) \in Pair /\ Mapped(e) # Missing /\ Mapped(e) # Unread /\ e # Missing
    /\ Mapped(Missing) = Missing /\ Missing # Unread
    /\ \A p \in Pair : [p EXCEPT !.status = ToWire(@)] \in Entry /\ Mapped([p EXCEPT !.status = ToWire(@)]) = p
  <1>1. \A s \in ListStatus : ToWire(s) \in Wire /\ FromWire(ToWire(s)) = s
    BY DEF ListStatus, ToWire, FromWire, Wire
  <1>2. \A w \in Wire : FromWire(w) \in ListStatus
    BY DEF FromWire, ListStatus
  <1>3. ASSUME NEW e \in Entry
        PROVE  Mapped(e) \in Pair /\ Mapped(e) # Missing /\ Mapped(e) # Unread /\ e # Missing
    <2>1. e.status \in Wire /\ e.progress \in 0 .. MaxWatched /\ Missing.status = "none"
      BY DEF Entry, Missing
    <2>2. e # Missing
      BY <2>1 DEF Wire
    <2>3. Mapped(e) = [e EXCEPT !.status = FromWire(e.status)]
      BY <2>2 DEF Mapped
    <2>4. Mapped(e).status = FromWire(e.status) /\ Mapped(e) \in Pair
      BY <1>2, <2>1, <2>3 DEF Entry, Pair
    <2>5. Mapped(e).status # "none" /\ Mapped(e).status # "unread"
      BY <1>2, <2>1, <2>4 DEF ListStatus
    <2> QED
      BY <2>2, <2>4, <2>5 DEF Missing, Unread
  <1>4. Mapped(Missing) = Missing /\ Missing # Unread
    BY DEF Mapped, Missing, Unread
  <1>5. ASSUME NEW p \in Pair
        PROVE  [p EXCEPT !.status = ToWire(@)] \in Entry /\ Mapped([p EXCEPT !.status = ToWire(@)]) = p
    <2> DEFINE e == [p EXCEPT !.status = ToWire(p.status)]
    <2>1. p.status \in ListStatus /\ p.progress \in 0 .. MaxWatched /\ p = [status |-> p.status, progress |-> p.progress]
      BY DEF Pair
    <2>2. e = [status |-> ToWire(p.status), progress |-> p.progress] /\ e \in Entry
      BY <1>1, <2>1 DEF Entry
    <2>3. Mapped(e) = [status |-> FromWire(ToWire(p.status)), progress |-> p.progress]
      BY <1>3, <2>2 DEF Mapped
    <2> QED
      BY <1>1, <2>1, <2>2, <2>3
  <1> QED
    BY <1>1, <1>2, <1>3, <1>4, <1>5

\* What the calls are.
LEMMA PostedAre ==
    ASSUME NEW p \in Posted
    PROVE  /\ p.op \in Ops \cup {"none"} /\ (p = NoPost <=> p.op = "none")
           /\ p.op # "none" => p.of \in Media
           /\ p.op = "save" => p.pair \in Pair
  <1>1. CASE p = NoPost
    BY <1>1 DEF NoPost, Ops
  <1>2. CASE p \in [op : Ops \ {"save"}, of : Media]
    BY <1>2 DEF NoPost, Ops
  <1>3. CASE p \in [op : {"save"}, of : Media, pair : Pair]
    BY <1>3 DEF NoPost, Ops
  <1> QED
    BY <1>1, <1>2, <1>3 DEF Posted

\* The client starts with nothing read.
LEMMA CatalogInitGood ==
    ASSUME CatalogInit
    PROVE  CatalogInv
  <1>1. [status |-> "REPEATING", progress |-> 1] \in Entry /\ 0 \in 0 .. DeadlineAt
    BY CatalogAssumption DEF Entry, Wire
  <1>2. CatalogTypes
    BY <1>1 DEF CatalogInit, CatalogTypes, Posted, NoPost, NoBody, NoResult, Bodied
  <1> QED
    BY <1>2 DEF CatalogInit, CatalogInv, ReadHolds, BodyTrue, PullInventsNothing, NoPost, NoResult, Bodied, NoBody

\* Another client moves an entry.
LEMMA ForeignGood ==
    ASSUME CatalogInv, NEW m \in Media, NEW e \in Foreigns, ForeignEdit(m, e)
    PROVE  CatalogInv' /\ foreign' # foreign
  <1> USE DEF CatalogInv, ForeignEdit
  <1>1. /\ e \in Entry \cup {Missing} /\ foreign \in Nat
        /\ \A n \in Media \ {m} : account'[n] = account[n]
    BY CatalogAssumption DEF CatalogTypes
  <1>8. account' \in [Media -> Entry \cup {Missing}]
    BY <1>1 DEF CatalogTypes
  <1>2. CatalogTypes'
    <2>1. foreign' \in Nat
      BY <1>1
    <2>2. Bodied' = Bodied
      BY DEF Bodied
    <2> QED
      BY <1>8, <2>1, <2>2 DEF CatalogTypes
  <1>3. ReadHolds'
    <2>1. Bodied' = Bodied
      BY DEF Bodied
    <2>2. \A n \in Media : n \notin moved' => n \notin moved /\ account'[n] = account[n]
      BY <1>1
    <2> QED
      BY <2>1, <2>2 DEF ReadHolds
  <1>4. \A n \in Media : n \notin moved' => account'[n] = account[n]
    BY <1>1
  <1>5. post.op = "entry" => post.of \in Media
    BY PostedAre DEF CatalogTypes
  <1>9. moved \subseteq moved'
    OBVIOUS
  <1>6. BodyTrue'
    <2>1. Bodied' = Bodied
      BY DEF Bodied
    <2>2. post.op = "entry" /\ Bodied /\ post.of \notin moved' => body.value = {account'[post.of]} \ {Missing}
      BY <1>4, <1>5, <1>9 DEF BodyTrue
    <2> QED
      BY <2>1, <2>2 DEF BodyTrue
  <1>7. PullInventsNothing'
    BY DEF PullInventsNothing
  <1> QED
    BY <1>1, <1>2, <1>3, <1>6, <1>7

\* A request goes out.
LEMMA PostGood ==
    ASSUME CatalogInv, NEW m \in Media, NEW p, Posts(p), p \in Posted, p # NoPost,
           \A n \in Media : read'[n] = read[n] \/ read'[n] = Unread,
           read' \in [Media -> Pair \cup {Missing, Unread}],
           p.op = "save" => read'[p.of] # Unread,
           p.op = "entry" => read'[p.of] = Unread
    PROVE  CatalogInv' /\ UNCHANGED account /\ post = NoPost /\ post' # NoPost
  <1> USE DEF CatalogInv, Posts
  <1>0. 0 \in 0 .. DeadlineAt
    BY CatalogAssumption
  <1>6. body'.nulled = "no body"
    BY DEF NoBody
  <1>7. post.op = "none"
    BY DEF NoPost
  <1>1. ~Bodied' /\ body'.nulled = "no body" /\ 0 \in 0 .. DeadlineAt /\ post.op = "none"
    BY <1>0, <1>6, <1>7 DEF Bodied
  <1>2. CatalogTypes'
    BY <1>1 DEF CatalogTypes
  <1>3. ReadHolds'
    BY <1>1 DEF ReadHolds
  <1>4. BodyTrue'
    BY <1>1 DEF BodyTrue
  <1>5. PullInventsNothing'
    BY DEF PullInventsNothing, NoResult
  <1> QED
    BY <1>2, <1>3, <1>4, <1>5

\* A question goes out.
LEMMA AskedGood ==
    ASSUME CatalogInv, NEW m \in Media, NEW op \in Ops, Asked(op, m)
    PROVE  CatalogInv' /\ UNCHANGED account /\ post = NoPost /\ post' # NoPost
  <1> DEFINE p == [op |-> op, of |-> m]
  <1>1. p \in Posted /\ p # NoPost /\ p.op # "save" /\ Posts(p)
    BY DEF Asked, Posted, NoPost, Ops
  <1>2. /\ \A n \in Media : read'[n] = read[n] \/ read'[n] = Unread
        /\ read' \in [Media -> Pair \cup {Missing, Unread}]
        /\ p.op = "entry" => read'[p.of] = Unread
    BY DEF Asked, CatalogInv, CatalogTypes
  <1> HIDE DEF p
  <1> QED
    BY <1>1, <1>2, PostGood

\* A save goes out.
LEMMA PushesGood ==
    ASSUME CatalogInv, NEW m \in Media, NEW pair \in Pair, Pushes(m, pair)
    PROVE  CatalogInv' /\ UNCHANGED account /\ post = NoPost /\ post' # NoPost
  <1> DEFINE p == [op |-> "save", of |-> m, pair |-> pair]
  <1>1. p \in Posted /\ p # NoPost /\ p.op = "save" /\ p.of = m /\ Posts(p)
    BY DEF Pushes, Posted, NoPost, Ops
  <1>2. /\ \A n \in Media : read'[n] = read[n] \/ read'[n] = Unread
        /\ read' \in [Media -> Pair \cup {Missing, Unread}]
        /\ read'[m] # Unread
    BY DEF Pushes, CatalogInv, CatalogTypes
  <1> HIDE DEF p
  <1> QED
    BY <1>1, <1>2, PostGood

\* The server works on the request.
LEMMA ServesGood ==
    ASSUME CatalogInv, NEW nulled \in Depths, Serves(nulled)
    PROVE  CatalogInv' /\ UNCHANGED account /\ post' # NoPost
  <1> USE DEF CatalogInv, Serves, Processed
  <1>1. /\ post.op \in Ops \ {"save"} /\ post.of \in Media /\ post # NoPost /\ Bodied' /\ result = NoResult
        /\ nulled # "no body" /\ body'.nulled = nulled /\ body'.errors = (nulled # "nothing")
        /\ body'.value = Say(post.op, post.of)
    BY PostedAre DEF CatalogTypes, Bodied, Depths
  <1>2. CatalogTypes'
    BY <1>1 DEF CatalogTypes
  <1>3. moved' \subseteq moved /\ \A n \in Media : n \notin moved' => n \notin moved \/ (post.op = "entry" /\ n = post.of)
    OBVIOUS
  <1>4. ReadHolds'
    <2>1. post.op = "entry" => read[post.of] = Unread
      BY <1>1 DEF BodyTrue
    <2> QED
      BY <1>1, <1>3, <2>1 DEF ReadHolds
  <1>5. BodyTrue'
    <2>1. post.op = "entry" => body'.value = {account[post.of]} \ {Missing}
      BY <1>1 DEF Say
    <2>2. post.op = "list" => body'.value = {[media |-> n, entry |-> account[n]] : n \in {k \in Media : account[k] # Missing}}
      BY <1>1 DEF Say
    <2>3. account[post.of] \in Entry \cup {Missing}
      BY <1>1 DEF CatalogTypes
    <2> QED
      BY <1>1, <2>1, <2>2, <2>3 DEF BodyTrue
  <1>6. PullInventsNothing'
    BY <1>1 DEF PullInventsNothing, NoResult
  <1> QED
    BY <1>2, <1>4, <1>5, <1>6

\* The server writes an entry, or fails before it did.
LEMMA WritesGood ==
    ASSUME CatalogInv, NEW nulled \in Depths, Writes(nulled)
    PROVE  /\ CatalogInv' /\ post' # NoPost
           /\ \A m \in Media : account'[m] # account[m] /\ m \notin moved => Mapped(account[m]) = read[m]
           /\ account' # account => Mapped(account'[post.of]) = post.pair
  <1> USE DEF CatalogInv
  <1>1. /\ post.op = "save" /\ post.of \in Media /\ post.pair \in Pair /\ post # NoPost /\ ~Bodied
        /\ result = NoResult /\ UNCHANGED <<post, read, moved, foreign, spentTime, result>> /\ truth' = account
        /\ nulled # "no body" /\ body'.nulled = nulled
    <2>1. post.op = "save" /\ post # NoPost /\ ~Bodied /\ post \in Posted /\ (result = NoResult \/ post = NoPost)
      BY DEF Writes, Processed, CatalogTypes
    <2>2. post.of \in Media /\ post.pair \in Pair
      BY <2>1, PostedAre
    <2>3. nulled # "no body"
      BY DEF Depths
    <2>4. \E done \in BOOLEAN : Processed(nulled, done)
      BY DEF Writes
    <2>5. /\ UNCHANGED <<post, read, foreign, spentTime, result>> /\ truth' = account
          /\ body'.nulled = nulled /\ UNCHANGED moved
      BY <2>1, <2>4 DEF Processed
    <2> QED
      BY <2>1, <2>2, <2>3, <2>5
  <1>2. Bodied' /\ body'.nulled \in Depths \cup {"no body"}
    BY <1>1 DEF Bodied
  <1>3. CASE UNCHANGED account /\ nulled # "nothing"
    <2>1. CatalogTypes'
      BY <1>1, <1>2, <1>3 DEF CatalogTypes
    <2>2. ReadHolds'
      BY <1>1, <1>2, <1>3 DEF ReadHolds
    <2>3. BodyTrue'
      BY <1>1, <1>2, <1>3 DEF BodyTrue
    <2>4. PullInventsNothing'
      BY <1>1 DEF PullInventsNothing, NoResult
    <2> QED
      BY <1>1, <1>3, <2>1, <2>2, <2>3, <2>4
  <1>4. CASE /\ Processed(nulled, TRUE)
             /\ account' = [account EXCEPT ![post.of] = [post.pair EXCEPT !.status = ToWire(@)]]
    <2> DEFINE e == [post.pair EXCEPT !.status = ToWire(@)]
    <2>1. e \in Entry /\ Mapped(e) = post.pair
      BY <1>1, Vocabularies
    <2>2. /\ account' = [account EXCEPT ![post.of] = e] /\ account \in [Media -> Entry \cup {Missing}]
          /\ body'.done = TRUE
      BY <1>4 DEF CatalogTypes, Processed
    <2> HIDE DEF e
    <2>3. account'[post.of] = e /\ \A m \in Media : m # post.of => account'[m] = account[m]
      BY <1>1, <2>2
    <2>4. account' \in [Media -> Entry \cup {Missing}]
      BY <2>1, <2>2
    <2>5. CatalogTypes'
      BY <1>1, <1>2, <2>4 DEF CatalogTypes
    <2>6. ReadHolds'
      BY <1>1, <1>2, <2>3 DEF ReadHolds
    <2>7. BodyTrue'
      BY <1>1, <1>2, <2>2 DEF BodyTrue
    <2>8. PullInventsNothing'
      BY <1>1 DEF PullInventsNothing, NoResult
    <2>9. \A m \in Media : account'[m] # account[m] /\ m \notin moved => Mapped(account[m]) = read[m]
      BY <1>1, <2>3 DEF ReadHolds, BodyTrue
    <2> QED
      BY <1>1, <2>1, <2>3, <2>5, <2>6, <2>7, <2>8, <2>9
  <1> QED
    BY <1>3, <1>4 DEF Writes

-----------------------------------------------------------------------------
(***************************************************************************)
(* What a classifier may make of the body under way.                       *)
(***************************************************************************)
Sound(got) ==
    /\ post.op = "entry" /\ got.kind = "absent" =>
           body.value = {} /\ ~body.errors /\ Bodied
    /\ post.op = "entry" /\ got.kind # "absent" /\ got.kind # "err" =>
           \E e \in body.value : got.value = Mapped(e) /\ Bodied
    /\ post.op = "save" /\ got.kind = "ok" => body.done
    /\ post.op = "list" /\ got.kind = "ok" =>
           \A r \in got.value : Mapped(truth[r.media]) = r.entry /\ r.entry # Missing

\* The call ends, with what a classifier made of it.
LEMMA ConcludesGood ==
    ASSUME CatalogInv, NEW got, Concludes(got), post # NoPost, Sound(got)
    PROVE  /\ CatalogInv' /\ UNCHANGED account
           /\ (post.op = "save" /\ post' = NoPost /\ result'.got.kind = "ok") => body.done
  <1> USE DEF CatalogInv
  <1>1. /\ post.op \in Ops /\ post.of \in Media /\ result' = [op |-> post.op, of |-> post.of, got |-> got]
        /\ post' = NoPost /\ body' = NoBody /\ spentTime' = 0
        /\ UNCHANGED <<account, foreign, tokenOk, truth, moved, posts>>
    BY PostedAre DEF CatalogTypes, Concludes
  <1>2. 0 \in 0 .. DeadlineAt
    BY CatalogAssumption
  <1>3. body'.nulled = "no body" /\ ~Bodied'
    BY <1>1 DEF NoBody, Bodied
  <1>4. post'.op = "none"
    BY <1>1 DEF NoPost
  <1>5. post.op = "entry" /\ got.kind # "err" /\ got.kind # "absent" =>
            /\ got.value \in Pair
            /\ post.of \notin moved => got.value = Mapped(account[post.of])
    <2>1. SUFFICES ASSUME post.op = "entry", got.kind # "err", got.kind # "absent"
                   PROVE  got.value \in Pair /\ (post.of \notin moved => got.value = Mapped(account[post.of]))
      OBVIOUS
    <2>2. PICK e \in body.value : got.value = Mapped(e) /\ Bodied
      BY <2>1 DEF Sound
    <2>3. e \in Entry /\ (post.of \notin moved => e = account[post.of])
      BY <2>1, <2>2 DEF BodyTrue
    <2> QED
      BY <2>2, <2>3, Vocabularies
  <1>6. post.op = "entry" /\ got.kind = "absent" /\ post.of \notin moved => Mapped(account[post.of]) = Missing
    <2>1. SUFFICES ASSUME post.op = "entry", got.kind = "absent", post.of \notin moved
                   PROVE  account[post.of] = Missing
      BY Vocabularies
    <2> QED
      BY <2>1 DEF Sound, BodyTrue
  <1> DEFINE now == IF got.kind = "absent" THEN Missing ELSE got.value
  <1>7. \/ /\ post.op = "entry" /\ got.kind # "err" /\ read' = [read EXCEPT ![post.of] = now]
        \/ /\ post.op = "entry" /\ got.kind = "err" /\ read' = read
        \/ /\ post.op = "save" /\ read' = [read EXCEPT ![post.of] = Unread]
        \/ /\ post.op # "entry" /\ post.op # "save" /\ read' = read
    BY DEF Concludes
  <1>8. post.op = "entry" /\ got.kind # "err" =>
            now \in Pair \cup {Missing, Unread} /\ (post.of \notin moved => Mapped(account[post.of]) = now)
    BY <1>5, <1>6
  <1> HIDE DEF now
  <1>9. read \in [Media -> Pair \cup {Missing, Unread}]
    BY DEF CatalogTypes
  <1>10. read' \in [Media -> Pair \cup {Missing, Unread}]
    BY <1>1, <1>7, <1>8, <1>9
  <1>11. CatalogTypes'
    <2>1. result'.op \in Ops /\ post' \in Posted
      BY <1>1 DEF Posted
    <2> QED
      BY <1>1, <1>2, <1>3, <1>10, <2>1 DEF CatalogTypes
  <1>12. \A m \in Media : m # post.of \/ (post.op # "entry" /\ post.op # "save") => read'[m] = read[m]
    BY <1>1, <1>7, <1>9
  <1>13. post.op = "save" => read'[post.of] = Unread
    BY <1>1, <1>7, <1>9
  <1>14. post.op = "entry" => read'[post.of] = read[post.of] \/ (got.kind # "err" /\ read'[post.of] = now)
    BY <1>1, <1>7, <1>9
  <1>15. ReadHolds'
    <2> SUFFICES ASSUME NEW m \in Media, read'[m] # Unread, m \notin moved
                 PROVE  Mapped(account[m]) = read'[m]
      BY <1>1 DEF ReadHolds
    <2>1. CASE m # post.of \/ (post.op # "entry" /\ post.op # "save")
      BY <1>12, <2>1 DEF ReadHolds
    <2>2. CASE m = post.of /\ post.op = "save"
      BY <1>13, <2>2
    <2>3. CASE m = post.of /\ post.op = "entry"
      BY <1>8, <1>14, <2>3 DEF ReadHolds
    <2> QED
      BY <2>1, <2>2, <2>3
  <1>16. BodyTrue'
    BY <1>3, <1>4 DEF BodyTrue
  <1>17. PullInventsNothing'
    BY <1>1 DEF PullInventsNothing, Sound
  <1> QED
    BY <1>1, <1>11, <1>15, <1>16, <1>17 DEF Sound

\* A failure claims nothing.
LEMMA FailureSound ==
    Sound(Err)
  <1>1. Err.kind = "err"
    BY DEF Err
  <1> QED
    BY <1>1 DEF Sound

\* Whatever the body, what its classifier makes of it is sound.
LEMMA ReadingsSound ==
    ASSUME CatalogInv, Bodied, NEW got \in Readings
    PROVE  Sound(got)
  <1>1. post # NoPost /\ post.op \in Ops
    BY PostedAre DEF CatalogInv, CatalogTypes
  <1>2. Err.kind = "err" /\ Absent.kind = "absent" /\ \A v : Got(v).kind = "ok" /\ Got(v).value = v
    BY DEF Err, Absent, Got
  <1>3. CASE post.op = "entry"
    <2>1. got = EntryRead
      BY <1>3 DEF Readings
    <2>2. CASE got = Err
      BY <1>2, <1>3, <2>2 DEF Sound
    <2>3. CASE got = Absent /\ ~body.errors /\ body.value = {}
      BY <1>2, <1>3, <2>3 DEF Sound
    <2>4. CASE body.value # {} /\ got = Got(Mapped(CHOOSE e \in body.value : TRUE))
      <3>1. PICK e : e \in body.value /\ got = Got(Mapped(e))
        BY <2>4
      <3>2. got.kind = "ok" /\ got.value = Mapped(e)
        BY <1>2, <3>1
      <3> QED
        BY <1>3, <3>1, <3>2 DEF Sound
    <2> QED
      BY <2>1, <2>2, <2>3, <2>4 DEF EntryRead
  <1>4. CASE post.op = "save"
    <2>1. got = SaveRead
      BY <1>4 DEF Readings
    <2>2. got.kind = "ok" => body.nulled = "nothing"
      <3>1. body.nulled \in Depths
        BY DEF CatalogInv, CatalogTypes, Bodied
      <3> QED
        BY <1>2, <2>1, <3>1 DEF SaveRead, Nulled, Depths
    <2> QED
      BY <1>4, <2>2 DEF Sound, CatalogInv, BodyTrue
  <1>5. CASE post.op = "list"
    <2>1. got \in ListRead
      BY <1>5 DEF Readings
    <2> DEFINE row(r) == [r EXCEPT !.entry = Mapped(@)]
    <2>2. \A r \in body.value : Mapped(truth[row(r).media]) = row(r).entry /\ row(r).entry # Missing
      <3> SUFFICES ASSUME NEW r \in body.value
                   PROVE  Mapped(truth[row(r).media]) = row(r).entry /\ row(r).entry # Missing
        OBVIOUS
      <3>1. PICK n \in Media : truth[n] # Missing /\ r = [media |-> n, entry |-> truth[n]]
        BY <1>5 DEF CatalogInv, BodyTrue
      <3>2. row(r) = [media |-> n, entry |-> Mapped(truth[n])]
        BY <3>1
      <3>3. truth[n] \in Entry
        BY <3>1 DEF CatalogInv, CatalogTypes
      <3> QED
        BY <3>2, <3>3, Vocabularies
    <2>3. CASE got = Err
      BY <1>2, <1>5, <2>3 DEF Sound
    <2>4. CASE got = Got({})
      BY <1>2, <1>5, <2>4 DEF Sound
    <2>5. ASSUME NEW rest \in SUBSET body.value, got = Got({row(r) : r \in rest})
          PROVE  Sound(got)
      <3>1. got.kind = "ok" /\ got.value = {row(r) : r \in rest}
        BY <1>2, <2>5
      <3>2. \A x \in got.value : Mapped(truth[x.media]) = x.entry /\ x.entry # Missing
        BY <2>2, <3>1
      <3> QED
        BY <1>5, <3>1, <3>2 DEF Sound
    <2>6. \/ got = Err \/ got = Got({})
          \/ \E rest \in SUBSET body.value : got = Got({row(r) : r \in rest})
      BY <2>1 DEF ListRead
    <2> QED
      BY <2>3, <2>4, <2>5, <2>6
  <1> QED
    BY <1>1, <1>3, <1>4, <1>5 DEF Sound, Ops

\* The clock of the call runs.
LEMMA TicksGood ==
    ASSUME CatalogInv, Ticks
    PROVE  CatalogInv' /\ UNCHANGED <<account, post>>
  <1>1. /\ spentTime \in 0 .. DeadlineAt /\ spentTime < DeadlineAt /\ spentTime' = spentTime + 1
        /\ UNCHANGED <<account, foreign, post, body, result, truth, read, moved>>
    BY DEF CatalogInv, CatalogTypes, Ticks
  <1>2. spentTime' \in 0 .. DeadlineAt
    <2>1. DeadlineAt \in Nat
      BY CatalogAssumption
    <2> QED
      BY ONLY <1>1, <2>1
  <1>3. CatalogTypes'
    BY <1>1, <1>2 DEF CatalogInv, CatalogTypes, Bodied
  <1>4. ReadHolds' /\ BodyTrue' /\ PullInventsNothing'
    BY <1>1 DEF CatalogInv, ReadHolds, BodyTrue, PullInventsNothing, Bodied
  <1> QED
    BY <1>1, <1>3, <1>4 DEF CatalogInv

CatalogActions ==
    /\ \A m \in Media :
          (account'[m] # account[m] /\ foreign' = foreign /\ m \notin moved) => Mapped(account[m]) = read[m]
    /\ (post.op = "save" /\ post' = NoPost /\ result'.got.kind = "ok") => body.done
    /\ (post.op = "save" /\ account' # account /\ foreign' = foreign) => Mapped(account'[post.of]) = post.pair

\* Every step keeps the invariant and does what a step may do.
LEMMA CatalogNextGood ==
    ASSUME CatalogInv, [CatalogNext]_catalogVars
    PROVE  CatalogInv' /\ CatalogActions
  <1>0. CatalogInv => post.op = "none" <=> post = NoPost
    BY PostedAre DEF CatalogInv, CatalogTypes
  <1>1. CASE UNCHANGED catalogVars
    <2>1. UNCHANGED <<account, foreign, post, body, spentTime, result, truth, read, moved>>
      BY <1>1 DEF catalogVars
    <2>2. CatalogTypes'
      BY <2>1 DEF CatalogInv, CatalogTypes, Bodied
    <2>3. ReadHolds' /\ BodyTrue' /\ PullInventsNothing'
      BY <2>1 DEF CatalogInv, ReadHolds, BodyTrue, PullInventsNothing, Bodied
    <2> QED
      BY <1>0, <2>1, <2>2, <2>3 DEF CatalogInv, CatalogActions
  <1>2. ASSUME NEW m \in Media, NEW e \in Foreigns, ForeignEdit(m, e)
        PROVE  CatalogInv' /\ CatalogActions
    <2>1. post' = post
      BY <1>2 DEF ForeignEdit
    <2> QED
      BY <1>0, <1>2, <2>1, ForeignGood DEF CatalogActions, NoPost
  <1>3. ASSUME NEW m \in Media, NEW op \in Ops, Asked(op, m)
        PROVE  CatalogInv' /\ CatalogActions
    BY <1>0, <1>3, AskedGood DEF CatalogActions
  <1>4. ASSUME NEW m \in Media, NEW pair \in Pair, Pushes(m, pair)
        PROVE  CatalogInv' /\ CatalogActions
    BY <1>0, <1>4, PushesGood DEF CatalogActions
  <1>5. ASSUME NEW nulled \in Depths, Serves(nulled)
        PROVE  CatalogInv' /\ CatalogActions
    BY <1>5, ServesGood DEF CatalogActions
  <1>6. ASSUME NEW nulled \in Depths, Writes(nulled)
        PROVE  CatalogInv' /\ CatalogActions
    BY <1>6, WritesGood DEF CatalogActions
  <1>7. CASE SendFails \/ Expired
    BY <1>7, ConcludesGood, FailureSound DEF CatalogActions, SendFails, Expired, Late
  <1>8. CASE Ticks
    BY <1>8, TicksGood DEF CatalogActions, Ticks
  <1>9. CASE Classified
    <2>1. PICK got \in Readings : Concludes(got)
      BY <1>9 DEF Classified
    <2>2. Bodied /\ post # NoPost
      BY <1>9 DEF Classified, CatalogInv, CatalogTypes
    <2> QED
      BY <2>1, <2>2, ReadingsSound, ConcludesGood DEF CatalogActions
  <1> QED
    BY <1>1, <1>2, <1>3, <1>4, <1>5, <1>6, <1>7, <1>8, <1>9 DEF CatalogNext

\* A push overwrites only the entry its guard was shown, a save that is reported was
\* done, a pair pushed reads back, and a pull invents nothing (anilist.rs, sync.rs).
THEOREM CatalogIsHonest == CatalogSpec => CatalogHonest
  <1>1. CatalogInit => CatalogInv
    BY CatalogInitGood
  <1>2. CatalogInv /\ [CatalogNext]_catalogVars => CatalogInv'
    BY CatalogNextGood
  <1>3. CatalogInv => PullInventsNothing
    BY DEF CatalogInv
  <1>4. CatalogInv /\ [CatalogNext]_catalogVars =>
          [\A m \in Media :
             (account'[m] # account[m] /\ foreign' = foreign /\ m \notin moved)
                 => Mapped(account[m]) = read[m]]_catalogVars
    BY CatalogNextGood DEF CatalogActions
  <1>5. CatalogInv /\ [CatalogNext]_catalogVars =>
          [(post.op = "save" /\ post' = NoPost /\ result'.got.kind = "ok") => body.done]_catalogVars
    BY CatalogNextGood DEF CatalogActions
  <1>6. CatalogInv /\ [CatalogNext]_catalogVars =>
          [(post.op = "save" /\ account' # account /\ foreign' = foreign)
              => Mapped(account'[post.of]) = post.pair]_catalogVars
    BY CatalogNextGood DEF CatalogActions
  <1> QED
    BY <1>1, <1>2, <1>3, <1>4, <1>5, <1>6, PTL
       DEF CatalogSpec, CatalogHonest, NothingUnreadOverwritten, SavedIsSaved, PushedReadsBack

-----------------------------------------------------------------------------
(***************************************************************************)
(* The update check, the update command and its script.                    *)
(***************************************************************************)
Checkers == {"boot", "cli"}

Check == [step : {"idle", "read", "fetch", "open", "fill", "rename"}, at : Nat,
          tag : Tag, fd : {"none", "temp", "memo", "lost"}]

Command(tags) ==
    [step : {"idle", "asking", "deciding", "installing"}, tag : tags,
     said : {"nothing", "current", "package", "refused", "unconfirmed", "cannot run", "updated", "failed", "timed out"}]

Script == [step : {"none", "download", "staged", "placed", "failed"}, tag : Tag]

UpdateTypes ==
    /\ {running, news, cli.tag, script.tag, binary, memo.tag, temp.tag} \subseteq Tag
    /\ memo.state \in {"none", "empty", "whole"} /\ temp.state \in {"none", "empty", "whole"}
    /\ latest \in 1 .. Len(Releases) /\ tick \in 0 .. LastTick
    /\ writer \in [Checkers -> Check]
    /\ cli \in Command(Tag) /\ script \in Script

\* A handle is open exactly while its writer fills the file.
Handles == \A w \in Checkers : writer[w].step = "fill" <=> writer[w].fd # "none"

\* A tag is decided on only if it is newer than the binary; the installer runs under
\* its command, with its tag, and has replaced the binary only where it says so.
Commanded ==
    /\ cli.step = "deciding" /\ cli.tag # NoTag => Newer(cli.tag, binary)
    /\ cli.step = "installing" <=> script.step # "none"
    /\ script.step # "none" => script.tag = cli.tag
    /\ script.step \in {"download", "staged", "failed"} => Newer(script.tag, binary)
    /\ script.step = "placed" => script.tag # NoTag /\ binary = script.tag

\* The command asks exactly while its writer is under way, and knows no tag before.
Asking ==
    /\ writer["cli"].step # "idle" <=> cli.step = "asking"
    /\ cli.step = "asking" => cli.tag = NoTag

UpdateInv == UpdateTypes /\ Handles /\ Asking /\ Commanded /\ NewsNewer

LEMMA NewerIsOther ==
    ASSUME NEW l \in Tag, NEW c \in Tag, Newer(l, c)
    PROVE  l # c /\ l # NoTag
  BY DEF Newer, Tag, NoTag, Garbage

LEMMA UpdateInitGood ==
    ASSUME UpdateInit
    PROVE  UpdateInv
  <1>1. Len(Releases) \in Nat \ {0} /\ \A i \in 1 .. Len(Releases) : Releases[i] \in Tag
    BY UpdateAssumption, EmptySeq, LenProperties, ElementOfSeq
  <1>2. 1 \in 1 .. Len(Releases) /\ Len(Releases) \in 1 .. Len(Releases) /\ 1 \in 0 .. LastTick
    BY <1>1, UpdateAssumption
  <1>3. NoTag \in Tag /\ Releases[1] \in Tag /\ [Releases[Len(Releases)] EXCEPT !.pre = TRUE] \in Tag
    <2>1. Releases[1] \in Tag /\ Releases[Len(Releases)] \in Tag
      BY <1>1, <1>2
    <2> QED
      BY <2>1 DEF Tag, NoTag
  <1>4. UpdateTypes
    BY <1>2, <1>3 DEF UpdateInit, UpdateTypes, NoFile, NoCheck, Checkers, Check, Command, Script
  <1> QED
    BY <1>4 DEF UpdateInit, UpdateInv, Handles, Asking, Commanded, NewsNewer, NoCheck, Checkers
\* A step that gives one writer another check, or all of them another handle, and
\* leaves the command and the installer alone.
LEMMA WriterMoves ==
    ASSUME UpdateInv, writer' \in [Checkers -> Check],
           \A w \in Checkers : writer'[w].step = "fill" <=> writer'[w].fd # "none",
           writer'["cli"].step # "idle" <=> writer["cli"].step # "idle",
           {memo'.tag, temp'.tag, news', running'} \subseteq Tag,
           memo'.state \in {"none", "empty", "whole"}, temp'.state \in {"none", "empty", "whole"},
           latest' \in 1 .. Len(Releases), tick' \in 0 .. LastTick,
           news' # NoTag => Newer(news', running'),
           UNCHANGED <<cli, script, binary>>
    PROVE  UpdateInv'
  BY DEF UpdateInv, UpdateTypes, Handles, Asking, Commanded, NewsNewer, Newer

LEMMA TypesAre ==
    ASSUME UpdateInv
    PROVE  /\ writer \in [Checkers -> Check] /\ NoTag \in Tag /\ NoCheck \in Check
           /\ \A w \in Checkers : writer[w] \in Check /\ (writer[w].step = "fill" <=> writer[w].fd # "none")
           /\ {memo.tag, temp.tag, news, running, binary, cli.tag, script.tag} \subseteq Tag
           /\ memo.state \in {"none", "empty", "whole"} /\ temp.state \in {"none", "empty", "whole"}
           /\ latest \in 1 .. Len(Releases) /\ tick \in 0 .. LastTick /\ tick \in Nat /\ Latest \in Tag
           /\ NewsNewer
  <1>1. \A i \in 1 .. Len(Releases) : Releases[i] \in Tag
    BY UpdateAssumption, LenProperties, ElementOfSeq
  <1>2. latest \in 1 .. Len(Releases) /\ tick \in 0 .. LastTick
    BY DEF UpdateInv, UpdateTypes
  <1>3. Latest \in Tag /\ tick \in Nat
    BY <1>1, <1>2, UpdateAssumption DEF Latest
  <1>4. NoTag \in Tag /\ NoCheck \in Check
    BY DEF NoTag, Tag, NoCheck, Check
  <1>5. writer \in [Checkers -> Check]
    BY DEF UpdateInv, UpdateTypes, Check
  <1>6. \A w \in Checkers : writer[w] \in Check /\ (writer[w].step = "fill" <=> writer[w].fd # "none")
    BY <1>5 DEF UpdateInv, Handles
  <1> QED
    BY <1>2, <1>3, <1>4, <1>5, <1>6 DEF UpdateInv, UpdateTypes

\* The boot check and the cache file.
LEMMA BootGood ==
    ASSUME UpdateInv,
           Released \/ ClockSet \/ Boots \/ ReadsMemo \/ Abandoned
    PROVE  UpdateInv' /\ UNCHANGED <<binary, cli>>
  <1> USE DEF Checkers
  <1>1. /\ Released \/ ClockSet \/ ReadsMemo \/ Abandoned => UNCHANGED <<cli, script, binary, running>>
        /\ Boots => UNCHANGED <<cli, script, binary, latest, tick>> /\ running' = binary /\ news' = NoTag
    BY DEF Released, ClockSet, Boots, ReadsMemo, Abandoned, cliVars
  <1>2. CASE Released
    BY <1>1, <1>2, TypesAre, WriterMoves DEF Released, fileVars, NewsNewer
  <1>3. CASE ClockSet
    BY <1>1, <1>3, TypesAre, WriterMoves DEF ClockSet, fileVars, NewsNewer
  <1>4. ASSUME NEW c \in Check, c.step = "fill" <=> c.fd # "none",
               writer' = [writer EXCEPT !["boot"] = c]
        PROVE  /\ writer' \in [Checkers -> Check]
               /\ \A w \in Checkers : writer'[w].step = "fill" <=> writer'[w].fd # "none"
               /\ writer'["cli"] = writer["cli"]
    BY <1>4, TypesAre
  <1>5. ASSUME NEW s \in {"read", "fetch"}, writer["boot"].step \in {"idle", "read"}, Goes("boot", s)
        PROVE  \E c \in Check : (c.step = "fill" <=> c.fd # "none") /\ writer' = [writer EXCEPT !["boot"] = c]
    <2> DEFINE c == [writer["boot"] EXCEPT !.step = s]
    <2>1. c \in Check /\ c.step = s /\ c.fd = writer["boot"].fd
      BY <1>5, TypesAre DEF Check
    <2>2. writer["boot"].fd = "none"
      BY <1>5, TypesAre
    <2>3. writer' = [writer EXCEPT !["boot"] = c]
      BY <1>5 DEF Goes
    <2> QED
      BY <2>1, <2>2, <2>3, <1>5
  <1>6. CASE Boots
    <2>1. /\ writer' \in [Checkers -> Check]
          /\ \A w \in Checkers : writer'[w].step = "fill" <=> writer'[w].fd # "none"
          /\ writer'["cli"] = writer["cli"]
      BY <1>4, <1>5, <1>6 DEF Boots
    <2> QED
      BY <1>1, <1>6, <2>1, TypesAre, WriterMoves DEF Boots, fileVars, NewsNewer
  <1>7. CASE ReadsMemo
    <2>1. /\ writer' \in [Checkers -> Check]
          /\ \A w \in Checkers : writer'[w].step = "fill" <=> writer'[w].fd # "none"
          /\ writer'["cli"] = writer["cli"]
      <3>1. writer' = [writer EXCEPT !["boot"] = NoCheck] \/ (writer["boot"].step = "read" /\ Goes("boot", "fetch"))
        BY <1>7 DEF ReadsMemo
      <3>2. NoCheck.step = "idle" /\ NoCheck.fd = "none" /\ NoCheck \in Check
        BY TypesAre DEF NoCheck
      <3> QED
        BY <1>4, <1>5, <3>1, <3>2
    <2>2. news' \in {news, memo.tag} /\ (news' # news => Newer(news', running))
      BY <1>7 DEF ReadsMemo
    <2> QED
      BY <1>1, <1>7, <2>1, <2>2, TypesAre, WriterMoves DEF ReadsMemo, fileVars, NewsNewer
  <1>8. CASE Abandoned
    <2>2. NoCheck.step = "idle" /\ NoCheck.fd = "none" /\ NoCheck \in Check
      BY TypesAre DEF NoCheck
    <2>1. /\ writer' \in [Checkers -> Check]
          /\ \A w \in Checkers : writer'[w].step = "fill" <=> writer'[w].fd # "none"
          /\ writer'["cli"] = writer["cli"]
      BY <1>4, <1>8, <2>2 DEF Abandoned
    <2> QED
      BY <1>1, <1>8, <2>1, TypesAre, WriterMoves DEF Abandoned, fileVars, NewsNewer
  <1> QED
    BY <1>1, <1>2, <1>3, <1>6, <1>7, <1>8

\* A writer's fetch that lands, and its way to the file.
LEMMA FetchedGood ==
    ASSUME UpdateInv, NEW w \in Checkers, Fetched(w) \/ Opened(w) \/ Filled(w)
    PROVE  UpdateInv' /\ UNCHANGED <<binary, cli>>
  <1>1. ASSUME NEW c \in Check, c.step = "fill" <=> c.fd # "none", c.step # "idle", writer[w].step # "idle",
               writer' = [writer EXCEPT ![w] = c]
        PROVE  /\ writer' \in [Checkers -> Check]
               /\ \A v \in Checkers : writer'[v].step = "fill" <=> writer'[v].fd # "none"
               /\ writer'["cli"].step # "idle" <=> writer["cli"].step # "idle"
    <2>1. \A v \in Checkers : writer'[v] = IF v = w THEN c ELSE writer[v]
      BY <1>1, TypesAre
    <2> QED
      BY <1>1, <2>1, TypesAre DEF Checkers
  <1>2. CASE Fetched(w)
    <2> DEFINE c == [step |-> "open", at |-> tick, tag |-> Latest, fd |-> "none"]
    <2>1. c \in Check
      BY TypesAre DEF Check
    <2>2. /\ writer' \in [Checkers -> Check]
          /\ \A v \in Checkers : writer'[v].step = "fill" <=> writer'[v].fd # "none"
          /\ writer'["cli"].step # "idle" <=> writer["cli"].step # "idle"
      BY <1>1, <1>2, <2>1 DEF Fetched
    <2> QED
      BY <1>2, <2>2, TypesAre, WriterMoves DEF Fetched, fileVars, cliVars, NewsNewer
  <1>3. CASE Opened(w)
    <2> DEFINE c == [writer[w] EXCEPT !.step = "fill", !.fd = "temp"]
    <2>1. c \in Check /\ c.step = "fill" /\ c.fd = "temp"
      BY TypesAre DEF Check
    <2>2. writer' = [writer EXCEPT ![w] = c] /\ writer[w].step = "open"
      BY <1>3, TypesAre DEF Opened, Check
    <2>3. /\ writer' \in [Checkers -> Check]
          /\ \A v \in Checkers : writer'[v].step = "fill" <=> writer'[v].fd # "none"
          /\ writer'["cli"].step # "idle" <=> writer["cli"].step # "idle"
      BY <1>1, <2>1, <2>2
    <2>4. temp'.tag = NoTag /\ temp'.state = "empty"
      BY <1>3 DEF Opened, Truncated
    <2> QED
      BY <1>3, <2>3, <2>4, TypesAre, WriterMoves DEF Opened, cliVars, NewsNewer
  <1>4. CASE Filled(w)
    <2> DEFINE c == [writer[w] EXCEPT !.step = "rename", !.fd = "none"]
    <2>1. c \in Check /\ c.step = "rename" /\ c.fd = "none"
      BY TypesAre DEF Check
    <2>2. writer' = [writer EXCEPT ![w] = c] /\ writer[w].step = "fill"
      BY <1>4, TypesAre DEF Filled, Check
    <2>3. /\ writer' \in [Checkers -> Check]
          /\ \A v \in Checkers : writer'[v].step = "fill" <=> writer'[v].fd # "none"
          /\ writer'["cli"].step # "idle" <=> writer["cli"].step # "idle"
      BY <1>1, <2>1, <2>2
    <2>4. writer[w].tag \in Tag
      BY TypesAre DEF Check
    <2>5. /\ temp'.tag \in {temp.tag, writer[w].tag} /\ temp'.state \in {temp.state, "whole"}
          /\ memo'.tag \in {memo.tag, writer[w].tag} /\ memo'.state \in {memo.state, "whole"}
      BY <1>4 DEF Filled, Line
    <2> QED
      BY <1>4, <2>3, <2>4, <2>5, TypesAre, WriterMoves DEF Filled, cliVars, NewsNewer
  <1> QED
    BY <1>2, <1>3, <1>4 DEF Fetched, Opened, Filled, cliVars

\* The rename, and what the asker makes of the tag; or the fetch fails.
LEMMA RenamedGood ==
    ASSUME UpdateInv, NEW w \in Checkers, Renamed(w) \/ FetchFails(w)
    PROVE  UpdateInv' /\ UNCHANGED binary /\ ~(cli.step = "installing" /\ cli'.step = "idle")
  <1> USE DEF UpdateInv
  <1>1. /\ writer' \in [Checkers -> Check]
        /\ \A v \in Checkers : writer'[v].step = "fill" <=> writer'[v].fd # "none"
        /\ writer'[w] = NoCheck
        /\ \A v \in Checkers \ {w} : writer'[v].step = writer[v].step
    <2>1. CASE writer' = [writer EXCEPT ![w] = NoCheck]
      <3>1. \A v \in Checkers : writer'[v] = IF v = w THEN NoCheck ELSE writer[v]
        BY <2>1, TypesAre
      <3> QED
        BY <2>1, <3>1, TypesAre DEF NoCheck
    <2>2. CASE writer' = [v \in {"boot", "cli"} |-> IF v = w THEN NoCheck ELSE [writer[v] EXCEPT !.fd = Moved(@)]]
      <3>1. ASSUME NEW v \in Checkers, v # w
            PROVE  /\ writer'[v] \in Check /\ writer'[v].step = writer[v].step
                   /\ writer'[v].fd # "none" <=> writer[v].fd # "none"
        <4>1. writer'[v] = [writer[v] EXCEPT !.fd = Moved(writer[v].fd)] /\ writer[v] \in Check
          BY <2>2, <3>1, TypesAre DEF Checkers
        <4>2. /\ Moved(writer[v].fd) \in {"none", "temp", "memo", "lost"}
              /\ Moved(writer[v].fd) # "none" <=> writer[v].fd # "none"
          BY <4>1 DEF Moved, Check
        <4> QED
          BY <4>1, <4>2 DEF Check
      <3>2. writer'[w] = NoCheck /\ DOMAIN writer' = Checkers /\ writer' = [v \in Checkers |-> writer'[v]]
        BY <2>2 DEF Checkers
      <3> QED
        BY <3>1, <3>2, TypesAre DEF NoCheck
    <2> QED
      BY <2>1, <2>2 DEF Renamed, FetchFails, Checkers
  <1>2. /\ {memo'.tag, temp'.tag} \subseteq Tag
        /\ memo'.state \in {"none", "empty", "whole"} /\ temp'.state \in {"none", "empty", "whole"}
    BY TypesAre DEF Renamed, FetchFails, fileVars, NoFile
  <1>3. UNCHANGED <<latest, tick, running, script, binary>>
    BY DEF Renamed, FetchFails
  <1>4. writer[w].tag \in Tag /\ writer[w].step # "idle"
    BY TypesAre DEF Check, Renamed, FetchFails
  <1>5. /\ news' \in Tag
        /\ news' # NoTag => Newer(news', running)
    BY <1>4, TypesAre DEF Renamed, FetchFails, Told, NewsNewer
  <1>6. CASE w = "boot"
    <2>1. UNCHANGED cli
      BY <1>6 DEF Renamed, FetchFails, Told
    <2>2. writer'["cli"].step = writer["cli"].step
      BY <1>1, <1>6 DEF Checkers
    <2>3. UpdateInv'
      BY <1>1, <1>2, <1>3, <1>5, <2>1, <2>2, TypesAre, WriterMoves
    <2> QED
      BY <1>3, <2>1, <2>3
  <1>7. CASE w = "cli"
    <2>1. cli.step = "asking" /\ cli.tag = NoTag /\ script.step = "none"
      BY <1>4, <1>7 DEF Asking, Commanded
    <2>2. writer'["cli"].step = "idle"
      BY <1>1, <1>7 DEF NoCheck
    <2>3. \/ cli' = [cli EXCEPT !.step = "deciding"]
          \/ cli' = [cli EXCEPT !.step = "deciding", !.tag = writer[w].tag] /\ Newer(writer[w].tag, binary)
          \/ cli' = [cli EXCEPT !.step = "idle", !.said = "current"]
      BY <1>7 DEF Renamed, FetchFails, Told
    <2>4. /\ cli' \in Command(Tag) /\ cli'.step \in {"deciding", "idle"}
          /\ cli'.step = "deciding" /\ cli'.tag # NoTag => Newer(cli'.tag, binary)
      BY <1>4, <2>1, <2>3 DEF UpdateTypes, Command
    <2>8. cli'.tag \in Tag
      BY <2>4 DEF Command
    <2>5. UpdateTypes'
      BY <1>1, <1>2, <1>3, <1>5, <2>4, <2>8, TypesAre DEF UpdateTypes
    <2>6. Handles' /\ Asking' /\ NewsNewer'
      BY <1>1, <1>3, <1>5, <2>2, <2>4 DEF Handles, Asking, NewsNewer
    <2>7. Commanded'
      BY <1>3, <2>1, <2>4 DEF Commanded
    <2> QED
      BY <1>3, <2>1, <2>5, <2>6, <2>7
  <1> QED
    BY <1>6, <1>7 DEF Checkers

\* The command and its installer.
LEMMA InstallGood ==
    ASSUME UpdateInv, Updates \/ Installs \/ Stages \/ Places \/ ScriptFails
    PROVE  /\ UpdateInv'
           /\ binary' # binary => cli.step = "installing" /\ Newer(binary', binary)
           /\ cli.step = "installing" /\ cli'.step = "idle" =>
                 /\ cli'.said = "updated" => binary = cli.tag
                 /\ cli'.said = "failed" => binary # cli.tag
  <1> USE DEF UpdateInv
  <1>1. UNCHANGED <<latest, tick, memo, temp, running, news>>
    BY DEF Updates, Installs, Decides, Reaped, TimesOut, Stages, Places, ScriptFails, fileVars
  <1>2. /\ cli.step \in {"idle", "asking", "deciding", "installing"} /\ cli.tag \in Tag /\ NoTag \in Tag
        /\ script.step \in {"none", "download", "staged", "placed", "failed"} /\ script.tag \in Tag /\ binary \in Tag
    BY TypesAre DEF UpdateTypes, Command, Script
  <1>3. CASE Updates
    <2>1. cli' = [step |-> "asking", tag |-> NoTag, said |-> "nothing"] /\ UNCHANGED <<script, binary>> /\ cli.step = "idle"
      BY <1>3 DEF Updates
    <2>2. writer["cli"].step = "idle" /\ writer["cli"].fd = "none"
      BY <2>1, TypesAre DEF Asking, Checkers
    <2>3. /\ \A v \in Checkers : writer'[v] = IF v = "cli" THEN [writer[v] EXCEPT !.step = "fetch"] ELSE writer[v]
          /\ writer' = [v \in Checkers |-> writer'[v]]
      BY <1>3, TypesAre DEF Updates, Goes
    <2>4. /\ [writer["cli"] EXCEPT !.step = "fetch"] \in Check
          /\ [writer["cli"] EXCEPT !.step = "fetch"].step = "fetch"
          /\ [writer["cli"] EXCEPT !.step = "fetch"].fd = "none"
      BY <2>2, TypesAre DEF Check, Checkers
    <2>5. writer' \in [Checkers -> Check] /\ Handles' /\ writer'["cli"].step = "fetch"
      BY <2>3, <2>4, TypesAre DEF Handles, Checkers
    <2>7. cli' \in Command(Tag)
      BY <1>2, <2>1 DEF Command
    <2>6. UpdateTypes'
      BY <1>1, <1>2, <2>1, <2>5, <2>7, TypesAre DEF UpdateTypes
    <2> QED
      BY <1>1, <2>1, <2>5, <2>6 DEF Asking, Commanded, NewsNewer
  <1>4. ASSUME UNCHANGED writer, cli.step # "asking", cli'.step # "asking",
               cli' \in Command(Tag), script' \in Script, binary' \in Tag, Commanded'
        PROVE  UpdateInv'
    <2>1. cli'.tag \in Tag /\ script'.tag \in Tag
      BY <1>4 DEF Command, Script
    <2>2. UpdateTypes'
      BY <1>1, <1>4, <2>1, TypesAre DEF UpdateTypes
    <2> QED
      BY <1>1, <1>4, <2>2 DEF Handles, Asking, NewsNewer
  <1>5. CASE Decides
    <2>1. /\ cli.step = "deciding" /\ script.step = "none" /\ UNCHANGED <<writer, binary>>
          /\ cli' \in Command(Tag) /\ cli'.step \in {"idle", "installing"} /\ cli'.tag = cli.tag
      BY <1>5 DEF Decides, Reports, Commanded, UpdateTypes, Command
    <2>2. \/ cli'.step = "idle" /\ script' = script
          \/ /\ cli'.step = "installing" /\ cli.tag # NoTag
             /\ script' = [step |-> "download", tag |-> cli.tag]
      BY <1>5, <2>1 DEF Decides, Reports, Confirmed, UpdateTypes, Command
    <2>5. cli.tag # NoTag => Newer(cli.tag, binary)
      BY <2>1 DEF Commanded
    <2>3. Commanded'
      BY <2>1, <2>2, <2>5 DEF Commanded
    <2>4. script' \in Script
      BY <1>2, <2>2 DEF UpdateTypes, Script
    <2> QED
      BY <1>2, <1>4, <2>1, <2>3, <2>4
  <1>6. CASE Stages \/ Places \/ ScriptFails
    <2>1. /\ UNCHANGED <<writer, cli>> /\ script.step \in {"download", "staged"}
          /\ script' = [step |-> script'.step, tag |-> script.tag]
          /\ \/ script'.step \in {"staged", "failed"} /\ binary' = binary
             \/ script'.step = "placed" /\ binary' = script.tag
      BY <1>6 DEF Stages, Places, ScriptFails, UpdateTypes, Script
    <2>2. cli.step = "installing" /\ Newer(script.tag, binary) /\ script.tag # NoTag
      BY <1>2, <2>1, NewerIsOther DEF Commanded
    <2>3. Commanded'
      BY <2>1, <2>2 DEF Commanded
    <2>5. script' \in Script /\ binary' \in Tag
      BY <1>2, <2>1 DEF Script
    <2>4. UpdateInv'
      BY <1>4, <2>1, <2>2, <2>3, <2>5 DEF UpdateTypes
    <2> QED
      BY <2>1, <2>2, <2>4
  <1>7. CASE Reaped \/ TimesOut
    <2>1. /\ cli.step = "installing" /\ UNCHANGED <<writer, binary>>
          /\ cli'.step = "idle" /\ cli'.tag = cli.tag
          /\ script' = [step |-> "none", tag |-> NoTag]
          /\ \/ cli'.said = "updated" /\ script.step = "placed"
             \/ cli'.said = "failed" /\ script.step = "failed"
             \/ cli'.said = "timed out"
          /\ cli' = [step |-> cli'.step, tag |-> cli'.tag, said |-> cli'.said]
      BY <1>7 DEF Reaped, TimesOut, Reports, Killed, UpdateTypes, Command
    <2>2. Commanded'
      BY <2>1 DEF Commanded
    <2>5. script' \in Script /\ cli' \in Command(Tag)
      BY <1>2, <2>1 DEF Script, Command
    <2>3. UpdateInv'
      BY <1>2, <1>4, <2>1, <2>2, <2>5
    <2>4. /\ script.step = "placed" => binary = cli.tag
          /\ script.step = "failed" => binary # cli.tag
      BY <1>2, NewerIsOther DEF Commanded
    <2> QED
      BY <2>1, <2>3, <2>4
  <1> QED
    BY <1>3, <1>5, <1>6, <1>7 DEF Installs

LEMMA UpdateNextGood ==
    ASSUME UpdateInv, [UpdateNext]_updateVars
    PROVE  /\ UpdateInv'
           /\ binary' # binary => cli.step = "installing" /\ Newer(binary', binary)
           /\ cli.step = "installing" /\ cli'.step = "idle" =>
                 /\ cli'.said = "updated" => binary = cli.tag
                 /\ cli'.said = "failed" => binary # cli.tag
  <1>1. CASE UNCHANGED updateVars
    <2>1. UpdateTypes' /\ Handles' /\ Asking'
      BY <1>1 DEF updateVars, UpdateInv, UpdateTypes, Handles, Asking
    <2>2. Commanded' /\ NewsNewer'
      BY <1>1 DEF updateVars, UpdateInv, Commanded, NewsNewer
    <2> QED
      BY <1>1, <2>1, <2>2 DEF updateVars, UpdateInv
  <1>2. CASE Released \/ ClockSet \/ Boots \/ ReadsMemo \/ Abandoned
    BY <1>2, BootGood
  <1>3. ASSUME NEW w \in Checkers, WriterStep(w)
        PROVE  UpdateInv' /\ binary' = binary /\ ~(cli.step = "installing" /\ cli'.step = "idle")
    BY <1>3, FetchedGood, RenamedGood DEF WriterStep
  <1>4. CASE Updates \/ Installs \/ Stages \/ Places \/ ScriptFails
    BY <1>4, InstallGood
  <1> QED
    BY <1>1, <1>2, <1>3, <1>4 DEF UpdateNext, Checkers

\* Whatever GitHub names in which order, however the clock is set, whoever tears the
\* cache file, and whenever the installer hangs: the binary only moves to a later
\* version, while its command waits, and what is said of it is so.
THEOREM UpdatesAreSound == UpdateSpec => UpdateSound
  <1>1. UpdateInit => UpdateInv
    BY UpdateInitGood
  <1>2. ASSUME UpdateInv, [UpdateNext]_updateVars
        PROVE  /\ UpdateInv'
               /\ binary' # binary => cli.step = "installing" /\ Newer(binary', binary)
               /\ cli.step = "installing" /\ cli'.step = "idle" =>
                     /\ cli'.said = "updated" => binary = cli.tag
                     /\ cli'.said = "failed" => binary # cli.tag
    BY <1>2, UpdateNextGood
  <1>3. UpdateInv => NewsNewer
    BY DEF UpdateInv
  <1>4. UpdateInv /\ [UpdateNext]_updateVars =>
            /\ UpdateInv'
            /\ [binary' # binary => cli.step = "installing"]_updateVars
            /\ [binary' # binary => Newer(binary', binary)]_updateVars
            /\ [cli.step = "installing" /\ cli'.step = "idle" =>
                  /\ cli'.said = "updated" => binary = cli.tag
                  /\ cli'.said = "failed" => binary # cli.tag]_updateVars
    BY <1>2
  <1> QED
    BY <1>1, <1>3, <1>4, PTL DEF UpdateSpec, UpdateSound, QuietAfterReport, OnlyForward, ReportTrue

-----------------------------------------------------------------------------
(***************************************************************************)
(* What is known of a show.                                                *)
(***************************************************************************)
MetaRow == [known : Known, stamp : Int, member : BOOLEAN, row : BOOLEAN]
Answer == [id : Titles, kind : {"answer", "null", "failed"}, says : Known]

EnrichInv ==
    /\ meta \in [Titles -> MetaRow] /\ cards \in [Titles -> Known]
    /\ mail \in Seq(Answer) /\ inquiry \in Titles \cup {NoTitle} /\ hour \in Nat
    /\ shown.id \in Titles \cup {NoTitle}
    /\ SurfaceOwn /\ NeverMints

\* A row that lives keeps what it knows: KnownKept of one show.
RowKept(s) ==
    meta[s].row /\ meta'[s].row =>
        LET a == meta[s].known  b == meta'[s].known IN
        /\ a.text # Null => b.text # Null
        /\ a.cover = "abs" => b.cover = "abs"
        /\ a.total # Null /\ b.total = Null => Airing(b) /\ meta'[s].stamp = hour

\* The empty entry, and what AniList says, are entries.
LEMMA EntriesAre ==
    NoEntry \in Known /\ NoMeta \in MetaRow /\ ~NoMeta.row /\ CatalogAnswers \subseteq Known
  <1>1. Null \in Word
    BY DEF Word
  <1>2. NoEntry \in Known
    BY <1>1 DEF NoEntry, Known
  <1>3. CatalogAnswers \subseteq Known
    BY EnrichmentAssumption
  <1> QED
    BY <1>2, <1>3 DEF NoMeta, MetaRow

\* A merge yields an entry and forgets nothing.
LEMMA MergeKeeps ==
    ASSUME NEW new \in Known, NEW old \in Known
    PROVE  /\ Merged(new, old) \in Known
           /\ old.text # Null => Merged(new, old).text # Null
           /\ old.cover = "abs" => Merged(new, old).cover = "abs"
           /\ old.total # Null => Merged(new, old).total # Null
           /\ Airing(new) => Airing(Merged(new, old))
  <1>1. \A x \in {new.text, new.total, new.cover, new.status}, y \in {old.text, old.total, old.cover, old.status} :
            Kept(x, y) \in Word /\ (y # Null => Kept(x, y) # Null)
    BY DEF Known, Kept
  <1>2. Cover(new.cover, old.cover) \in Word /\ (old.cover = "abs" => Cover(new.cover, old.cover) = "abs")
    <2>1. "abs" \in Word /\ Kept(new.cover, old.cover) \in Word
      BY <1>1 DEF Word
    <2> QED
      BY <2>1 DEF Cover
  <1>3. new.status = "RELEASING" => Kept(new.status, old.status) = "RELEASING"
    BY DEF Kept, Null
  <1> QED
    BY <1>1, <1>2, <1>3 DEF Merged, Known, Airing

\* A change of one row that keeps its type, its membership and its knowledge.
LEMMA RowSet ==
    ASSUME EnrichInv, NEW s \in Titles, NEW r \in MetaRow, meta' = [meta EXCEPT ![s] = r],
           r.row => r.member,
           meta[s].row /\ r.row =>
               /\ meta[s].known.text # Null => r.known.text # Null
               /\ meta[s].known.cover = "abs" => r.known.cover = "abs"
               /\ meta[s].known.total # Null /\ r.known.total = Null => Airing(r.known) /\ r.stamp = hour
    PROVE  meta' \in [Titles -> MetaRow] /\ NeverMints' /\ \A t \in Titles : RowKept(t)
  <1>1. meta'[s] = r /\ \A t \in Titles : t # s => meta'[t] = meta[t]
    BY DEF EnrichInv
  <1>2. meta' \in [Titles -> MetaRow]
    BY DEF EnrichInv
  <1>3. NeverMints'
    BY <1>1 DEF EnrichInv, NeverMints
  <1>4. ASSUME NEW t \in Titles PROVE RowKept(t)
    BY <1>1 DEF RowKept
  <1> QED
    BY <1>2, <1>3, <1>4

LEMMA EnrichInitGood ==
    ASSUME EnrichInit
    PROVE  EnrichInv
  <1>1. NothingShown.id = NoTitle
    BY DEF NothingShown, Shown
  <1> QED
    BY <1>1, EntriesAre DEF EnrichInit, EnrichInv, SurfaceOwn, NeverMints

EnrichStep == EnrichInv' /\ \A s \in Titles : RowKept(s)

\* A card, a selection, the clock, a fetch: no row changes.
LEMMA RowsRest ==
    ASSUME EnrichInv, UNCHANGED meta
    PROVE  meta' \in [Titles -> MetaRow] /\ NeverMints' /\ \A s \in Titles : RowKept(s)
  BY DEF EnrichInv, NeverMints, RowKept

LEMMA ListsGood ==
    ASSUME EnrichInv, PageRow \/ ChooseNothing \/ HourPasses \/ SettleFires \/ MaybeEnrich
    PROVE  EnrichStep
  <1>1. UNCHANGED meta
    BY DEF PageRow, ChooseNothing, HourPasses, SettleFires, MaybeEnrich, tableVars
  <1>2. cards' \in [Titles -> Known]
    BY EntriesAre DEF EnrichInv, PageRow, ChooseNothing, HourPasses, SettleFires, MaybeEnrich
  <1>3. mail' = mail
    BY DEF PageRow, ChooseNothing, HourPasses, SettleFires, MaybeEnrich
  <1>4. inquiry' \in Titles \cup {NoTitle}
    BY DEF EnrichInv, PageRow, ChooseNothing, HourPasses, SettleFires, MaybeEnrich
  <1>5. hour' \in Nat
    BY DEF EnrichInv, PageRow, ChooseNothing, HourPasses, SettleFires, MaybeEnrich
  <1>6. shown'.id \in Titles \cup {NoTitle} /\ SurfaceOwn'
    BY DEF EnrichInv, PageRow, ChooseNothing, HourPasses, SettleFires, MaybeEnrich, detailVars,
           SurfaceOwn, NothingShown, Shown
  <1> QED
    BY <1>1, <1>2, <1>3, <1>4, <1>5, <1>6, RowsRest DEF EnrichStep, EnrichInv

LEMMA ChooseGood ==
    ASSUME EnrichInv, NEW s \in Titles, Choose(s)
    PROVE  EnrichStep
  <1>1. UNCHANGED <<meta, cards, mail, inquiry, hour>> /\ \E k : SetTarget(s, k)
    BY DEF Choose, tableVars
  <1>2. shown'.id = s /\ chosen' = s
    BY <1>1 DEF SetTarget, Shown
  <1> QED
    BY <1>1, <1>2, RowsRest DEF EnrichStep, EnrichInv, SurfaceOwn

LEMMA PlanShowGood ==
    ASSUME EnrichInv, NEW s \in Titles, PlanShow(s)
    PROVE  EnrichStep
  <1>1. meta[s] \in MetaRow /\ cards[s] \in Known /\ meta[s].known \in Known /\ meta[s].stamp \in Int
    BY DEF EnrichInv, MetaRow
  <1>2. meta' = [meta EXCEPT ![s] = Added(s, cards[s])]
        /\ UNCHANGED <<cards, chosen, shown, inquiry, mail, hour>>
    BY DEF PlanShow, detailVars
  <1> DEFINE r == Added(s, cards[s])
  <1>3. r \in MetaRow /\ r.row /\ r.member /\ r.known = Merged(cards[s], meta[s].known)
    BY <1>1, MergeKeeps DEF Added, MetaRow
  <1> HIDE DEF r
  <1>4. meta' \in [Titles -> MetaRow] /\ NeverMints' /\ \A t \in Titles : RowKept(t)
    BY <1>1, <1>2, <1>3, RowSet, MergeKeeps DEF r
  <1> QED
    BY <1>2, <1>4 DEF EnrichStep, EnrichInv, SurfaceOwn

LEMMA DeleteShowGood ==
    ASSUME EnrichInv, NEW s \in Titles, DeleteShow(s)
    PROVE  EnrichStep
  <1>1. NoMeta \in MetaRow /\ ~NoMeta.row
    BY EntriesAre
  <1>2. meta' = [meta EXCEPT ![s] = NoMeta] /\ UNCHANGED <<cards, inquiry, mail, hour>>
    BY DEF DeleteShow
  <1>3. shown'.id \in Titles \cup {NoTitle} /\ SurfaceOwn'
    BY DEF DeleteShow, EnrichInv, SurfaceOwn, NothingShown, Shown
  <1>4. meta' \in [Titles -> MetaRow] /\ NeverMints' /\ \A t \in Titles : RowKept(t)
    BY <1>1, <1>2, RowSet
  <1> QED
    BY <1>2, <1>3, <1>4 DEF EnrichStep, EnrichInv

LEMMA EnrichAnswersGood ==
    ASSUME EnrichInv, EnrichAnswers
    PROVE  EnrichStep
  <1>1. PICK kind \in {"answer", "null", "failed"}, a \in CatalogAnswers :
            mail' = Append(mail, [id |-> inquiry, kind |-> kind, says |-> IF kind = "answer" THEN a ELSE NoEntry])
    BY DEF EnrichAnswers
  <1>2. a \in Known /\ NoEntry \in Known
    BY EntriesAre
  <1>3. inquiry \in Titles
    BY DEF EnrichAnswers, EnrichInv
  <1>4. [id |-> inquiry, kind |-> kind, says |-> IF kind = "answer" THEN a ELSE NoEntry] \in Answer
    BY <1>2, <1>3 DEF Answer
  <1>5. mail' \in Seq(Answer)
    BY <1>1, <1>4 DEF EnrichInv
  <1>6. UNCHANGED <<meta, cards, chosen, shown, hour>> /\ inquiry' = NoTitle
    BY DEF EnrichAnswers, tableVars, detailVars, AfterEnrich
  <1> QED
    BY <1>5, <1>6, RowsRest DEF EnrichStep, EnrichInv, SurfaceOwn

LEMMA EnrichHandledGood ==
    ASSUME EnrichInv, EnrichHandled
    PROVE  EnrichStep
  <1> DEFINE m == Head(mail)
             s == m.id
             a == m.says
  <1>1. m \in Answer /\ mail' \in Seq(Answer) /\ UNCHANGED <<cards, chosen, inquiry, hour>>
    BY DEF EnrichHandled, EnrichInv
  <1>2. s \in Titles /\ a \in Known /\ m.kind \in {"answer", "null", "failed"}
    BY <1>1 DEF Answer
  <1>3. meta[s] \in MetaRow /\ meta[s].known \in Known /\ hour \in Int /\ (meta[s].row => meta[s].member)
    BY <1>2 DEF EnrichInv, MetaRow, NeverMints
  <1>4. CASE m.kind = "null"
    <2>1. CheckedNull(s)
      BY <1>4 DEF EnrichHandled
    <2> DEFINE r == IF Patches(s) THEN [meta[s] EXCEPT !.stamp = hour] ELSE meta[s]
    <2>2. meta' = [meta EXCEPT ![s] = r] /\ UNCHANGED shown
      BY <2>1 DEF CheckedNull
    <2>3. r \in MetaRow /\ r.known = meta[s].known /\ r.row = meta[s].row /\ r.member = meta[s].member
      BY <1>3 DEF MetaRow
    <2> HIDE DEF r, m
    <2>4. meta' \in [Titles -> MetaRow] /\ NeverMints' /\ \A t \in Titles : RowKept(t)
      BY <1>2, <1>3, <2>2, <2>3, RowSet
    <2> QED
      BY <1>1, <2>2, <2>4 DEF EnrichStep, EnrichInv, SurfaceOwn
  <1>5. CASE m.kind = "failed"
    <2>1. UNCHANGED <<meta, shown>>
      BY <1>5 DEF EnrichHandled, tableVars
    <2> QED
      BY <1>1, <2>1, RowsRest DEF EnrichStep, EnrichInv, SurfaceOwn
  <1>6. CASE m.kind = "answer"
    <2>1. Refreshed(s, a)
      BY <1>6 DEF EnrichHandled
    <2> DEFINE r == IF Patches(s) THEN Patched(s, a) ELSE meta[s]
    <2>2. meta' = [meta EXCEPT ![s] = r]
      BY <2>1 DEF Refreshed
    <2>3. shown' = shown \/ (shown.id = s /\ \E k : shown' = Shown(s, k))
      BY <2>1 DEF Refreshed, ShowsAnswer
    <2>4. shown'.id = shown.id
      BY <2>3 DEF Shown
    <2>5. CASE Patches(s)
      <3> DEFINE merged == [Merged(a, meta[s].known) EXCEPT
                             !.total = IF a.total = Null /\ Airing(a) THEN Null ELSE Merged(a, meta[s].known).total]
      <3>1. /\ Merged(a, meta[s].known) \in Known
            /\ Null \in Word
        BY <1>2, <1>3, MergeKeeps DEF Word
      <3>2. /\ merged \in Known /\ merged.text = Merged(a, meta[s].known).text
            /\ merged.cover = Merged(a, meta[s].known).cover /\ merged.status = Merged(a, meta[s].known).status
            /\ merged.total = IF a.total = Null /\ Airing(a) THEN Null ELSE Merged(a, meta[s].known).total
        <4> DEFINE k == Merged(a, meta[s].known)
                   t == IF a.total = Null /\ Airing(a) THEN Null ELSE k.total
        <4>1. k \in Known /\ t \in Word /\ merged = [k EXCEPT !.total = t]
          BY <3>1 DEF Known
        <4> HIDE DEF k, t, merged
        <4>2. merged \in Known /\ merged.text = k.text /\ merged.cover = k.cover /\ merged.status = k.status /\ merged.total = t
          BY <4>1 DEF Known
        <4> QED
          BY <4>2 DEF k, t
      <3>3. /\ meta[s].known.text # Null => merged.text # Null
            /\ meta[s].known.cover = "abs" => merged.cover = "abs"
            /\ meta[s].known.total # Null /\ merged.total = Null => Airing(merged)
        BY <1>2, <1>3, <3>2, MergeKeeps DEF Airing
      <3>6. r = [meta[s] EXCEPT !.known = merged, !.stamp = hour, !.row = TRUE]
        BY <2>5 DEF Patched
      <3> HIDE DEF merged
      <3>4. r \in MetaRow /\ r.known = merged /\ r.stamp = hour /\ r.row = TRUE /\ r.member = meta[s].member
        BY <1>3, <3>2, <3>6 DEF MetaRow
      <3>5. meta[s].row
        BY <2>5 DEF Patches
      <3> HIDE DEF r, m
      <3> QED
        <4>1. meta' \in [Titles -> MetaRow] /\ NeverMints' /\ \A t \in Titles : RowKept(t)
          BY <1>2, <1>3, <2>2, <3>3, <3>4, <3>5, RowSet
        <4> QED
          BY <1>1, <2>4, <4>1 DEF EnrichStep, EnrichInv, SurfaceOwn
    <2>6. CASE ~Patches(s)
      <3>1. r = meta[s]
        BY <2>6
      <3> HIDE DEF r, m
      <3>2. meta' \in [Titles -> MetaRow] /\ NeverMints' /\ \A t \in Titles : RowKept(t)
        BY <1>2, <1>3, <2>2, <3>1, RowSet
      <3> QED
        BY <1>1, <2>4, <3>2 DEF EnrichStep, EnrichInv, SurfaceOwn
    <2> QED
      BY <2>5, <2>6
  <1> QED
    BY <1>2, <1>4, <1>5, <1>6

LEMMA EnrichNextGood ==
    ASSUME EnrichInv, [EnrichNext]_enrichVars
    PROVE  EnrichStep
  <1>1. CASE UNCHANGED enrichVars
    BY <1>1, RowsRest DEF enrichVars, EnrichStep, EnrichInv, SurfaceOwn
  <1>2. CASE EnrichNext
    BY <1>2, ListsGood, ChooseGood, PlanShowGood, DeleteShowGood, EnrichAnswersGood, EnrichHandledGood
       DEF EnrichNext, EnrichProgress
  <1> QED
    BY <1>1, <1>2

\* An enrichment that lands late is shown for its own show only, brings no row back
\* and takes nothing away, for any shows and answers (App::on_enrichment_refreshed).
THEOREM EnrichmentIsHonest == EnrichSpec => EnrichHonest
  <1>1. EnrichInit => EnrichInv
    BY EnrichInitGood
  <1>2. EnrichInv /\ [EnrichNext]_enrichVars => EnrichInv'
    BY EnrichNextGood DEF EnrichStep
  <1>3. EnrichInv => SurfaceOwn /\ NeverMints
    BY DEF EnrichInv
  <1>4. EnrichInv /\ [EnrichNext]_enrichVars =>
        [\A s \in Titles : meta[s].row /\ meta'[s].row =>
          LET a == meta[s].known  b == meta'[s].known IN
          /\ a.text # Null => b.text # Null
          /\ a.cover = "abs" => b.cover = "abs"
          /\ a.total # Null /\ b.total = Null => Airing(b) /\ meta'[s].stamp = hour]_enrichVars
    BY EnrichNextGood DEF EnrichStep, RowKept
  <1> QED
    BY <1>1, <1>2, <1>3, <1>4, PTL DEF EnrichSpec, EnrichHonest, KnownKept

-----------------------------------------------------------------------------
(***************************************************************************)
(* The poster of the selection.                                            *)
(***************************************************************************)
PosterTypes ==
    /\ target \in Posters \cup {NoPoster}
    /\ art \in [for : {p.id : p \in Posters \cup {NoPoster}}, url : {p.url : p \in Posters \cup {NoPoster}},
                loading : BOOLEAN, pixels : BOOLEAN]
    /\ failure \in [what : [id : {p.id : p \in Posters \cup {NoPoster}}, url : {p.url : p \in Posters \cup {NoPoster}}],
                    hot : BOOLEAN]
    /\ drawer \in [of : Posters \cup {NoPoster}, posted : BOOLEAN]
    /\ arrivals \in Seq([of : Posters \cup {NoPoster}, ok : BOOLEAN])

PosterStep ==
    /\ drawer' # drawer /\ drawer # NoDrawer => drawer' = NoDrawer \/ drawer'.of = drawer.of
    /\ art'.pixels /\ ~art.pixels => art'.for = target.id

LEMMA NoPosterTypes ==
    /\ NoArt \in [for : {p.id : p \in Posters \cup {NoPoster}}, url : {p.url : p \in Posters \cup {NoPoster}},
                loading : BOOLEAN, pixels : BOOLEAN] /\ NoArt.pixels = FALSE
    /\ NoDrawer \in [of : Posters \cup {NoPoster}, posted : BOOLEAN] /\ NoDrawer.posted = FALSE
    /\ NoPoster \in [id : {p.id : p \in Posters \cup {NoPoster}}, url : {p.url : p \in Posters \cup {NoPoster}}]
  <1>1. NoPoster.id = 0 /\ NoPoster.url = NoUrl
    BY DEF NoPoster
  <1>2. 0 \in {p.id : p \in Posters \cup {NoPoster}} /\ NoUrl \in {p.url : p \in Posters \cup {NoPoster}}
    BY <1>1
  <1> QED
    BY <1>2 DEF NoArt, NoDrawer, NoPoster

LEMMA CoversNextGood ==
    ASSUME PosterTypes, [CoversNext]_coversVars
    PROVE  PosterTypes' /\ PosterStep
  <1> DEFINE Ids == {p.id : p \in Posters \cup {NoPoster}}
             UrlsOf == {p.url : p \in Posters \cup {NoPoster}}
             Arts == [for : Ids, url : UrlsOf, loading : BOOLEAN, pixels : BOOLEAN]
             Failures == [what : [id : Ids, url : UrlsOf], hot : BOOLEAN]
             Drawers == [of : Posters \cup {NoPoster}, posted : BOOLEAN]
             Landed == [of : Posters \cup {NoPoster}, ok : BOOLEAN]
  <1>1. \A p \in Posters \cup {NoPoster} : p.id \in Ids /\ p.url \in UrlsOf
    OBVIOUS
  <1>2. NoArt \in Arts /\ NoArt.pixels = FALSE /\ NoDrawer \in Drawers /\ NoPoster \in [id : Ids, url : UrlsOf] /\ NoDrawer.posted = FALSE
    BY NoPosterTypes
  <1>3. target \in Posters \cup {NoPoster} /\ art \in Arts /\ failure \in Failures /\ drawer \in Drawers /\ arrivals \in Seq(Landed)
    BY DEF PosterTypes
  <1> HIDE DEF Ids, UrlsOf
  <1>4. SUFFICES /\ target' \in Posters \cup {NoPoster} /\ art' \in Arts /\ failure' \in Failures
                 /\ drawer' \in Drawers /\ arrivals' \in Seq(Landed) /\ PosterStep
    BY DEF PosterTypes, Ids, UrlsOf
  <1>5. CASE Retarget \/ WindowCloses \/ DrawCover \/ Reshape \/ Encode \/ ApplyResponse \/ UNCHANGED coversVars
    BY <1>3, <1>5 DEF Retarget, WindowCloses, DrawCover, Reshape, Encode, ApplyResponse, coversVars, artVars, PosterStep
  <1>6. CASE Untarget \/ SyncClears
    BY <1>2, <1>3, <1>6 DEF Untarget, SyncClears, PosterStep
  <1>7. CASE SyncFetches
    <2>1. UNCHANGED <<target, arrivals>> /\ failure' = NoFailure /\ drawer = NoDrawer
      BY <1>7 DEF SyncFetches, DrawerFree
    <2>2. NoFailure \in Failures
      BY <1>2 DEF NoFailure
    <2> DEFINE held == [for |-> target.id, url |-> target.url, loading |-> TRUE, pixels |-> FALSE]
               drawing == [of |-> target, posted |-> FALSE]
    <2>5. held \in Arts /\ ~held.pixels /\ drawing \in Drawers
      BY <1>1, <1>3
    <2>6. (art' = held /\ drawer' = drawing) \/ (art' = NoArt /\ drawer' = drawer)
      BY <1>7 DEF SyncFetches
    <2> HIDE DEF held, drawing
    <2>3. art' \in Arts /\ ~art'.pixels
      BY <1>2, <2>5, <2>6
    <2>4. drawer' \in Drawers
      BY <1>3, <2>5, <2>6
    <2> QED
      BY <1>3, <2>1, <2>2, <2>3, <2>4 DEF PosterStep
  <1>8. CASE CooldownPasses
    <2>1. failure' \in Failures /\ UNCHANGED <<target, art, drawer, arrivals>>
      BY <1>3, <1>8 DEF CooldownPasses
    <2> QED
      BY <1>3, <2>1 DEF PosterStep
  <1>9. CASE DrawerPosts
    <2>1. drawer' = [drawer EXCEPT !.posted = TRUE] /\ UNCHANGED <<target, art, failure>>
      BY <1>9 DEF DrawerPosts, artVars
    <2>2. drawer' \in Drawers /\ drawer'.of = drawer.of
      BY <1>3, <2>1
    <2>3. arrivals' \in Seq(Landed)
      <3>1. PICK ok \in BOOLEAN : arrivals' = Append(arrivals, [of |-> drawer.of, ok |-> ok])
        BY <1>9 DEF DrawerPosts
      <3>2. [of |-> drawer.of, ok |-> ok] \in Landed
        BY <1>3
      <3> QED
        BY <1>3, <3>1, <3>2
    <2> QED
      BY <1>3, <2>1, <2>2, <2>3 DEF PosterStep
  <1>10. CASE DrawerEnds
    BY <1>2, <1>3, <1>10 DEF DrawerEnds, artVars, PosterStep
  <1>11. CASE CoverArrives
    <2> DEFINE p == Head(arrivals).of
    <2>4. arrivals # <<>> /\ arrivals' = Tail(arrivals) /\ UNCHANGED <<target, drawer>>
      BY <1>11 DEF CoverArrives
    <2>6. arrivals \in Seq(Landed)
      BY <1>3
    <2> HIDE DEF Landed
    <2>7. Head(arrivals) \in Landed /\ arrivals' \in Seq(Landed)
      BY <2>4, <2>6
    <2>5. Head(arrivals).of \in Posters \cup {NoPoster} /\ arrivals' \in Seq(Landed)
      BY <2>7 DEF Landed
    <2>1. p \in Posters \cup {NoPoster} /\ arrivals' \in Seq(Landed) /\ UNCHANGED <<target, drawer>>
      BY <2>4, <2>5
    <2> HIDE DEF p
    <2>2. CASE Arrived(p)
      <3>1. failure' \in Failures
        <4>1. failure' = failure \/ failure' = NoFailure
          BY <2>2 DEF Arrived
        <4>2. NoFailure \in Failures
          BY <1>2 DEF NoFailure
        <4> QED
          BY <1>3, <4>1, <4>2
      <3>2. art' \in Arts
        BY <1>2, <1>3, <2>2 DEF Arrived
      <3>3. art'.pixels /\ ~art.pixels => art'.for = target.id
        BY <1>2, <1>3, <2>2 DEF Arrived, Awaits, Keeps
      <3> QED
        BY <1>3, <2>1, <3>1, <3>2, <3>3 DEF PosterStep
    <2>3. CASE Missed(p)
      <3>1. art' = art \/ art' = NoArt
        BY <2>3 DEF Missed
      <3>2. failure' \in Failures
        <4>1. failure' = failure \/ failure' = [what |-> [id |-> p.id, url |-> art.url], hot |-> TRUE]
          BY <2>3 DEF Missed
        <4>2. p.id \in Ids /\ art.url \in UrlsOf
          BY <1>1, <1>3, <2>1
        <4>3. [what |-> [id |-> p.id, url |-> art.url], hot |-> TRUE] \in Failures
          BY <4>2
        <4> QED
          BY <1>3, <4>1, <4>3
      <3> QED
        BY <1>2, <1>3, <2>1, <3>1, <3>2 DEF PosterStep
    <2> QED
      BY <1>11, <2>2, <2>3 DEF CoverArrives, p
  <1> QED
    BY <1>5, <1>6, <1>7, <1>8, <1>9, <1>10, <1>11 DEF CoversNext

\* One poster is fetched at a time, and one that arrives for a show no longer
\* selected is let go, for any shows and posters (DetailCover::maybe_sync, on_done).
THEOREM PostersAreHonest == CoversSpec => PosterHonest
  <1>1. CoversInit => PosterTypes
    BY NoPosterTypes DEF CoversInit, PosterTypes, NoFailure
  <1>2. PosterTypes /\ [CoversNext]_coversVars => PosterTypes'
    BY CoversNextGood
  <1>3. PosterTypes /\ [CoversNext]_coversVars =>
          [drawer' # drawer /\ drawer # NoDrawer => drawer' = NoDrawer \/ drawer'.of = drawer.of]_coversVars
    BY CoversNextGood DEF PosterStep
  <1>4. PosterTypes /\ [CoversNext]_coversVars =>
          [art'.pixels /\ ~art.pixels => art'.for = target.id]_coversVars
    BY CoversNextGood DEF PosterStep
  <1> QED
    BY <1>1, <1>2, <1>3, <1>4, PTL DEF CoversSpec, PosterHonest, DrawnOnce, LateArtDropped

-----------------------------------------------------------------------------
(***************************************************************************)
(* The calls of the providers.                                             *)
(***************************************************************************)
SiteTypes ==
    /\ call.op \in {"search", "episodes", "resolve"}
    /\ site.eps \in Nat \ {0} /\ site.dubbed \subseteq 1 .. site.eps

\* The one document of a search of anineko is no page that could parse to nothing.
ReadOk(s, q) == s = "read" /\ call.who = "anineko" /\ call.op = "search" => q = <<"search">>

\* lo is dubbed, or nothing is known yet; hi is not, or it is past the end.
BisectOk(s, k) ==
    s = "bisect" =>
        /\ call.who = "anidbapp" /\ call.op = "episodes" /\ call.track = "dub"
        /\ k = [lo |-> k.lo, hi |-> k.hi] /\ k.lo \in Nat /\ k.hi \in Nat
        /\ k.lo < k.hi /\ k.hi <= site.eps + 1
        /\ k.lo = 0 => k.hi = site.eps + 1
        /\ k.lo # 0 => k.lo \in site.dubbed
        /\ k.hi <= site.eps => k.hi \notin site.dubbed

\* What is not left of the vetted embeds was dead.
HostsOk(s, k) ==
    s = "hosts" =>
        /\ k = [offered |-> k.offered, left |-> k.left] /\ k.offered \in Seq([clean : BOOLEAN, link : Links])
        /\ call.who = "anineko" => \A i \in Vetted(k.offered) \ k.left : k.offered[i].link = "dead"

\* The tracks are probed in their order, and the best one beats the first.
CuesOk(s, q, k) ==
    s = "cues" =>
        /\ k = [best |-> k.best, cues |-> k.cues] /\ k.cues \in [1 .. 3 -> Nat]
        /\ \/ k.best = 0 /\ q = <<1, 2, 3>>
           \/ k.best = 1 /\ q \in {<<2, 3>>, <<3>>, <<>>}
           \/ k.best \in {2, 3} /\ q \in {<<3>>, <<>>} /\ k.cues[k.best] > k.cues[1]

StageOk(s, q, k) == ReadOk(s, q) /\ BisectOk(s, k) /\ HostsOk(s, k) /\ CuesOk(s, q, k)

\* An answer that may be given; the three state properties of it.
HonestReply(r) ==
    /\ r = NotStocked =>
          \/ ~site.stocked
          \/ call.op = "episodes" /\ call.track = "dub" /\ call.who \in {"anidbapp", "allanime"}
             /\ (DubIsPrefix => site.dubbed = {})
    /\ r.kind = "listing" /\ call.who = "anidbapp" /\ call.track = "dub" =>
          r.upto \in site.dubbed /\ (DubIsPrefix => r.upto = Cardinality(site.dubbed))
    /\ r.kind = "link" /\ "cues" \in DOMAIN r /\ r.sub > 1 => r.cues[r.sub] > r.cues[1]

CallInv ==
    /\ SiteTypes /\ StageOk(stage, candidates, kept)
    /\ reply = Unanswered \/ stage = "done"
    /\ HonestReply(reply)

\* HostsServe of one step.
HostsSpent ==
    \A k \in DOMAIN kept.offered :
        kept.offered[k] = [clean |-> TRUE, link |-> "live"] =>
            Cardinality({j \in 1 .. (k - 1) : kept.offered[j].clean}) >= HostTries

CallStep == CallInv' /\ (stage = "hosts" /\ call.who = "anineko" /\ reply'.kind = "err" => HostsSpent)

\* The dub is a prefix of the show that ends at the number of its episodes.
LEMMA PrefixEnds ==
    ASSUME SiteTypes
    PROVE  /\ Cardinality(site.dubbed) \in Nat
           /\ DubIsPrefix => \A n \in Nat : n \in site.dubbed <=> 1 <= n /\ n <= Cardinality(site.dubbed)
           /\ DubIsPrefix => Cardinality(site.dubbed) <= site.eps
  <1>1. IsFiniteSet(1 .. site.eps)
    BY FS_Interval DEF SiteTypes
  <1>2. Cardinality(site.dubbed) \in Nat
    BY <1>1, FS_Subset, FS_CardinalityType DEF SiteTypes
  <1>3. DubIsPrefix => \A n \in Nat : n \in site.dubbed <=> 1 <= n /\ n <= Cardinality(site.dubbed)
    BY <1>2 DEF DubIsPrefix
  <1>4. ASSUME DubIsPrefix, ~(Cardinality(site.dubbed) <= site.eps)
        PROVE  FALSE
    <2>1. Cardinality(site.dubbed) \in site.dubbed
      BY <1>2, <1>3, <1>4 DEF SiteTypes
    <2> QED
      BY <1>2, <1>4, <2>1 DEF SiteTypes
  <1> QED
    BY <1>2, <1>3, <1>4

\* An honest answer ends the call.
LEMMA RepliesGood ==
    ASSUME CallInv, NEW r, Replies(r), HonestReply(r),
           stage = "hosts" /\ call.who = "anineko" /\ r.kind = "err" => HostsSpent
    PROVE  CallStep
  <1>1. reply' = r /\ stage' = "done" /\ UNCHANGED <<call, site>>
    BY DEF Replies
  <1>2. SiteTypes'
    BY <1>1 DEF CallInv, SiteTypes
  <1>3. StageOk(stage, candidates, kept)'
    BY <1>1 DEF StageOk, ReadOk, BisectOk, HostsOk, CuesOk
  <1>4. HonestReply(reply)'
    BY <1>1 DEF HonestReply, DubIsPrefix
  <1> QED
    BY <1>1, <1>2, <1>3, <1>4 DEF CallInv, CallStep

\* A step on the way keeps what its stage knows.
LEMMA TriesGood ==
    ASSUME CallInv, NEW s, NEW q, NEW k, Tries(s, q, k), StageOk(s, q, k), stage # "done"
    PROVE  CallStep
  <1>1. reply' = reply /\ stage' = s /\ candidates' = q /\ kept' = k /\ UNCHANGED <<call, site>> /\ reply = Unanswered
    BY DEF Tries, CallInv
  <1>2. SiteTypes'
    BY <1>1 DEF CallInv, SiteTypes
  <1>3. StageOk(stage, candidates, kept)'
    BY <1>1 DEF StageOk, ReadOk, BisectOk, HostsOk, CuesOk
  <1>4. HonestReply(reply)'
    BY <1>1 DEF HonestReply, DubIsPrefix, CallInv
  <1>5. reply'.kind # "err"
    BY <1>1 DEF Unanswered
  <1> QED
    BY <1>1, <1>2, <1>3, <1>4, <1>5 DEF CallInv, CallStep

\* An answer that says nothing of the site, and one that only says what it is.
LEMMA PlainReplies ==
    /\ \A e : HonestReply(Errs(e)) /\ Errs(e).kind = "err"
    /\ \A s \in {0, 1} : HonestReply([kind |-> "link", sub |-> s])
    /\ \A c : HonestReply([kind |-> "link", sub |-> 1, cues |-> c])
    /\ \A i : HonestReply([kind |-> "hits", ids |-> i])
  <1>1. \A e : HonestReply(Errs(e)) /\ Errs(e).kind = "err"
    BY DEF HonestReply, Errs, NotStocked
  <1>2. \A s \in {0, 1} : HonestReply([kind |-> "link", sub |-> s])
    BY DEF HonestReply, NotStocked
  <1>3. \A c : HonestReply([kind |-> "link", sub |-> 1, cues |-> c])
    BY DEF HonestReply, NotStocked
  <1>4. \A i : HonestReply([kind |-> "hits", ids |-> i])
    BY DEF HonestReply, NotStocked
  <1> QED
    BY <1>1, <1>2, <1>3, <1>4

\* A stage with nothing to remember.
LEMMA FreeStages ==
    ASSUME NEW s \in {"probe", "sources", "cap", "sidecar"}, NEW q, NEW k
    PROVE  StageOk(s, q, k)
  BY DEF StageOk, ReadOk, BisectOk, HostsOk, CuesOk

LEMMA DocumentsGood ==
    ASSUME CallInv, Unsupported \/ DocumentFails \/ Challenged \/ DocumentEmpty \/ NextDocument
    PROVE  CallStep
  <1>1. CASE Unsupported
    BY <1>1, RepliesGood, PlainReplies DEF Unsupported
  <1>2. CASE DocumentFails
    BY <1>2, RepliesGood, PlainReplies DEF DocumentFails, Reading
  <1>3. CASE Challenged
    BY <1>3, RepliesGood, PlainReplies DEF Challenged, Reading, ReadsChallenge
  <1>4. CASE DocumentEmpty
    <2>1. ReadOk(stage, candidates) /\ stage = "read" /\ Replies(ReadsEmpty)
      BY <1>4 DEF CallInv, StageOk, DocumentEmpty, Reading
    <2>2. CASE ReadsEmpty = Errs("decode")
      BY <2>1, <2>2, RepliesGood, PlainReplies
    <2>3. CASE ReadsEmpty = NotStocked /\ ~site.stocked
      <3>1. HonestReply(NotStocked)
        BY <2>3 DEF HonestReply, NotStocked
      <3> QED
        BY <2>1, <2>3, <3>1, RepliesGood
    <2>4. CASE ReadsEmpty = NotStocked /\ site.stocked
      <3>1. call.op # "resolve" /\ ~(call.who = "anineko" /\ call.op = "episodes")
        BY <2>4 DEF ReadsEmpty, Errs, NotStocked
      <3>2. call.who = "anineko" /\ Head(candidates) = "show"
        BY <1>4, <2>4, <3>1 DEF DocumentEmpty
      <3>3. call.op # "search"
        BY <2>1, <3>2 DEF ReadOk
      <3> QED
        BY <1>4, <3>1, <3>2, <3>3 DEF CallInv, SiteTypes
    <2> QED
      BY <2>2, <2>3, <2>4 DEF ReadsEmpty
  <1>5. CASE NextDocument
    <2>1. /\ stage = "read" /\ Len(candidates) > 1 /\ Tries("read", Tail(candidates), kept)
          /\ ReadOk(stage, candidates)
      BY <1>5 DEF NextDocument, Reading, CallInv, StageOk
    <2>2. ~(call.who = "anineko" /\ call.op = "search")
      <3> SUFFICES ASSUME call.who = "anineko", call.op = "search" PROVE FALSE
        OBVIOUS
      <3>1. candidates = <<"search">>
        BY <2>1 DEF ReadOk
      <3>2. Len(candidates) = 1
        BY <3>1
      <3> QED
        BY <2>1, <3>2
    <2>3. StageOk("read", Tail(candidates), kept)
      BY <2>2 DEF StageOk, ReadOk, BisectOk, HostsOk, CuesOk
    <2> QED
      BY <2>1, <2>3, TriesGood
  <1> QED
    BY <1>1, <1>2, <1>3, <1>4, <1>5

LEMMA ReadsGood ==
    ASSUME CallInv, SearchRead \/ ListingRead
    PROVE  CallStep
  <1>1. CASE SearchRead
    <2>1. stage = "read" /\ stage # "done"
      BY <1>1 DEF SearchRead, LastRead, Reading
    <2>2. CASE call.who = "anidbapp"
      <3>1. PICK n \in 1 .. 2 : Tries("probe", [k \in 1 .. n |-> k], <<>>)
        BY <1>1, <2>2 DEF SearchRead
      <3> QED
        BY <2>1, <3>1, FreeStages, TriesGood
    <2>3. CASE call.who # "anidbapp"
      BY <1>1, <2>1, <2>3, RepliesGood, PlainReplies DEF SearchRead
    <2> QED
      BY <2>2, <2>3
  <1>2. CASE ListingRead
    <2>1. stage = "read" /\ call.op = "episodes" /\ SiteTypes
      BY <1>2 DEF ListingRead, LastRead, Reading, CallInv
    <2>2. CASE call.track = "dub" /\ call.who = "anidbapp"
      <3> DEFINE k == [lo |-> 0, hi |-> site.eps + 1]
      <3>1. Tries("bisect", <<>>, k)
        BY <1>2, <2>2 DEF ListingRead
      <3>2. BisectOk("bisect", k)
        BY <2>1, <2>2 DEF BisectOk, SiteTypes
      <3>3. StageOk("bisect", <<>>, k)
        BY <3>2 DEF StageOk, ReadOk, HostsOk, CuesOk
      <3> HIDE DEF k
      <3> QED
        BY <2>1, <3>1, <3>3, TriesGood
    <2>3. CASE call.track = "dub" /\ call.who = "allanime"
      <3>1. CASE site.dubbed = {}
        <4>1. HonestReply(NotStocked)
          BY <2>1, <2>3, <3>1 DEF HonestReply, NotStocked
        <4> QED
          BY <1>2, <2>1, <2>3, <3>1, <4>1, RepliesGood DEF ListingRead
      <3>2. CASE site.dubbed # {}
        <4> DEFINE r == [kind |-> "listing", upto |-> Max(site.dubbed)]
        <4>1. Replies(r)
          BY <1>2, <2>3, <3>2 DEF ListingRead
        <4>2. HonestReply(r)
          BY <2>3 DEF HonestReply, NotStocked
        <4> HIDE DEF r
        <4> QED
          BY <2>1, <4>1, <4>2, RepliesGood
      <3> QED
        BY <3>1, <3>2
    <2>4. CASE ~(call.track = "dub" /\ call.who = "anidbapp") /\ ~(call.track = "dub" /\ call.who = "allanime")
      <3> DEFINE r == [kind |-> "listing", upto |-> site.eps]
      <3>1. Replies(r)
        BY <1>2, <2>4 DEF ListingRead
      <3>2. HonestReply(r)
        BY <2>4 DEF HonestReply, NotStocked
      <3> HIDE DEF r
      <3> QED
        BY <2>1, <3>1, <3>2, RepliesGood
    <2> QED
      BY <2>2, <2>3, <2>4
  <1> QED
    BY <1>1, <1>2

\* What an offer is.
LEMMA OffersAre == Offers \subseteq Seq([clean : BOOLEAN, link : Links])
  <1> DEFINE T == [clean : BOOLEAN, link : Links]
  <1>1. Offers = UNION {[1 .. m -> T] : m \in 0 .. MaxHosts}
    BY DEF Offers, BoundedSeq, SeqOf
  <1> HIDE DEF T
  <1>2. ASSUME NEW m \in 0 .. MaxHosts, NEW o \in [1 .. m -> T]
        PROVE  o \in Seq(T)
    <2>1. m \in Nat
      BY AdaptersAssumption
    <2> QED
      BY <2>1
  <1>3. UNION {[1 .. m -> T] : m \in 0 .. MaxHosts} \subseteq Seq(T)
    BY <1>2
  <1> QED
    BY <1>1, <1>3 DEF T

LEMMA StreamGood ==
    ASSUME CallInv, StreamRead
    PROVE  CallStep
  <1>1. stage = "read" /\ stage # "done"
    BY DEF StreamRead, LastRead, Reading
  <1>2. CASE MegaplayStream
    <2>1. CASE call.track = "dub"
      BY <1>1, <1>2, <2>1, RepliesGood, PlainReplies DEF MegaplayStream
    <2>2. CASE call.track # "dub"
      <3>1. PICK cues \in [1 .. 3 -> 0 .. 2] : Tries("cues", <<1, 2, 3>>, [best |-> 0, cues |-> cues])
        BY <1>2, <2>2 DEF MegaplayStream
      <3>2. CuesOk("cues", <<1, 2, 3>>, [best |-> 0, cues |-> cues])
        BY DEF CuesOk
      <3>3. StageOk("cues", <<1, 2, 3>>, [best |-> 0, cues |-> cues])
        BY <3>2 DEF StageOk, ReadOk, BisectOk, HostsOk
      <3> QED
        BY <1>1, <3>1, <3>3, TriesGood
    <2> QED
      BY <2>1, <2>2
  <1>3. CASE MasterStream
    BY <1>1, <1>3, FreeStages, TriesGood DEF MasterStream
  <1>4. CASE AnibdStream
    <2>1. PICK offered \in Offers : Tries("hosts", <<>>, [offered |-> offered, left |-> VettedLate(offered)])
      BY <1>4 DEF AnibdStream
    <2>2. HostsOk("hosts", [offered |-> offered, left |-> VettedLate(offered)])
      BY <1>4, OffersAre DEF HostsOk, AnibdStream
    <2>3. StageOk("hosts", <<>>, [offered |-> offered, left |-> VettedLate(offered)])
      BY <2>2 DEF StageOk, ReadOk, BisectOk, CuesOk
    <2> QED
      BY <1>1, <2>1, <2>3, TriesGood
  <1>5. CASE AninekoStream
    <2>1. PICK offered \in Offers : Tries("hosts", <<>>, [offered |-> offered, left |-> Vetted(offered)])
      BY <1>5 DEF AninekoStream
    <2>2. HostsOk("hosts", [offered |-> offered, left |-> Vetted(offered)])
      BY OffersAre DEF HostsOk
    <2>3. StageOk("hosts", <<>>, [offered |-> offered, left |-> Vetted(offered)])
      BY <2>2 DEF StageOk, ReadOk, BisectOk, CuesOk
    <2> QED
      BY <1>1, <2>1, <2>3, TriesGood
  <1>6. CASE AllanimeStream
    <2>1. CASE Replies([kind |-> "link", sub |-> 0])
      BY <1>1, <2>1, RepliesGood, PlainReplies
    <2>2. ASSUME NEW n \in 0 .. 2, Tries("sources", [k \in 1 .. n |-> k], <<>>)
          PROVE  CallStep
      BY <1>1, <2>2, FreeStages, TriesGood
    <2> QED
      BY <1>6, <2>1, <2>2 DEF AllanimeStream
  <1> QED
    BY <1>2, <1>3, <1>4, <1>5, <1>6 DEF StreamRead

LEMMA BisectGood ==
    ASSUME CallInv, BisectDub
    PROVE  CallStep
  <1> DEFINE lo == kept.lo
             hi == kept.hi
             n == Cardinality(site.dubbed)
  <1>1. /\ stage = "bisect" /\ SiteTypes
        /\ call.who = "anidbapp" /\ call.op = "episodes" /\ call.track = "dub"
        /\ lo \in Nat /\ hi \in Nat /\ lo < hi /\ hi <= site.eps + 1 /\ (lo = 0 => hi = site.eps + 1)
        /\ (lo # 0 => lo \in site.dubbed) /\ (hi <= site.eps => hi \notin site.dubbed)
        /\ site.eps \in Nat \ {0}
    BY DEF BisectDub, CallInv, StageOk, BisectOk, SiteTypes
  <1>2. /\ n \in Nat
        /\ DubIsPrefix => \A i \in Nat : i \in site.dubbed <=> 1 <= i /\ i <= n
        /\ DubIsPrefix => n <= site.eps
    BY <1>1, PrefixEnds
  <1> HIDE DEF n
  <1>3. CASE \E e \in FetchErrors : Replies(Errs(e))
    BY <1>1, <1>3, RepliesGood, PlainReplies
  <1>4. CASE lo = 0 /\ 1 \notin site.dubbed /\ Replies(NotStocked)
    <2>1. DubIsPrefix => site.dubbed = {}
      <3> SUFFICES ASSUME DubIsPrefix, site.dubbed # {} PROVE FALSE
        OBVIOUS
      <3>1. PICK i \in site.dubbed : TRUE
        OBVIOUS
      <3>2. i \in Nat /\ 1 <= i /\ i <= n
        BY <1>1, <1>2, <3>1 DEF SiteTypes
      <3> QED
        BY <1>2, <1>4, <3>2
    <2>2. HonestReply(NotStocked)
      BY <1>1, <2>1 DEF HonestReply, NotStocked
    <2> QED
      BY <1>1, <1>4, <2>2, RepliesGood
  <1>5. CASE lo # 0 /\ hi = lo + 1 /\ Replies([kind |-> "listing", upto |-> lo])
    <2>1. DubIsPrefix => lo = n
      <3> SUFFICES ASSUME DubIsPrefix PROVE lo = n
        OBVIOUS
      <3>1. 1 <= lo /\ lo <= n
        BY <1>1, <1>2, <1>5
      <3>2. ~(hi <= n)
        BY <1>1, <1>2, <1>5
      <3> QED
        BY <1>1, <1>2, <1>5, <3>1, <3>2
    <2>2. HonestReply([kind |-> "listing", upto |-> lo])
      BY <1>1, <1>5, <2>1 DEF HonestReply, NotStocked, n
    <2> QED
      BY <1>1, <1>5, <2>2, RepliesGood
  <1>6. CASE /\ lo # 0 /\ hi = site.eps + 1 /\ site.eps \in site.dubbed
             /\ Replies([kind |-> "listing", upto |-> site.eps])
    <2>1. DubIsPrefix => site.eps = n
      BY <1>1, <1>2, <1>6
    <2>2. HonestReply([kind |-> "listing", upto |-> site.eps])
      BY <1>1, <1>6, <2>1 DEF HonestReply, NotStocked, n
    <2> QED
      BY <1>1, <1>6, <2>2, RepliesGood
  <1>7. CASE /\ lo = 0 => 1 \in site.dubbed
             /\ lo # 0 => hi > lo + 1
             /\ hi > site.eps /\ lo # 0 => site.eps \notin site.dubbed
             /\ Tries("bisect", <<>>, Bisects(lo, ProbePoint, hi, ProbePoint \in site.dubbed))
    <2> DEFINE k == Bisects(lo, ProbePoint, hi, ProbePoint \in site.dubbed)
    <2>1. ProbePoint \in Nat /\ 1 <= ProbePoint /\ ProbePoint <= site.eps /\ lo < ProbePoint /\ ProbePoint < hi
      BY <1>1, <1>7 DEF ProbePoint
    <2>2. ProbePoint \in site.dubbed => BisectOk("bisect", k)
      <3>1. ProbePoint \in site.dubbed => k = [lo |-> ProbePoint, hi |-> hi]
        BY DEF Bisects
      <3> QED
        BY <1>1, <2>1, <3>1 DEF BisectOk
    <2>3. ProbePoint \notin site.dubbed => BisectOk("bisect", k)
      <3>1. ProbePoint \notin site.dubbed => k = [lo |-> lo, hi |-> ProbePoint]
        BY DEF Bisects
      <3>2. ProbePoint \notin site.dubbed => lo # 0
        BY <1>7 DEF ProbePoint
      <3> QED
        BY <1>1, <2>1, <3>1, <3>2 DEF BisectOk
    <2>4. StageOk("bisect", <<>>, k)
      BY <2>2, <2>3 DEF StageOk, ReadOk, HostsOk, CuesOk
    <2> HIDE DEF k
    <2> QED
      BY <1>1, <1>7, <2>4, TriesGood DEF k
  <1> QED
    BY <1>3, <1>4, <1>5, <1>6, <1>7 DEF BisectDub

\* What the embeds of anineko come to when none of them serves.
LEMMA HostsGood ==
    ASSUME CallInv, HostTry
    PROVE  CallStep
  <1>1. /\ stage = "hosts" /\ HostsOk(stage, kept)
        /\ kept.offered \in Seq([clean : BOOLEAN, link : Links])
        /\ kept = [offered |-> kept.offered, left |-> kept.left]
    BY DEF HostTry, CallInv, StageOk, HostsOk
  <1>2. CASE kept.left = {} /\ Replies(Errs("decode"))
    <2>1. call.who = "anineko" => HostsSpent
      <3> SUFFICES ASSUME call.who = "anineko", NEW k \in DOMAIN kept.offered,
                          kept.offered[k] = [clean |-> TRUE, link |-> "live"]
                   PROVE  Cardinality({j \in 1 .. (k - 1) : kept.offered[j].clean}) >= HostTries
        BY DEF HostsSpent
      <3> DEFINE before == {j \in Vettable(kept.offered) : j < k}
      <3>1. k \in Vettable(kept.offered) /\ kept.offered[k].link # "dead"
        BY DEF Vettable
      <3>2. k \notin Vetted(kept.offered)
        BY <1>1, <1>2, <3>1 DEF HostsOk
      <3>3. ~(Cardinality(before) < HostTries)
        BY <3>1, <3>2 DEF Vetted, Budget
      <3>4. before = {j \in 1 .. (k - 1) : kept.offered[j].clean}
        BY <1>1 DEF Vettable
      <3>5. Cardinality(before) \in Nat
        <4>1. k - 1 \in Int
          BY <1>1
        <4>2. IsFiniteSet(1 .. (k - 1))
          BY <4>1, FS_Interval
        <4> QED
          BY <3>4, <4>2, FS_Subset, FS_CardinalityType
      <3>6. HostTries \in Nat
        BY AdaptersAssumption
      <3> HIDE DEF before
      <3> QED
        BY <3>3, <3>4, <3>5, <3>6
    <2> QED
      BY <1>1, <1>2, <2>1, RepliesGood, PlainReplies
  <1>3. ASSUME NEW k \in kept.left, kept.offered[k].link = "dead",
               Tries("hosts", <<>>, [kept EXCEPT !.left = kept.left \ {k}])
        PROVE  CallStep
    <2> DEFINE K == [kept EXCEPT !.left = kept.left \ {k}]
    <2>1. K = [offered |-> kept.offered, left |-> kept.left \ {k}]
      <3>1. \A a, b, c : [[offered |-> a, left |-> b] EXCEPT !.left = c] = [offered |-> a, left |-> c]
        OBVIOUS
      <3> QED
        BY <1>1, <3>1
    <2>2. HostsOk("hosts", K)
      BY <1>1, <1>3, <2>1 DEF HostsOk
    <2>3. StageOk("hosts", <<>>, K)
      BY <2>2 DEF StageOk, ReadOk, BisectOk, CuesOk
    <2>4. Tries("hosts", <<>>, K)
      BY <1>3
    <2> HIDE DEF K
    <2> QED
      BY <1>1, <2>3, <2>4, TriesGood
  <1>4. CASE Replies([kind |-> "link", sub |-> 0])
    BY <1>1, <1>4, RepliesGood, PlainReplies
  <1>5. CASE Tries("cap", <<>>, <<>>)
    BY <1>1, <1>5, FreeStages, TriesGood
  <1> QED
    BY <1>2, <1>3, <1>4, <1>5 DEF HostTry

LEMMA TracksGood ==
    ASSUME CallInv, CapVariant \/ Sidecar
    PROVE  CallStep
  <1>1. stage # "done" /\ stage # "hosts"
    BY DEF CapVariant, Sidecar
  <1>2. CASE \E s \in {0, 1} : Replies([kind |-> "link", sub |-> s])
    BY <1>1, <1>2, RepliesGood, PlainReplies
  <1>3. CASE \E q, k : Tries("sidecar", q, k)
    BY <1>1, <1>3, FreeStages, TriesGood
  <1> QED
    BY <1>2, <1>3 DEF CapVariant, Sidecar

LEMMA SourcesGood ==
    ASSUME CallInv, FollowSource \/ Probes
    PROVE  CallStep
  <1>1. stage # "done" /\ stage # "hosts"
    BY DEF FollowSource, Probes
  <1>2. ASSUME NEW r, Replies(r), HonestReply(r)
        PROVE  CallStep
    BY <1>1, <1>2, RepliesGood
  <1>3. ASSUME NEW s \in {"probe", "sources"}, NEW q, NEW k, Tries(s, q, k)
        PROVE  CallStep
    BY <1>1, <1>3, FreeStages, TriesGood
  <1>4. CASE FollowSource
    <2>1. CASE candidates = <<>>
      BY <1>2, <1>4, <2>1, PlainReplies DEF FollowSource
    <2>2. CASE candidates # <<>>
      BY <1>3, <1>4, <2>2 DEF FollowSource
    <2> QED
      BY <2>1, <2>2
  <1>5. CASE Probes
    <2>1. CASE candidates = <<>>
      BY <1>2, <1>5, <2>1, PlainReplies DEF Probes
    <2>2. CASE candidates # <<>>
      <3>1. CASE Replies(Errs("forbidden"))
        BY <1>2, <3>1, PlainReplies
      <3>2. ASSUME NEW found \in {"ids", "none"}, Tries("probe", Tail(candidates), Append(kept, found))
            PROVE  CallStep
        BY <1>3, <3>2
      <3> QED
        BY <1>5, <2>2, <3>1, <3>2 DEF Probes
    <2> QED
      BY <2>1, <2>2
  <1> QED
    BY <1>4, <1>5

LEMMA CuesGood ==
    ASSUME CallInv, CueProbe
    PROVE  CallStep
  <1> DEFINE best == kept.best
             cues == kept.cues
  <1>1. /\ stage = "cues" /\ kept = [best |-> best, cues |-> cues] /\ cues \in [1 .. 3 -> Nat]
        /\ \/ best = 0 /\ candidates = <<1, 2, 3>>
           \/ best = 1 /\ candidates \in {<<2, 3>>, << 3 >>, <<>>}
           \/ best \in {2, 3} /\ candidates \in {<< 3 >>, <<>>} /\ cues[best] > cues[1]
    BY DEF CueProbe, CallInv, StageOk, CuesOk
  <1>2. ASSUME NEW b, NEW q, Tries("cues", q, [best |-> b, cues |-> cues]),
               \/ b = 1 /\ q \in {<<2, 3>>, << 3 >>, <<>>}
               \/ b \in {2, 3} /\ q \in {<< 3 >>, <<>>} /\ cues[b] > cues[1]
        PROVE  CallStep
    <2>1. CuesOk("cues", q, [best |-> b, cues |-> cues])
      BY <1>1, <1>2 DEF CuesOk
    <2>2. StageOk("cues", q, [best |-> b, cues |-> cues])
      BY <2>1 DEF StageOk, ReadOk, BisectOk, HostsOk
    <2> QED
      BY <1>1, <1>2, <2>2, TriesGood
  <1>3. /\ Tail(<<1, 2, 3>>) = <<2, 3>> /\ Tail(<<2, 3>>) = << 3 >> /\ Tail(<< 3 >>) = <<>>
        /\ Head(<<1, 2, 3>>) = 1 /\ Head(<<2, 3>>) = 2 /\ Head(<< 3 >>) = 3
        /\ <<1, 2, 3>> # <<>>
    OBVIOUS
  <1>4. CASE candidates = <<>>
    <2> DEFINE r == [kind |-> "link", sub |-> best, cues |-> cues]
    <2>1. best \in {1, 2, 3} /\ (best # 1 => cues[best] > cues[1])
      BY <1>1, <1>3, <1>4
    <2>2. Replies(r)
      BY <1>4, <2>1 DEF CueProbe
    <2>3. HonestReply(r)
      BY <2>1 DEF HonestReply, NotStocked
    <2> HIDE DEF r
    <2> QED
      BY <1>1, <2>2, <2>3, RepliesGood
  <1>5. CASE candidates # <<>> /\ best = 0
    <2>1. candidates = <<1, 2, 3>>
      BY <1>1, <1>5
    <2>2. CASE Replies([kind |-> "link", sub |-> 1, cues |-> cues])
      BY <1>1, <2>2, RepliesGood, PlainReplies
    <2>3. CASE Tries("cues", Tail(candidates), [kept EXCEPT !.best = Head(candidates)])
      <3>1. [kept EXCEPT !.best = Head(candidates)] = [best |-> 1, cues |-> cues] /\ Tail(candidates) = <<2, 3>>
        BY <1>1, <1>3, <2>1
      <3> QED
        BY <1>2, <2>3, <3>1
    <2> QED
      BY <1>5, <2>2, <2>3 DEF CueProbe
  <1>6. CASE candidates # <<>> /\ best # 0
    <2>1. \/ candidates = <<2, 3>> /\ Tail(candidates) = <<3>> /\ Head(candidates) = 2 /\ best = 1
          \/ /\ candidates = <<3>> /\ Tail(candidates) = <<>> /\ Head(candidates) = 3
             /\ best \in {1, 2, 3} /\ (best # 1 => cues[best] > cues[1])
      BY <1>1, <1>3, <1>6
    <2>2. CASE Tries("cues", Tail(candidates), kept)
      BY <1>1, <1>2, <2>1, <2>2
    <2>3. CASE Tries("cues", Tail(candidates),
                     IF Better(cues[Head(candidates)], cues[best])
                     THEN [kept EXCEPT !.best = Head(candidates)] ELSE kept)
      <3>1. CASE ~Better(cues[Head(candidates)], cues[best])
        BY <2>2, <2>3, <3>1
      <3>2. CASE Better(cues[Head(candidates)], cues[best])
        <4>1. [kept EXCEPT !.best = Head(candidates)] = [best |-> Head(candidates), cues |-> cues]
          BY <1>1
        <4>2. cues[Head(candidates)] > cues[1] /\ Head(candidates) \in {2, 3}
          BY <1>1, <2>1, <3>2 DEF Better
        <4>3. Tries("cues", Tail(candidates), [best |-> Head(candidates), cues |-> cues])
          BY <2>3, <3>2, <4>1
        <4>4. Tail(candidates) \in {<< 3 >>, <<>>}
          BY <2>1
        <4>5. \/ Head(candidates) = 1 /\ Tail(candidates) \in {<<2, 3>>, << 3 >>, <<>>}
              \/ Head(candidates) \in {2, 3} /\ Tail(candidates) \in {<< 3 >>, <<>>} /\ cues[Head(candidates)] > cues[1]
          BY <4>2, <4>4
        <4> QED
          BY <1>2, <4>3, <4>5
      <3> QED
        BY <3>1, <3>2
    <2> QED
      BY <1>6, <2>2, <2>3 DEF CueProbe
  <1> QED
    BY <1>4, <1>5, <1>6

LEMMA CallInitGood ==
    ASSUME AdaptersInit
    PROVE  CallInv
  <1>1. SiteTypes
    BY DEF AdaptersInit, SiteTypes
  <1>2. call.who = "anineko" /\ call.op = "search" => candidates = <<"search">>
    BY DEF AdaptersInit, Needed, Documents, AninekoReads, Reads
  <1>3. StageOk(stage, candidates, kept)
    BY <1>2 DEF AdaptersInit, StageOk, ReadOk, BisectOk, HostsOk, CuesOk
  <1>4. HonestReply(reply)
    BY DEF AdaptersInit, HonestReply, NotStocked, Unanswered
  <1> QED
    BY <1>1, <1>3, <1>4 DEF AdaptersInit, CallInv

LEMMA AnsweredGood ==
    ASSUME CallInv, [Answered]_adapterVars
    PROVE  CallStep
  <1>1. CASE UNCHANGED adapterVars
    BY <1>1 DEF adapterVars, CallStep, CallInv, SiteTypes, StageOk, ReadOk, BisectOk, HostsOk, CuesOk, HonestReply,
                DubIsPrefix, Unanswered
  <1>2. CASE Answered
    BY <1>2, DocumentsGood, ReadsGood, StreamGood, BisectGood, HostsGood, TracksGood, SourcesGood, CuesGood DEF Answered
  <1> QED
    BY <1>1, <1>2

\* An answer of a provider says what its site says: an absence is never read from a
\* failure, a dub listing ends at a dubbed episode, a track of captions yields only to
\* a better one, and a working embed is missed only behind HostTries others; for any
\* number of episodes, hosts and tries (src/providers/*.rs).
THEOREM CallsAreHonest == AdaptersSpec => CallsHonest
  <1>1. AdaptersInit => CallInv
    BY CallInitGood
  <1>2. CallInv /\ [Answered]_adapterVars => CallInv'
    BY AnsweredGood DEF CallStep
  <1>3. CallInv => AbsenceHonest /\ DubBoundary /\ CuesNeverWorse
    BY DEF CallInv, HonestReply, AbsenceHonest, DubBoundary, CuesNeverWorse
  <1>4. CallInv /\ [Answered]_adapterVars =>
          [stage = "hosts" /\ call.who = "anineko" /\ reply'.kind = "err" =>
              \A k \in DOMAIN kept.offered :
                  kept.offered[k] = [clean |-> TRUE, link |-> "live"] =>
                      Cardinality({j \in 1 .. (k - 1) : kept.offered[j].clean}) >= HostTries]_adapterVars
    BY AnsweredGood DEF CallStep, HostsSpent
  <1> QED
    BY <1>1, <1>2, <1>3, <1>4, PTL DEF AdaptersSpec, CallsHonest, HostsServe

-----------------------------------------------------------------------------
(***************************************************************************)
(* The connection of the relay.                                            *)
(***************************************************************************)
\* One redirect, or the same url again.
Followed(w, u) == IF Webs[w][u].kind = "moved" THEN Resolves(u, Webs[w][u].to) ELSE u

LEMMA FollowedUrl ==
    ASSUME NEW w \in DOMAIN Webs, NEW u \in Urls
    PROVE  Followed(w, u) \in Urls
  BY WebsAssumption DEF Followed

\* Over plain references the relay and a player agree.
LEMMA ResolvedPlainly ==
    ASSUME NEW w \in DOMAIN Webs, NEW u \in Urls, Plain(w)
    PROVE  /\ Webs[w][u].kind = "moved" => Followed(w, u) = Join(u, Webs[w][u].to)
           /\ Webs[w][u].kind = "playlist" =>
                  {Resolves(u, l.ref) : l \in {k \in ToSet(Webs[w][u].lines) : k.ref.kind # "inline"}}
                      = {Join(u, l.ref) : l \in ToSet(Webs[w][u].lines)}
  <1>1. Webs[w][u].kind = "moved" => Webs[w][u].to.kind # "network"
    BY DEF Plain
  <1>2. Webs[w][u].kind = "playlist" =>
            \A l \in ToSet(Webs[w][u].lines) : l.ref.kind # "inline" /\ l.ref.kind # "network"
    BY DEF Plain
  <1>3. ASSUME Webs[w][u].kind = "playlist"
        PROVE  {Resolves(u, l.ref) : l \in {k \in ToSet(Webs[w][u].lines) : k.ref.kind # "inline"}}
                   = {Join(u, l.ref) : l \in ToSet(Webs[w][u].lines)}
    <2>1. \A l \in ToSet(Webs[w][u].lines) : l.ref.kind # "inline" /\ Resolves(u, l.ref) = Join(u, l.ref)
      BY <1>2, <1>3 DEF Resolves
    <2>2. {k \in ToSet(Webs[w][u].lines) : k.ref.kind # "inline"} = ToSet(Webs[w][u].lines)
      BY <2>1
    <2> QED
      BY <2>1, <2>2
  <1> QED
    BY <1>1, <1>3 DEF Followed, Resolves

\* The chain goes one redirect at a time, through urls.
LEMMA ChainsStepwise ==
    ASSUME NEW w \in DOMAIN Webs, NEW u \in Urls
    PROVE  /\ Chain(w, u) \in [0 .. MaxRedirects -> Urls]
           /\ Chain(w, u)[0] = u
           /\ \A n \in 1 .. MaxRedirects : Chain(w, u)[n] = Followed(w, Chain(w, u)[n - 1])
  <1> DEFINE N == MaxRedirects
             step == [n \in 1 .. N |-> [v \in Urls |-> Followed(w, v)]]
  <1>1. N \in Nat
    BY RelayAssumption
  <1>2. step \in StepFunctions(N, Urls)
    BY FollowedUrl DEF StepFunctions
  <1>3. \A n \in 1 .. N, v \in Urls : step[n][v] = Followed(w, v)
    OBVIOUS
  <1> HIDE DEF step, N
  <1>4. PICK f \in [0 .. N -> Urls] : MadeUpTo(N, f, u, step)
    BY <1>1, <1>2, Recursion
  <1>5. ASSUME NEW n \in 0 .. N
        PROVE  (IF n = 0 THEN u ELSE step[n][f[n - 1]]) = (IF n = 0 THEN u ELSE Followed(w, f[n - 1]))
    <2>1. CASE n # 0
      <3>1. n \in 1 .. N /\ n - 1 \in 0 .. N
        BY <1>1, <2>1
      <3>2. f[n - 1] \in Urls
        BY <3>1
      <3> QED
        BY <1>3, <2>1, <3>1, <3>2
    <2> QED
      BY <2>1
  <1>6. f = [n \in 0 .. N |-> IF n = 0 THEN u ELSE Followed(w, f[n - 1])]
    BY <1>4, <1>5 DEF MadeUpTo
  <1> DEFINE Made(g) == g = [n \in 0 .. N |-> IF n = 0 THEN u ELSE Followed(w, g[n - 1])]
  <1>7. Chain(w, u) = CHOOSE g : Made(g)
    BY DEF Chain, N, Followed
  <1>8. Made(f)
    BY <1>6
  <1> HIDE DEF Made
  <1>9. Made(Chain(w, u))
    BY <1>7, <1>8
  <1> DEFINE chain == Chain(w, u)
  <1>10. chain = [n \in 0 .. N |-> IF n = 0 THEN u ELSE Followed(w, chain[n - 1])]
    BY <1>9 DEF Made
  <1> HIDE DEF chain
  <1>11. chain[0] = u /\ \A n \in 1 .. N : chain[n] = Followed(w, chain[n - 1])
    <2>1. 0 \in 0 .. N /\ \A n \in 1 .. N : n \in 0 .. N /\ n # 0
      BY <1>1
    <2> QED
      BY <1>10, <2>1
  <1> DEFINE T == {n \in 0 .. N : chain[n] \in Urls}
  <1>12. 0 \in T
    BY <1>1, <1>11
  <1>13. ASSUME NEW n \in 0 .. (N - 1), n \in T
         PROVE  n + 1 \in T
    <2>1. n + 1 \in 1 .. N /\ (n + 1) - 1 = n /\ n + 1 \in 0 .. N
      BY <1>1
    <2>2. chain[n] \in Urls
      BY <1>13
    <2>3. Followed(w, chain[n]) \in Urls
      BY <2>2, FollowedUrl
    <2> QED
      BY <1>11, <2>1, <2>3
  <1> HIDE DEF T
  <1>14. 0 .. N \subseteq T
    BY <1>1, <1>12, <1>13, ReachedUpTo
  <1>15. chain \in [0 .. N -> Urls]
    BY <1>10, <1>14 DEF T
  <1> QED
    BY <1>11, <1>15 DEF chain, N

\* A url that moves no further is where the chain ends.
LEMMA ChainEnds ==
    ASSUME NEW w \in DOMAIN Webs, NEW u \in Urls, NEW n \in 0 .. MaxRedirects,
           Webs[w][Chain(w, u)[n]].kind # "moved"
    PROVE  Final(w, u) = Chain(w, u)[n]
  <1> DEFINE N == MaxRedirects
             chain == Chain(w, u)
             T == {k \in 0 .. N : k >= n => chain[k] = chain[n]}
  <1>1. N \in Nat
    BY RelayAssumption
  <1>2. \A k \in 1 .. N : chain[k] = Followed(w, chain[k - 1])
    BY ChainsStepwise
  <1>3. Followed(w, chain[n]) = chain[n]
    BY DEF Followed
  <1> HIDE DEF chain, N
  <1>4. n \in 0 .. N
    BY DEF N
  <1>5. 0 \in T
    BY <1>1, <1>4
  <1>6. ASSUME NEW k \in 0 .. (N - 1), k \in T
        PROVE  k + 1 \in T
    <2>1. k + 1 \in 1 .. N /\ (k + 1) - 1 = k /\ k + 1 \in 0 .. N
      BY <1>1
    <2>2. chain[k + 1] = Followed(w, chain[k])
      BY <1>2, <2>1
    <2>3. CASE k >= n
      BY <1>3, <1>6, <2>1, <2>2, <2>3
    <2>4. CASE ~(k >= n)
      <3>1. k + 1 >= n => k + 1 = n
        BY <1>4, <2>4
      <3> QED
        BY <2>1, <3>1
    <2> QED
      BY <2>3, <2>4
  <1> HIDE DEF T
  <1>7. 0 .. N \subseteq T
    BY <1>1, <1>5, <1>6, ReachedUpTo
  <1>8. N \in T
    BY <1>1, <1>7
  <1>9. N >= n
    BY <1>1, <1>4
  <1> QED
    BY <1>8, <1>9 DEF T, Final, chain, N

LEMMA LeadsAreUrls ==
    ASSUME NEW w \in DOMAIN Webs, NEW u \in Urls
    PROVE  Leads(w, u) \subseteq Urls
  <1>1. Final(w, u) \in Urls
    BY RelayAssumption, ChainsStepwise DEF Final
  <1>2. Webs[w][Final(w, u)].kind = "playlist" =>
            \A l \in ToSet(Webs[w][Final(w, u)].lines) : Resolves(Final(w, u), l.ref) \in Urls
    BY <1>1, WebsAssumption
  <1> QED
    BY <1>2 DEF Leads

Further(w, us) == us \cup UNION {Leads(w, u) : u \in us}

LEMMA FurtherUrls ==
    ASSUME NEW w \in DOMAIN Webs, NEW us \in SUBSET Urls
    PROVE  Further(w, us) \in SUBSET Urls
  BY LeadsAreUrls DEF Further

\* What one can be led to grows request by request.
LEMMA LedStepwise ==
    ASSUME NEW w \in DOMAIN Webs, NEW start \in Urls
    PROVE  /\ Led(w, start) \in [0 .. MaxAsks -> SUBSET Urls]
           /\ Led(w, start)[0] = {start}
           /\ \A n \in 1 .. MaxAsks : Led(w, start)[n] = Further(w, Led(w, start)[n - 1])
  <1> DEFINE N == MaxAsks
             S == SUBSET Urls
             base == {start}
             step == [n \in 1 .. N |-> [us \in S |-> Further(w, us)]]
  <1>1. N \in Nat
    BY RelayAssumption
  <1>2. step \in StepFunctions(N, S)
    BY FurtherUrls DEF StepFunctions
  <1>2a. base \in S
    OBVIOUS
  <1>2b. \A us \in S : Further(w, us) \in S
    BY FurtherUrls
  <1>3. \A n \in 1 .. N, us \in S : step[n][us] = Further(w, us)
    OBVIOUS
  <1> HIDE DEF step, N, S, base
  <1>4. PICK f \in [0 .. N -> S] : MadeUpTo(N, f, base, step)
    BY <1>1, <1>2, <1>2a, Recursion
  <1>5. ASSUME NEW n \in 0 .. N
        PROVE  (IF n = 0 THEN base ELSE step[n][f[n - 1]]) = (IF n = 0 THEN base ELSE Further(w, f[n - 1]))
    <2>1. CASE n # 0
      <3>1. n \in 1 .. N /\ n - 1 \in 0 .. N
        BY <1>1, <2>1
      <3>2. f[n - 1] \in S
        BY <3>1
      <3> QED
        BY <1>3, <2>1, <3>1, <3>2
    <2> QED
      BY <2>1
  <1>6. f = [n \in 0 .. N |-> IF n = 0 THEN base ELSE Further(w, f[n - 1])]
    BY <1>4, <1>5 DEF MadeUpTo
  <1> DEFINE Made(g) == g = [n \in 0 .. N |-> IF n = 0 THEN base ELSE Further(w, g[n - 1])]
  <1>7. Led(w, start) = CHOOSE g : Made(g)
    BY DEF Led, N, Further, base
  <1>8. Made(f)
    BY <1>6
  <1> HIDE DEF Made
  <1>9. Made(Led(w, start))
    BY <1>7, <1>8
  <1> DEFINE led == Led(w, start)
  <1>10. led = [n \in 0 .. N |-> IF n = 0 THEN base ELSE Further(w, led[n - 1])]
    BY <1>9 DEF Made
  <1> HIDE DEF led
  <1>11. led[0] = base /\ \A n \in 1 .. N : led[n] = Further(w, led[n - 1])
    <2>1. 0 \in 0 .. N /\ \A n \in 1 .. N : n \in 0 .. N /\ n # 0
      BY <1>1
    <2> QED
      BY <1>10, <2>1
  <1> DEFINE T == {n \in 0 .. N : led[n] \in S}
  <1>12. 0 \in T
    BY <1>1, <1>2a, <1>11
  <1>13. ASSUME NEW n \in 0 .. (N - 1), n \in T
         PROVE  n + 1 \in T
    <2>1. n + 1 \in 1 .. N /\ (n + 1) - 1 = n /\ n + 1 \in 0 .. N
      BY <1>1
    <2>2. led[n] \in S
      BY <1>13
    <2>3. Further(w, led[n]) \in S
      BY <1>2b, <2>2
    <2> QED
      BY <1>11, <2>1, <2>3
  <1> HIDE DEF T
  <1>14. 0 .. N \subseteq T
    BY <1>1, <1>12, <1>13, ReachedUpTo
  <1>15. led \in [0 .. N -> S]
    BY <1>10, <1>14 DEF T
  <1> QED
    BY <1>11, <1>15 DEF led, N, S, base
\* The invariant: what mpv knows it was led to, and the hop of a request stands on the
\* chain of the url it asked for.
RelayTypes ==
    /\ RelayTypeOK /\ web \in DOMAIN Webs /\ link \in Urls /\ known \subseteq Urls

OnChain ==
    line = "busy" => /\ asks >= 1 /\ upstream \in Urls /\ hop \in Urls
                     /\ Plain(web) => /\ upstream \in Led(web, link)[asks - 1]
                                      /\ hop = Chain(web, upstream)[hops]

\* What came is a decoy and packets, and went out without the decoy.
Unwrapped ==
    sent.was # <<>> => /\ sent.was.decoy \in Decoys /\ sent.was.packets \in Nat
                       /\ sent.body = Decloaked(sent.was.decoy \o Packets(sent.was.packets))

RelayInv == RelayTypes /\ LedTruly /\ OnChain /\ NothingAside /\ EveryHopVetted /\ Unwrapped

LEMMA LedGrows ==
    ASSUME NEW w \in DOMAIN Webs, NEW start \in Urls, NEW n \in 0 .. (MaxAsks - 1)
    PROVE  /\ Led(w, start)[n] \subseteq Led(w, start)[n + 1]
           /\ \A u \in Led(w, start)[n] : Leads(w, u) \subseteq Led(w, start)[n + 1]
           /\ Led(w, start)[n] \subseteq Urls
  <1> DEFINE led == Led(w, start)
  <1>1. n \in 0 .. MaxAsks /\ n + 1 \in 1 .. MaxAsks /\ (n + 1) - 1 = n
    BY RelayAssumption
  <1>1a. /\ led \in [0 .. MaxAsks -> SUBSET Urls]
         /\ \A k \in 1 .. MaxAsks : led[k] = Further(w, led[k - 1])
    BY LedStepwise
  <1> HIDE DEF led
  <1>2. led[n + 1] = Further(w, led[n]) /\ led[n] \in SUBSET Urls
    BY <1>1, <1>1a
  <1>3. led[n + 1] = led[n] \cup UNION {Leads(w, u) : u \in led[n]}
    BY <1>2 DEF Further
  <1>4. \A u \in led[n] : Leads(w, u) \subseteq UNION {Leads(w, v) : v \in led[n]}
    OBVIOUS
  <1> QED
    BY <1>2, <1>3, <1>4 DEF led

LEMMA RelayInitGood ==
    ASSUME RelayInit
    PROVE  RelayInv
  <1>1. web \in DOMAIN Webs /\ link \in Urls /\ asks = 0 /\ known = {link} /\ line = "none"
    BY RelayAssumption DEF RelayInit
  <1>2. RelayTypes
    BY <1>1, RelayAssumption DEF RelayInit, RelayTypes, RelayTypeOK, NoAnswer
  <1>3. LedTruly
    <2>1. web \in DOMAIN Webs /\ link \in Urls
      BY <1>1
    <2>2. Led(web, link)[0] = {link}
      BY ONLY <2>1, LedStepwise
    <2> QED
      BY <1>1, <2>2 DEF LedTruly
  <1>4. OnChain /\ NothingAside /\ EveryHopVetted /\ Unwrapped
    BY <1>1 DEF RelayInit, OnChain, NothingAside, EveryHopVetted, Unwrapped, NoAnswer
  <1> QED
    BY <1>2, <1>3, <1>4 DEF RelayInv

\* A request that is not answered with content.
LEMMA ClosingGood ==
    ASSUME RelayInv, NEW status \in {404, 502}, Closes(status), asks' \in 0 .. MaxAsks, asks' \in {asks, asks + 1},
           web' = web, link' = link, known' = known, direct' = direct, \A u \in reached' : Admits(u)
    PROVE  RelayInv'
  <1>1. /\ line' = "none" /\ hops' = 0 /\ waited' = 0 /\ sent' = [NoAnswer EXCEPT !.status = status]
    BY DEF Closes, Rest
  <1>2. sent' = [status |-> status, was |-> <<>>, body |-> <<>>]
    BY <1>1 DEF NoAnswer
  <1>3. sent'.status = status /\ sent'.was = <<>>
    BY <1>2
  <1>4. RelayTypes'
    BY <1>1, <1>3, RelayAssumption DEF RelayInv, RelayTypes, RelayTypeOK
  <1>5. LedTruly'
    <2>1. web \in DOMAIN Webs /\ link \in Urls /\ asks \in 0 .. MaxAsks
      BY DEF RelayInv, RelayTypes, RelayTypeOK
    <2>2. Plain(web) => known \subseteq Led(web, link)[asks]
      BY DEF RelayInv, LedTruly
    <2>3. asks' = asks + 1 => Led(web, link)[asks] \subseteq Led(web, link)[asks + 1]
      <3>1. asks' = asks + 1 => asks \in 0 .. (MaxAsks - 1)
        BY <2>1, RelayAssumption
      <3> QED
        BY <2>1, <3>1, LedGrows
    <2> QED
      BY <2>2, <2>3 DEF LedTruly
  <1>6. OnChain' /\ NothingAside' /\ EveryHopVetted' /\ Unwrapped'
    BY <1>1, <1>3 DEF RelayInv, OnChain, NothingAside, EveryHopVetted, Unwrapped
  <1> QED
    BY <1>4, <1>5, <1>6 DEF RelayInv

LEMMA QuietGood ==
    ASSUME RelayInv, Connects \/ Dropped \/ Waits \/ UNCHANGED relayVars
    PROVE  RelayInv'
  <1>1. /\ UNCHANGED <<web, link, known, direct, reached, sent, asks, upstream, hop, hops>>
        /\ line' \in {"none", "idle", "busy"} /\ (line' = "busy" => line = "busy")
        /\ waited' \in 0 .. FetchTicks /\ (line' # "busy" => waited' = waited)
    BY RelayAssumption DEF Connects, Dropped, Waits, relayVars, RelayInv, RelayTypes, RelayTypeOK
  <1>2. RelayTypes'
    BY <1>1 DEF RelayInv, RelayTypes, RelayTypeOK, Connects, Dropped, Waits, relayVars
  <1>3. LedTruly' /\ OnChain' /\ NothingAside' /\ EveryHopVetted' /\ Unwrapped'
    BY <1>1 DEF RelayInv, LedTruly, OnChain, NothingAside, EveryHopVetted, Unwrapped
  <1> QED
    BY <1>2, <1>3 DEF RelayInv

LEMMA AsksGood ==
    ASSUME RelayInv, NEW u \in known, Asks(u)
    PROVE  RelayInv'
  <1>1. /\ asks < MaxAsks /\ asks' = asks + 1 /\ line' = "busy" /\ upstream' = u /\ hop' = u
        /\ hops' = 0 /\ waited' = 0 /\ sent' = NoAnswer
        /\ UNCHANGED <<web, link, known, direct, reached>>
    BY DEF Asks, Rest
  <1>2. /\ web \in DOMAIN Webs /\ link \in Urls /\ asks \in 0 .. MaxAsks /\ known \subseteq Urls
        /\ Plain(web) => known \subseteq Led(web, link)[asks]
    BY DEF RelayInv, RelayTypes, RelayTypeOK, LedTruly
  <1>3. asks \in 0 .. (MaxAsks - 1) /\ asks + 1 \in 0 .. MaxAsks /\ (asks + 1) - 1 = asks /\ asks + 1 >= 1
    BY <1>1, <1>2, RelayAssumption
  <1>4. Led(web, link)[asks] \subseteq Led(web, link)[asks + 1]
    BY <1>2, <1>3, LedGrows
  <1>5. Chain(web, u)[0] = u
    BY <1>2, ChainsStepwise
  <1>6. RelayTypes'
    BY <1>1, <1>3, RelayAssumption DEF RelayInv, RelayTypes, RelayTypeOK, NoAnswer
  <1>7. LedTruly'
    BY <1>1, <1>2, <1>4 DEF LedTruly
  <1>8. OnChain'
    BY <1>1, <1>2, <1>3, <1>5 DEF OnChain
  <1>9. NothingAside' /\ EveryHopVetted' /\ Unwrapped'
    BY <1>1 DEF RelayInv, NothingAside, EveryHopVetted, Unwrapped, NoAnswer
  <1> QED
    BY <1>6, <1>7, <1>8, <1>9 DEF RelayInv

\* A vetted hop on the chain.
LEMMA HeardAt ==
    ASSUME RelayInv, NEW kinds, Heard(kinds)
    PROVE  /\ line = "busy" /\ Webs[web][hop].kind \in kinds
           /\ \A u \in reached' : Admits(u)
           /\ web \in DOMAIN Webs /\ link \in Urls /\ asks \in 1 .. MaxAsks /\ asks - 1 \in 0 .. (MaxAsks - 1)
           /\ hops \in 0 .. MaxRedirects /\ upstream \in Urls /\ hop \in Urls
           /\ Plain(web) => upstream \in Led(web, link)[asks - 1] /\ hop = Chain(web, upstream)[hops]
  <1>1. line = "busy" /\ Webs[web][hop].kind \in kinds
    BY DEF Heard, Found
  <1>2. \A u \in reached' : Admits(u)
    BY DEF Heard, HopVetted, RelayInv, EveryHopVetted
  <1>3. /\ web \in DOMAIN Webs /\ link \in Urls /\ asks \in 0 .. MaxAsks /\ hops \in 0 .. MaxRedirects
        /\ asks >= 1 /\ upstream \in Urls /\ hop \in Urls
        /\ Plain(web) => upstream \in Led(web, link)[asks - 1] /\ hop = Chain(web, upstream)[hops]
    BY <1>1 DEF RelayInv, RelayTypes, RelayTypeOK, OnChain
  <1>4. asks \in 1 .. MaxAsks /\ asks - 1 \in 0 .. (MaxAsks - 1)
    BY <1>3, RelayAssumption
  <1> QED
    BY <1>1, <1>2, <1>3, <1>4

LEMMA RedirectedGood ==
    ASSUME RelayInv, Redirected
    PROVE  RelayInv'
  <1>1. Heard({"moved"}) /\ UNCHANGED <<web, link, upstream, known, direct, asks>>
    BY DEF Redirected
  <1>2. /\ line = "busy" /\ Webs[web][hop].kind = "moved" /\ \A u \in reached' : Admits(u)
        /\ web \in DOMAIN Webs /\ link \in Urls /\ asks \in 1 .. MaxAsks
        /\ hops \in 0 .. MaxRedirects /\ upstream \in Urls /\ hop \in Urls
        /\ Plain(web) => upstream \in Led(web, link)[asks - 1] /\ hop = Chain(web, upstream)[hops]
    BY <1>1, HeardAt
  <1>3. CASE hops >= MaxRedirects
    <2>1. Closes(502)
      BY <1>3 DEF Redirected
    <2>2. asks' \in 0 .. MaxAsks /\ asks' \in {asks, asks + 1}
      BY <1>1, <1>2
    <2> QED
      BY <1>1, <1>2, <2>1, <2>2, ClosingGood
  <1>4. CASE ~(hops >= MaxRedirects)
    <2>1. hops' = hops + 1 /\ hop' = Join(hop, Webs[web][hop].to) /\ UNCHANGED <<line, waited, sent>>
      BY <1>4 DEF Redirected, Found
    <2>2. hops + 1 \in 1 .. MaxRedirects /\ (hops + 1) - 1 = hops /\ hops + 1 \in 0 .. MaxRedirects
      BY <1>2, <1>4, RelayAssumption
    <2>3. Chain(web, upstream)[hops + 1] = Followed(web, Chain(web, upstream)[hops])
      BY <1>2, <2>2, ChainsStepwise
    <2>8. Plain(web) => Followed(web, hop) = hop'
      BY <1>2, <2>1, ResolvedPlainly
    <2>4. Plain(web) => hop' = Chain(web, upstream)[hops']
      BY <1>2, <2>1, <2>3, <2>8
    <2>9. hop' \in Urls
      BY <1>2, <2>1, WebsAssumption
    <2>5. RelayTypes'
      BY <1>1, <1>2, <2>1, <2>2 DEF RelayInv, RelayTypes, RelayTypeOK
    <2>6. LedTruly' /\ NothingAside' /\ EveryHopVetted' /\ Unwrapped'
      BY <1>1, <1>2, <2>1 DEF RelayInv, LedTruly, NothingAside, EveryHopVetted, Unwrapped
    <2>7. OnChain'
      BY <1>1, <1>2, <2>1, <2>4, <2>9 DEF OnChain
    <2> QED
      BY <2>5, <2>6, <2>7 DEF RelayInv
  <1> QED
    BY <1>3, <1>4

LEMMA ClosedGood ==
    ASSUME RelayInv, AsksStray \/ Expires \/ Refuses \/ Fails
    PROVE  RelayInv'
  <1>1. asks \in 0 .. MaxAsks /\ \A u \in reached : Admits(u)
    BY DEF RelayInv, RelayTypes, RelayTypeOK, EveryHopVetted
  <1>2. CASE AsksStray
    <2>1. PICK status \in {404, 502} : Closes(status)
      BY <1>2 DEF AsksStray
    <2>2. asks' = asks + 1 /\ asks' \in 0 .. MaxAsks /\ UNCHANGED <<web, link, known, direct, reached>>
      BY <1>1, <1>2, RelayAssumption DEF AsksStray
    <2> QED
      BY <1>1, <2>1, <2>2, ClosingGood
  <1>3. CASE Expires \/ Refuses
    <2>1. Closes(502) /\ UNCHANGED <<web, link, known, direct, reached, asks>>
      BY <1>3 DEF Expires, Refuses
    <2> QED
      BY <1>1, <2>1, ClosingGood
  <1>4. CASE Fails
    <2>1. /\ Closes(502) /\ UNCHANGED <<web, link, known, direct, asks>>
          /\ Heard({"moved", "playlist", "media", "gone"})
      BY <1>4 DEF Fails
    <2>2. \A u \in reached' : Admits(u)
      BY <2>1, HeardAt
    <2> QED
      BY <1>1, <2>1, <2>2, ClosingGood
  <1> QED
    BY <1>2, <1>3, <1>4

LEMMA PlaylistGood ==
    ASSUME RelayInv, RelaysPlaylist
    PROVE  RelayInv'
  <1>1. /\ Heard({"playlist"}) /\ RelayReplies(<<>>, <<>>)
        /\ known' = known \cup {Join(hop, l.ref) : l \in ToSet(Webs[web][hop].lines)}
        /\ direct' = direct \cup (ToSet(Webs[web][hop].lines) \ ToSet(Webs[web][hop].lines))
    BY DEF RelaysPlaylist, Rewritten, Base, Found
  <1>2. /\ line = "busy" /\ Webs[web][hop].kind = "playlist" /\ \A u \in reached' : Admits(u)
        /\ web \in DOMAIN Webs /\ link \in Urls /\ asks \in 1 .. MaxAsks /\ asks - 1 \in 0 .. (MaxAsks - 1)
        /\ hops \in 0 .. MaxRedirects /\ upstream \in Urls /\ hop \in Urls
        /\ Plain(web) => upstream \in Led(web, link)[asks - 1] /\ hop = Chain(web, upstream)[hops]
    BY <1>1, HeardAt
  <1>3. /\ sent' = [status |-> 200, was |-> <<>>, body |-> <<>>] /\ line' \in {"idle", "none"}
        /\ hops' = 0 /\ waited' = 0 /\ UNCHANGED <<web, link, upstream, hop, asks>>
    BY <1>1 DEF RelayReplies, Rest
  <1>4. Plain(web) => Final(web, upstream) = hop
    BY <1>2, ChainEnds
  <1>5. ASSUME Plain(web)
        PROVE  known' = known \cup Leads(web, upstream)
    <2>1. Final(web, upstream) = hop
      BY <1>4, <1>5
    <2>2. Leads(web, upstream) =
              {Resolves(hop, l.ref) : l \in {k \in ToSet(Webs[web][hop].lines) : k.ref.kind # "inline"}}
      BY <1>2, <2>1 DEF Leads
    <2>3. {Resolves(hop, l.ref) : l \in {k \in ToSet(Webs[web][hop].lines) : k.ref.kind # "inline"}}
              = {Join(hop, l.ref) : l \in ToSet(Webs[web][hop].lines)}
      BY <1>2, <1>5, ResolvedPlainly
    <2> QED
      BY <1>1, <2>2, <2>3
  <1>6. Plain(web) => Leads(web, upstream) \subseteq Led(web, link)[asks]
    <2>1. (asks - 1) + 1 = asks
      BY <1>2
    <2> QED
      BY <1>2, <2>1, LedGrows
  <1>7. LedTruly'
    BY <1>3, <1>5, <1>6 DEF RelayInv, LedTruly
  <1>8. {Join(hop, l.ref) : l \in ToSet(Webs[web][hop].lines)} \subseteq Urls
    BY <1>2, WebsAssumption
  <1>9. RelayTypes'
    BY <1>1, <1>2, <1>3, <1>8, RelayAssumption DEF RelayInv, RelayTypes, RelayTypeOK
  <1>10. direct' = direct
    BY <1>1
  <1>11. OnChain' /\ NothingAside' /\ EveryHopVetted' /\ Unwrapped'
    BY <1>2, <1>3, <1>10 DEF RelayInv, OnChain, NothingAside, EveryHopVetted, Unwrapped
  <1> QED
    BY <1>7, <1>9, <1>11 DEF RelayInv

LEMMA MediaGood ==
    ASSUME RelayInv, RelaysMedia
    PROVE  RelayInv'
  <1>1. Heard({"media"}) /\ UNCHANGED <<known, direct>>
    BY DEF RelaysMedia
  <1>2. PICK decoy \in Decoys, n \in 0 .. MaxPackets :
            RelayReplies([decoy |-> decoy, packets |-> n], Decloaked(decoy \o Packets(n)))
    BY DEF RelaysMedia
  <1> DEFINE bytes == Decloaked(decoy \o Packets(n))
  <1>3. /\ sent' = [status |-> 200, was |-> [decoy |-> decoy, packets |-> n], body |-> bytes]
        /\ line' \in {"idle", "none"} /\ hops' = 0 /\ waited' = 0 /\ UNCHANGED <<web, link, upstream, hop, asks>>
    BY <1>2 DEF RelayReplies, Rest
  <1>4. \A u \in reached' : Admits(u)
    BY <1>1, HeardAt
  <1> HIDE DEF bytes
  <1>5. /\ sent'.status = 200 /\ sent'.was.decoy = decoy /\ sent'.was.packets = n /\ sent'.body = bytes
    BY <1>3
  <1>6. n \in Nat
    BY RelayAssumption
  <1>7. RelayTypes'
    BY <1>1, <1>3, <1>5, RelayAssumption DEF RelayInv, RelayTypes, RelayTypeOK
  <1>8. Unwrapped'
    BY <1>5, <1>6 DEF Unwrapped, bytes
  <1>9. LedTruly' /\ OnChain' /\ NothingAside' /\ EveryHopVetted'
    BY <1>1, <1>3, <1>4 DEF RelayInv, LedTruly, OnChain, NothingAside, EveryHopVetted
  <1> QED
    BY <1>7, <1>8, <1>9 DEF RelayInv

\* Three packets behind a decoy that fits the window: the packets start a triple.
LEMMA Unwraps ==
    ASSUME NEW d \in Seq({"G", "x"}), NEW n \in Nat, n >= 3, Len(d) < MaxScan
    PROVE  \/ Decloaked(d \o Packets(n)) = Packets(n)
           \/ \E i \in 1 .. Len(d) : SyncAt(d \o Packets(n), i)
  <1> DEFINE long == n * Stride
             p == Packets(n)
             bytes == d \o p
             start == Len(d) + 1
             T == Triple(bytes)
  <1>1. Stride \in Nat /\ Stride >= 2 /\ MaxScan \in Nat
    BY RelayAssumption
  <1>2. long \in Nat /\ long >= 3 * Stride
    <2>1. long \in Nat
      BY <1>1
    <2>2. n - 3 \in Nat
      OBVIOUS
    <2>3. (n - 3) * Stride \in Nat
      BY <1>1, <2>2
    <2>4. (n - 3) * Stride = n * Stride - 3 * Stride
      BY <1>1
    <2> QED
      BY <2>1, <2>3, <2>4, <1>1
  <1>3. p \in [1 .. long -> {"G", "x"}]
    BY DEF Packets
  <1>4. \A k \in 0 .. 2 : 1 + k * Stride \in 1 .. long => p[1 + k * Stride] = "G"
    <2>1. \A i \in 1 .. long : (\E k \in 0 .. (n - 1) : i = 1 + k * Stride) => p[i] = "G"
      BY DEF Packets
    <2>2. \A k \in 0 .. 2 : k \in 0 .. (n - 1)
      OBVIOUS
    <2> HIDE DEF p, long
    <2> QED
      BY <2>1, <2>2
  <1> HIDE DEF p, long
  <1>5. p \in Seq({"G", "x"}) /\ Len(p) = long
    BY <1>2, <1>3
  <1>6. /\ bytes \in Seq({"G", "x"}) /\ Len(bytes) = Len(d) + long /\ Len(d) \in Nat
        /\ \A i \in 1 .. long : bytes[Len(d) + i] = p[i]
    BY <1>2, <1>5
  <1>7. start \in T
    <2>1. start \in 1 .. (Len(bytes) - 2 * Stride) /\ start <= MaxScan
      BY <1>1, <1>2, <1>6
    <2>2. ASSUME NEW k \in 0 .. 2
          PROVE  bytes[start + k * Stride] = "G"
      <3> DEFINE off == k * Stride
      <3>1. off \in Nat /\ off <= 2 * Stride
        BY <1>1
      <3>2. 1 + off \in 1 .. long
        BY <1>1, <1>2, <3>1
      <3>3. p[1 + off] = "G"
        BY <1>4, <3>2
      <3> HIDE DEF off
      <3>4. start + off = Len(d) + (1 + off)
        BY <1>6, <3>1
      <3>5. bytes[Len(d) + (1 + off)] = p[1 + off]
        BY <1>6, <3>2
      <3>6. bytes[start + off] = "G"
        BY <3>3, <3>4, <3>5
      <3> QED
        BY <3>6 DEF off
    <2> QED
      BY <2>1, <2>2 DEF Triple, SyncAt
  <1>8. T \in SUBSET Nat
    BY DEF Triple
  <1> DEFINE First(i) == i \in T /\ \A j \in T : i <= j
             m == CHOOSE i \in T : \A j \in T : i <= j
  <1>9. First(m)
    <2>1. \E i \in T : \A j \in T : i <= j
      BY <1>7, <1>8, LeastOf
    <2> QED
      BY <2>1
  <1>10. Decloaked(bytes) = SubSeq(bytes, m, Len(bytes))
    BY <1>7 DEF Decloaked
  <1>11. m \in Nat /\ m >= 1 /\ m <= start /\ SyncAt(bytes, m)
    <2>1. m \in T /\ m <= start
      BY <1>7, <1>9
    <2> HIDE DEF m
    <2> QED
      BY <2>1 DEF Triple
  <1> HIDE DEF m, T, bytes
  <1>12. CASE m <= Len(d)
    <2>1. m \in 1 .. Len(d)
      BY <1>6, <1>11, <1>12
    <2> QED
      BY <1>11, <2>1 DEF bytes, p
  <1>13. CASE ~(m <= Len(d))
    <2>1. m = Len(d) + 1
      BY <1>6, <1>11, <1>13
    <2> DEFINE rest == SubSeq(bytes, Len(d) + 1, Len(bytes))
    <2>2. rest = [i \in 1 .. long |-> bytes[Len(d) + i]]
      <3>1. Len(d) + 1 \in 1 .. (Len(bytes) + 1) /\ Len(bytes) \in (Len(d) + 1 - 1) .. Len(bytes)
        BY <1>2, <1>6
      <3>2. /\ rest \in Seq({"G", "x"}) /\ Len(rest) = Len(bytes) - (Len(d) + 1) + 1
            /\ \A i \in 1 .. (Len(bytes) - (Len(d) + 1) + 1) : rest[i] = bytes[(Len(d) + 1) + i - 1]
        BY <1>6, <3>1, SubSeqProperties
      <3>3. \A i \in 1 .. long : (Len(d) + 1) + i - 1 = Len(d) + i
        BY <1>2, <1>6
      <3>4. Len(rest) = long
        BY <1>2, <1>6, <3>2
      <3> HIDE DEF rest
      <3> QED
        BY <1>2, <1>6, <3>2, <3>3, <3>4
    <2>3. rest = [i \in 1 .. long |-> p[i]]
      BY <1>6, <2>2
    <2>4. rest = p
      BY <1>3, <2>3
    <2> QED
      BY <1>10, <2>1, <2>4 DEF bytes, p
  <1> QED
    BY <1>12, <1>13

LEMMA RelayGood ==
    ASSUME RelayInv
    PROVE  RelayHonest /\ RelayTypeOK
  <1>1. StreamBare
    <2> SUFFICES ASSUME sent.was # <<>>, sent.was.packets >= 3, Len(sent.was.decoy) < MaxScan
                 PROVE  \/ sent.body = Packets(sent.was.packets)
                        \/ \E i \in 1 .. Len(sent.was.decoy) : SyncAt(sent.was.decoy \o Packets(sent.was.packets), i)
      BY DEF StreamBare
    <2> DEFINE d == sent.was.decoy
               n == sent.was.packets
    <2>1. d \in Seq({"G", "x"}) /\ n \in Nat /\ sent.body = Decloaked(d \o Packets(n))
      BY RelayAssumption DEF RelayInv, Unwrapped
    <2> HIDE DEF d, n
    <2>2. n >= 3 /\ Len(d) < MaxScan
      BY DEF d, n
    <2>3. \/ Decloaked(d \o Packets(n)) = Packets(n)
          \/ \E i \in 1 .. Len(d) : SyncAt(d \o Packets(n), i)
      BY <2>1, <2>2, Unwraps
    <2>4. sent.body = Packets(n) \/ \E i \in 1 .. Len(d) : SyncAt(d \o Packets(n), i)
      BY <2>1, <2>3
    <2> QED
      BY <2>4 DEF d, n
  <1> QED
    BY <1>1 DEF RelayInv, RelayTypes, RelayHonest

LEMMA RelayStep ==
    ASSUME RelayInv, [RelayNext]_relayVars
    PROVE  RelayInv'
  <1>1. CASE \E u \in known : Asks(u)
    BY <1>1, AsksGood
  <1>2. CASE Connects \/ Dropped \/ Waits \/ UNCHANGED relayVars
    BY <1>2, QuietGood
  <1>3. CASE AsksStray \/ Expires \/ Refuses \/ Fails
    BY <1>3, ClosedGood
  <1>4. CASE Redirected
    BY <1>4, RedirectedGood
  <1>5. CASE RelaysPlaylist
    BY <1>5, PlaylistGood
  <1>6. CASE RelaysMedia
    BY <1>6, MediaGood
  <1> QED
    BY <1>1, <1>2, <1>3, <1>4, <1>5, <1>6 DEF RelayNext, RelayWork

\* mpv is led where a player without the relay would be, no reference is left aside, no
\* server is asked that the guard would not admit, and streams go out bare.
THEOREM RelaysAreHonest == RelaySpec => [](RelayTypeOK /\ RelayHonest)
  <1>1. RelayInit => RelayInv
    BY RelayInitGood
  <1>2. RelayInv /\ [RelayNext]_relayVars => RelayInv'
    BY RelayStep
  <1>3. RelayInv => RelayTypeOK /\ RelayHonest
    BY RelayGood
  <1> QED
    BY <1>1, <1>2, <1>3, PTL DEF RelaySpec
=============================================================================
