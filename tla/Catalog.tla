------------------------------ MODULE Catalog -------------------------------
(***************************************************************************)
(* The AniList client (src/anilist.rs): one POST per call, the transport's *)
(* outcomes, and what each classifier makes of a body that is whole, nulled*)
(* by a fault of the server, or no answer at all.  The pushing caller is   *)
(* that of src/sync.rs: an entry is read right before it is overwritten.   *)
(* Another client edits the account meanwhile.                             *)
(***************************************************************************)
EXTENDS Integers, FiniteSets

CONSTANTS
    Media,       \* anime ids
    MaxWatched,  \* bound of the run: progress
    Foreigns,    \* entries the other client may leave, Missing where it deletes one
    DeadlineAt,  \* DEADLINE, in ticks
    MaxPosts,    \* bound of the run: calls
    MaxForeign   \* bound of the run: edits of the other client

VARIABLES
    account,   \* the list at AniList: an entry or Missing per media
    foreign,   \* edits of the other client so far
    tokenOk,   \* AniList accepts the token
    post,      \* the call under way: [op, of, pair] or NoPost
    body,      \* the answer under way
    spentTime, \* ticks since the request went out
    result,    \* what the caller got: [op, of, got]
    truth,     \* the account when the server answered
    read,      \* per media: the pair the push was told of, Unread before
    moved,     \* media the other client has edited since they were read
    posts      \* calls so far

catalogVars == <<account, foreign, tokenOk, post, body, spentTime, result, truth, read, moved, posts>>

-----------------------------------------------------------------------------
(***************************************************************************)
(* The two vocabularies.                                                   *)
(***************************************************************************)
Wire == {"CURRENT", "REPEATING", "PLANNING", "PAUSED", "COMPLETED", "DROPPED", "NEWER"}
ListStatus == {"watching", "planning", "paused", "completed", "dropped"}

\* list_status_from_anilist: REPEATING is watching, what is unknown is planning.
FromWire(w) ==
    CASE w \in {"CURRENT", "REPEATING"} -> "watching"
      [] w = "PAUSED" -> "paused"
      [] w = "COMPLETED" -> "completed"
      [] w = "DROPPED" -> "dropped"
      [] OTHER -> "planning"

\* Mutated form: a paused show is pushed as planned.
ToWireSwapped(s) ==
    CASE s = "watching" -> "CURRENT"
      [] s = "completed" -> "COMPLETED"
      [] s = "dropped" -> "DROPPED"
      [] OTHER -> "PLANNING"

\* list_status_to_anilist
ToWire(s) ==
    CASE s = "watching" -> "CURRENT"
      [] s = "paused" -> "PAUSED"
      [] s = "completed" -> "COMPLETED"
      [] s = "dropped" -> "DROPPED"
      [] s = "planning" -> "PLANNING"

Missing == [status |-> "none", progress |-> 0]
Entry == [status : Wire, progress : 0 .. MaxWatched]
Pair == [status : ListStatus, progress : 0 .. MaxWatched]

ASSUME CatalogAssumption ==
    /\ MaxWatched \in Nat \ {0} /\ DeadlineAt \in Nat \ {0}
    /\ Foreigns \subseteq Entry \cup {Missing}

Mapped(e) == IF e = Missing THEN Missing ELSE [e EXCEPT !.status = FromWire(@)]

-----------------------------------------------------------------------------
Ops == {"viewer", "list", "entry", "save", "page", "by_id"}
NoPost == [op |-> "none"]
Unread == [status |-> "unread", progress |-> 0]
NoBody == [nulled |-> "no body", errors |-> FALSE, done |-> FALSE, value |-> {}]
NoResult == [op |-> "none"]

\* Where a body may be null: the whole data, the field of the query, or below it.
Depths == {"nothing", "data", "top", "below"}

Bodied == body.nulled # "no body"

CatalogTypeOK ==
    /\ account \in [Media -> Entry \cup {Missing}] /\ truth \in [Media -> Entry \cup {Missing}]
    /\ post.op \in Ops \cup {"none"} /\ spentTime \in 0 .. DeadlineAt
    /\ read \in [Media -> Pair \cup {Missing, Unread}]
    /\ (Bodied => post # NoPost) /\ body.nulled \in Depths \cup {"no body"}
    /\ result.op \in Ops \cup {"none"}

CatalogInit ==
    /\ account \in {[m \in Media |-> Missing], [m \in Media |-> [status |-> "REPEATING", progress |-> 1]]}
    /\ tokenOk \in BOOLEAN /\ foreign = 0
    /\ post = NoPost /\ body = NoBody /\ spentTime = 0 /\ result = NoResult
    /\ truth = account /\ read = [m \in Media |-> Unread] /\ moved = {} /\ posts = 0

\* Another client of the account.
ForeignEdit(m, e) ==
    /\ foreign < MaxForeign /\ foreign' = foreign + 1
    /\ account' = [account EXCEPT ![m] = e] /\ moved' = moved \cup {m}
    /\ UNCHANGED <<tokenOk, post, body, spentTime, result, truth, read, posts>>

-----------------------------------------------------------------------------
(***************************************************************************)
(* A call: the request, the server, the transport, the classifier.         *)
(***************************************************************************)
Posts(p) ==
    /\ post = NoPost /\ posts < MaxPosts /\ posts' = posts + 1
    /\ post' = p /\ body' = NoBody /\ spentTime' = 0 /\ result' = NoResult
    /\ UNCHANGED <<account, foreign, tokenOk, truth, moved>>

\* viewer, pull_list, pull_entry, search and discover, enrich.
Asked(op, m) ==
    /\ op \in Ops \ {"save"} /\ Posts([op |-> op, of |-> m])
    /\ read' = IF op = "entry" THEN [read EXCEPT ![m] = Unread] ELSE read

\* push_entry: the push guard has read the entry; one read is good for one push.
Pushes(m, pair) ==
    /\ read[m] # Unread
    /\ Posts([op |-> "save", of |-> m, pair |-> pair]) /\ UNCHANGED read

\* What the server would say: a set of entries for a list (an entry may be in several
\* custom lists), the one entry, the stored id, a page with its pageInfo.
Say(op, m) ==
    CASE op = "viewer" -> IF tokenOk THEN {"me"} ELSE {}
      [] op = "list" -> {[media |-> n, entry |-> account[n]] : n \in {k \in Media : account[k] # Missing}}
      [] op = "entry" -> {account[m]} \ {Missing}
      [] op = "save" -> {"id"}
      [] op = "page" -> Media
      [] op = "by_id" -> {m}

\* The server works on a request once.  A fault nulls the nearest nullable field and
\* says so in `errors`; a mutation may have failed, or been done, before that.
Processed(nulled, done) ==
    /\ post # NoPost /\ ~Bodied
    /\ body' = [nulled |-> nulled, errors |-> nulled # "nothing", done |-> done,
                value |-> Say(post.op, post.of)]
    /\ truth' = account
    /\ moved' = IF post.op = "entry" THEN moved \ {post.of} ELSE moved
    /\ UNCHANGED <<foreign, tokenOk, post, spentTime, result, read, posts>>

Serves(nulled) == post.op # "save" /\ Processed(nulled, FALSE) /\ UNCHANGED account

\* A token that is not accepted is a 401, and nothing is written.
Writes(nulled) ==
    /\ post.op = "save" /\ tokenOk
    /\ \/ /\ Processed(nulled, TRUE)
          /\ account' = [account EXCEPT ![post.of] = [post.pair EXCEPT !.status = ToWire(@)]]
       \/ nulled # "nothing" /\ Processed(nulled, FALSE) /\ UNCHANGED account

Concludes(got) ==
    /\ result' = [op |-> post.op, of |-> post.of, got |-> got]
    /\ post' = NoPost /\ body' = NoBody /\ spentTime' = 0
    /\ read' = IF post.op = "entry" /\ got.kind # "err"
               THEN [read EXCEPT ![post.of] = IF got.kind = "absent" THEN Missing ELSE got.value]
               ELSE IF post.op = "save" THEN [read EXCEPT ![post.of] = Unread] ELSE read
    /\ UNCHANGED <<account, foreign, tokenOk, truth, moved, posts>>

Err == [kind |-> "err"]
Absent == [kind |-> "absent"]
Got(v) == [kind |-> "ok", value |-> v]

\* send: no connection, 429, no success, past the cap, or a body that does not parse;
\* the server may have worked on the request or not.
SendFails == post # NoPost /\ Concludes(Err)

Ticks == post # NoPost /\ spentTime < DeadlineAt /\ spentTime' = spentTime + 1
         /\ UNCHANGED <<account, foreign, tokenOk, post, body, result, truth, read, moved, posts>>

\* Mutated form: the client has no timeout.
LateNever == FALSE

\* The client's timeout.
Late == post # NoPost /\ spentTime = DeadlineAt

Expired == Late /\ Concludes(Err)

Nulled(depths) == body.nulled \in depths

\* Mutated form: a nulled page or list is an empty one.
EntryReadEmpty ==
    IF Nulled({"data"}) THEN Err
    ELSE IF body.value = {} \/ Nulled({"top", "below"}) THEN Absent
    ELSE Got(Mapped(CHOOSE e \in body.value : TRUE))

\* classify_entry: absent is a list that is there and empty.
EntryRead ==
    IF body.errors \/ Nulled(Depths \ {"nothing"}) THEN Err
    ELSE IF body.value = {} THEN Absent
    ELSE Got(Mapped(CHOOSE e \in body.value : TRUE))

\* Mutated form: a success without the id is a save.
SaveReadAny == IF Nulled({"data"}) THEN Err ELSE Got("id")

\* classify_save: a success without the id is none.
SaveRead == IF Nulled(Depths \ {"nothing"}) THEN Err ELSE Got("id")

\* classify_viewer: null is a rejection; a missing name is an empty one.
ViewerRead ==
    IF Nulled({"data"}) THEN Err
    ELSE IF body.value = {} \/ Nulled({"top"}) THEN Absent ELSE Got("me")

\* classify_by_id: null is a confirmed no-match.
MediaRead ==
    IF Nulled({"data"}) THEN Err ELSE IF Nulled({"top"}) THEN Absent ELSE Got(body.value)

\* classify_list: groups and entries that are null are passed over.
ListRead ==
    IF Nulled({"data"}) THEN {Err}
    ELSE IF Nulled({"top"}) THEN {Got({})}
    ELSE {Got({[r EXCEPT !.entry = Mapped(@)] : r \in kept}) :
            kept \in IF Nulled({"below"}) THEN SUBSET body.value ELSE {body.value}}

\* classify_page: no page or no pageInfo is the end.
PageRead(more) ==
    IF Nulled({"data"}) THEN {Err}
    ELSE IF Nulled({"top"}) THEN {Got([entries |-> {}, next |-> FALSE])}
    ELSE IF Nulled({"below"})
    THEN {Got([entries |-> {}, next |-> more]), Got([entries |-> body.value, next |-> FALSE])}
    ELSE {Got([entries |-> body.value, next |-> more])}

Readings ==
    CASE post.op = "viewer" -> {ViewerRead}
      [] post.op = "list" -> ListRead
      [] post.op = "entry" -> {EntryRead}
      [] post.op = "save" -> {SaveRead}
      [] post.op = "page" -> PageRead(TRUE) \cup PageRead(FALSE)
      [] post.op = "by_id" -> {MediaRead}

Classified == Bodied /\ ~Late /\ \E got \in Readings : Concludes(got)

CatalogNext ==
    \/ \E m \in Media, e \in Foreigns : ForeignEdit(m, e)
    \/ \E m \in Media, op \in Ops : Asked(op, m)
    \/ \E m \in Media, pair \in Pair : Pushes(m, pair)
    \/ \E nulled \in Depths : Serves(nulled) \/ Writes(nulled)
    \/ SendFails \/ Ticks \/ Expired \/ Classified

CatalogWork == Ticks \/ Expired

CatalogSpec == CatalogInit /\ [][CatalogNext]_catalogVars /\ WF_catalogVars(CatalogWork)

-----------------------------------------------------------------------------
(***************************************************************************)
(* Properties.                                                             *)
(***************************************************************************)

\* A push overwrites only what its guard was shown: a fault of the server is never
\* taken for "no entry there" (classify_entry, the invariant the push guard rests on).
NothingUnreadOverwritten ==
    [][\A m \in Media :
          (account'[m] # account[m] /\ foreign' = foreign /\ m \notin moved)
              => Mapped(account[m]) = read[m]]_catalogVars

\* A save that is reported was written: the row is stamped as synced on that word
\* (classify_save).
SavedIsSaved ==
    [][(post.op = "save" /\ post' = NoPost /\ result'.got.kind = "ok") => body.done]_catalogVars

\* What was pushed is what a read then gives, through both vocabularies.
PushedReadsBack ==
    [][(post.op = "save" /\ account' # account /\ foreign' = foreign)
          => Mapped(account'[post.of]) = post.pair]_catalogVars

\* A pulled list holds nothing the account did not hold, whatever was nulled; it may
\* hold less.
PullInventsNothing ==
    result.op = "list" /\ result.got.kind = "ok" =>
        \A r \in result.got.value : Mapped(truth[r.media]) = r.entry /\ r.entry # Missing

\* The four together.
CatalogHonest ==
    NothingUnreadOverwritten /\ SavedIsSaved /\ PushedReadsBack /\ []PullInventsNothing

\* Every call ends, however silent the host.
PostEnds == post # NoPost ~> post = NoPost
=============================================================================
