------------------------------ MODULE ShowRow ------------------------------
(***************************************************************************)
(* One row of the `show` table, reduced to what sync and the History list  *)
(* can tell apart, and the pure effect of every store method that writes   *)
(* it.  A row that is not in the table is None.                            *)
(*                                                                         *)
(* Enrichment columns are left out.  The two the writers read -- the       *)
(* episode total and the airing status -- are an argument m \in Media of   *)
(* the writer, because a refresh may rewrite them between any two calls.   *)
(***************************************************************************)
EXTENDS Naturals

CONSTANTS
    MaxProgress,   \* bound on every episode index and counter of a show
    None           \* SQL NULL / Rust Option::None

ListStatus == {"planning", "watching", "paused", "completed", "dropped"}

\* What AniList and the row agree or disagree about.
Pair == [status : ListStatus, progress : 0..MaxProgress]

\* The column defaults of a freshly minted row.
Unset == [status |-> "planning", progress |-> 0]

\* total = 0 stands for an unknown total and for the total 0: after_play and
\* set_list_status both ask for `Some(t) if t > 0`.
Media == [total : 0..MaxProgress, airing : BOOLEAN]

\* pair   : (list_status, progress)
\* member : library_added_at IS NOT NULL
\* snap   : (synced_status, synced_progress), both or neither
\* logged : the show has rows in episode_progress
Row == [pair : Pair, member : BOOLEAN, snap : Pair \cup {None}, logged : BOOLEAN]

ASSUME ProgressAssumption == MaxProgress \in Nat
ASSUME NoneAssumption == None \notin Pair \cup Row

Larger(a, b) == IF a >= b THEN a ELSE b

(***************************************************************************)
(* Minting.  A binding mints an identity row outside the library; the      *)
(* watchlist add mints or promotes, and never touches user state.          *)
(***************************************************************************)
Identity == [pair |-> Unset, member |-> FALSE, snap |-> None, logged |-> FALSE]

BindProvider(r) == IF r = None THEN Identity ELSE r

AddToLibrary(r) == [BindProvider(r) EXCEPT !.member = TRUE]

(***************************************************************************)
(* Writers of user state.                                                  *)
(***************************************************************************)
AfterPlay(status, progress, m) ==
    IF \/ status = "completed"
       \/ ~m.airing /\ m.total > 0 /\ progress >= m.total
    THEN "completed"
    ELSE "watching"

\* A finished play of the 1-based episode k; natural is the >= 0.80 tier.
RecordFinish(r, k, natural, m) ==
    LET progress == IF natural THEN Larger(r.pair.progress, k) ELSE r.pair.progress
    IN  [r EXCEPT !.pair = [status |-> AfterPlay(r.pair.status, progress, m),
                            progress |-> progress],
                  !.member = TRUE,
                  !.logged = TRUE]

SetListStatus(r, status, m) ==
    LET snaps == status = "completed" /\ m.total > 0
    IN  [r EXCEPT !.pair = [status |-> status,
                            progress |-> IF snaps THEN m.total ELSE r.pair.progress],
                  !.member = TRUE]

RestoreListStatus(r, pair) == [r EXCEPT !.pair = pair, !.member = TRUE]

\* The non-member-to-member transition is born clean: the snapshot is seeded
\* from the local pair, so that a checkpoint alone pushes nothing.
RecordEngagement(r) ==
    [r EXCEPT !.snap = IF ~r.member /\ r.snap = None THEN r.pair ELSE r.snap,
              !.member = TRUE]

SaveProgress(r) == [r EXCEPT !.logged = TRUE]

\* The positional high-water mark n of the watched episodes, written through.
RecomputeProgress(r, n) == [r EXCEPT !.pair.progress = n]

\* Start-up recovery of a play the last run died before stamping.
AdoptOrphanedProgress(r) ==
    IF r # None /\ r.logged /\ ~r.member THEN RecordEngagement(r) ELSE r

(***************************************************************************)
(* Sync bookkeeping.                                                       *)
(***************************************************************************)
InLibrary(r) == r # None /\ r.member

IsDirty(r) == InLibrary(r) /\ r.snap # r.pair

\* Mutated form: the stamp upserts, and mints half a row for a deleted show.
MarkSyncedUpserts(r, pair) ==
    IF r = None THEN [snap |-> pair] ELSE [r EXCEPT !.snap = pair]

MarkSynced(r, pair) == IF r = None THEN None ELSE [r EXCEPT !.snap = pair]

-----------------------------------------------------------------------------
(***************************************************************************)
(* The pull merge: the three-way matrix between the sync snapshot (base),  *)
(* the local pair and the pair AniList returned.  Status and progress are  *)
(* merged each against its own half of the base.                           *)
(***************************************************************************)
\* Mutated form: AniList's status wins whenever it moved.
MergeStatusRemoteFirst(base, local, remote) == IF remote # base THEN remote ELSE local

\* Mutated form: the local status is never given up.
MergeStatusLocalOnly(base, local, remote) == local

MergeStatus(base, local, remote) ==
    IF local = base /\ remote # base THEN remote ELSE local

\* Mutated form: progress only ever rises.
MergeProgressMax(base, local, remote) == Larger(local, remote)

\* Mutated form: both sides' progress is added up.
MergeProgressAdds(base, local, remote) == (local + remote) - base

MergeProgress(base, local, remote) ==
    CASE local = base /\ remote # base -> remote
      [] local # base /\ remote = base -> local
      [] OTHER                         -> Larger(local, remote)

\* base is None on first contact, which reads as Planning / 0.
Base(snap) == IF snap = None THEN Unset ELSE snap

MergePair(snap, local, remote) ==
    [status   |-> MergeStatus(Base(snap).status, local.status, remote.status),
     progress |-> MergeProgress(Base(snap).progress, local.progress, remote.progress)]

\* The planned write of one candidate row: the merged pair, and the raw remote
\* pair as the new snapshot.
PlanFor(id, row, remote) ==
    [id |-> id, guard |-> row.pair,
     merged |-> MergePair(row.snap, row.pair, remote), snapshot |-> remote]

\* Rows where neither the pair nor the snapshot would move are not planned.
NeedsWrite(row, remote) ==
    \/ MergePair(row.snap, row.pair, remote) # row.pair
    \/ remote # row.snap
=============================================================================
