------------------------------ MODULE Replicas ------------------------------
(***************************************************************************)
(* Several machines running the program against one AniList entry of one   *)
(* show, each with its own database.  A sync here is one uninterrupted     *)
(* pull-then-push (run_sync for a single row); SyncFunnel has the run      *)
(* taken apart step by step.  The question is the merge itself: whether    *)
(* what the machines agree on is what was edited, and that they agree.     *)
(***************************************************************************)
EXTENDS ShowRow, SequencesExt

CONSTANTS
    Devices,
    MaxEdits    \* edits made, over all machines

ASSUME EditsAssumption == MaxEdits \in Nat

VARIABLES
    entry,      \* the AniList entry
    row,        \* each machine's library row, or None
    edits       \* how many edits are left

replicaVars == <<entry, row, edits>>

ReplicasTypeOK ==
    /\ entry \in Pair \cup {None}
    /\ row \in [Devices -> Row \cup {None}]
    /\ edits \in 0..MaxEdits

ReplicasInit ==
    /\ entry \in Pair \cup {None}
    /\ row = [d \in Devices |-> None]
    /\ edits = MaxEdits

\* The pull: a Watching entry of an unknown show is imported, a library row is
\* merged; without an entry there is nothing to merge.
Pulled(r, remote) ==
    IF remote = None THEN r
    ELSE IF InLibrary(r) THEN [r EXCEPT !.pair = MergePair(r.snap, r.pair, remote), !.snap = remote]
    ELSE IF remote.status = "watching" THEN [AddToLibrary(r) EXCEPT !.pair = remote, !.snap = remote]
    ELSE r

Sync(d) ==
    LET pulled == Pulled(row[d], entry)
    IN  /\ IF IsDirty(pulled)
           THEN /\ entry' = pulled.pair
                /\ row' = [row EXCEPT ![d] = MarkSynced(pulled, pulled.pair)]
           ELSE /\ entry' = entry
                /\ row' = [row EXCEPT ![d] = pulled]
        /\ UNCHANGED edits

\* A status key, a finished play or a recompute gives a library row any new
\* pair; a show enters the library by an add or, born clean, by a checkpoint.
Edit(d) ==
    /\ edits > 0
    /\ edits' = edits - 1
    /\ \/ /\ ~InLibrary(row[d])
          /\ \E r \in {AddToLibrary(row[d]), RecordEngagement(BindProvider(row[d]))} :
               row' = [row EXCEPT ![d] = r]
       \/ /\ InLibrary(row[d])
          /\ \E pair \in Pair \ {row[d].pair} : row' = [row EXCEPT ![d].pair = pair]
    /\ UNCHANGED entry

ReplicasNext == \E d \in Devices : Sync(d) \/ Edit(d)

\* Every machine keeps syncing: launches, edits and sign-ins all pull.
ReplicasFairness == \A d \in Devices : WF_replicaVars(Sync(d))

ReplicasSpec == ReplicasInit /\ [][ReplicasNext]_replicaVars /\ ReplicasFairness

-----------------------------------------------------------------------------
\* A row born clean is not pushed until its first edit.
Agreed(d) == InLibrary(row[d]) => /\ row[d].snap = row[d].pair
                                  /\ entry = row[d].pair \/ entry = None

\* The machines converge: no pair is pushed back and forth for ever, and every
\* library row ends on AniList's pair.
Converge == <>[](\A d \in Devices : Agreed(d))

\* A sync never lowers AniList below a watch the machine has not pushed yet,
\* and never replaces a status it has not pushed yet.
UnpushedEditWins ==
    [][\A d \in Devices :
         LET r == row[d]
             base == Base(r.snap)
         IN  (InLibrary(r) /\ row'[d] # r /\ edits' = edits) =>
               /\ r.pair.progress # base.progress =>
                    entry'.progress >= r.pair.progress
               /\ r.pair.status # base.status => entry'.status = r.pair.status]_replicaVars

\* A correction arrives from either side, down as well as up: a sync of a row
\* with no progress edit of its own leaves AniList's progress where it was, and
\* an edit AniList has not answered with one of its own is what AniList gets.
CorrectionSurvives ==
    [][\A d \in Devices :
         LET r == row[d]
             base == Base(r.snap)
         IN  (InLibrary(r) /\ row'[d] # r /\ edits' = edits /\ entry # None) =>
               /\ r.pair.progress = base.progress => entry'.progress = entry.progress
               /\ entry.progress = base.progress => entry'.progress = r.pair.progress]_replicaVars

\* Libraries on one account meet (merge_pair).
ReplicasAgree == Converge

-----------------------------------------------------------------------------
(***************************************************************************)
(* The lists a sync reads (reconcile_plan).  MediaListCollection groups    *)
(* entries, so a show in custom lists appears once per group; the copies   *)
(* are folded into one entry per id before the merge: (updated_at,         *)
(* progress) decides, first come wins ties.  A behaviour re-sends the same *)
(* copies in another order.                                                *)
(***************************************************************************)
CONSTANTS
    Ids, Statuses, MaxEpisode, MaxUpdatedAt,
    MaxCopies   \* length of the longest list sent

ASSUME CopiesAssumption == MaxEpisode \in Nat /\ MaxUpdatedAt \in Nat

Copy == [id : Ids, status : Statuses, progress : 0..MaxEpisode, at : 0..MaxUpdatedAt]

VARIABLES
    list,     \* the flat list, in the order it arrived
    first     \* the list as it was first sent

copiesVars == <<list, first>>

\* Mutated form: the larger progress wins, recency breaks the tie.
OutranksProgressFirst(e, cur) ==
    \/ e.progress > cur.progress
    \/ e.progress = cur.progress /\ e.at > cur.at

Outranks(e, cur) ==
    \/ e.at > cur.at
    \/ e.at = cur.at /\ e.progress > cur.progress

\* Mutated form: the last copy read wins.
LaterWins(kept, e) == [kept EXCEPT ![e.id] = {e}]

\* The map entry of one more copy: insert, or replace when it outranks.
Keep(kept, e) ==
    IF kept[e.id] = {} \/ \E cur \in kept[e.id] : Outranks(e, cur)
    THEN [kept EXCEPT ![e.id] = {e}]
    ELSE kept

\* The map after the first n copies: per id the set of the one kept, {} without any.
Collapsing(copies) ==
    LET kept[n \in 0 .. Len(copies)] ==
            IF n = 0 THEN [i \in Ids |-> {}] ELSE Keep(kept[n - 1], copies[n])
    IN  kept

\* The collapsed map.
Collapsed(copies) == Collapsing(copies)[Len(copies)]

CollapseInit ==
    /\ list \in UNION {[1..n -> Copy] : n \in 1..MaxCopies}
    /\ first = list

\* The same copies, two neighbours swapped.
Reorder ==
    /\ \E i \in 1..(Len(list) - 1) :
         list' = [list EXCEPT ![i] = list[i + 1], ![i + 1] = list[i]]
    /\ UNCHANGED first

CollapseSpec == CollapseInit /\ [][Reorder]_copiesVars

-----------------------------------------------------------------------------
Ranked(kept) == [i \in Ids |-> {<<e.at, e.progress>> : e \in kept[i]}]

\* The order in which groups repeat an entry does not matter: the same
\* (updated_at, progress) is kept for every id, the unstamped ones included.
OrderIndependent == Ranked(Collapsed(list)) = Ranked(Collapsed(first))

\* Recency decides: no id keeps a copy older than another it was sent, so a
\* lowered progress is not raised again by a stale copy.
NewestKept ==
    \A n \in DOMAIN list :
        LET e == list[n]
            kept == Collapsed(list)[e.id]
        IN  /\ \A cur \in kept : cur.at >= e.at
            /\ \E cur \in kept : cur \in ToSet(list)

\* Folding the copies of an entry gives one that no other outranks, whatever order
\* the lists came in (reconcile_plan).
CollapseSound == OrderIndependent /\ NewestKept

\* What a sync makes of the copies it is sent and of what it pulls: on the way to an
\* agreement no unpushed edit and no correction is lost (reconcile_plan, merge_pair).
MergeSound == []CollapseSound /\ UnpushedEditWins /\ CorrectionSurvives
=============================================================================
