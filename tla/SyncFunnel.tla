----------------------------- MODULE SyncFunnel -----------------------------
(***************************************************************************)
(* The AniList sync funnel: pull, reconcile, push.  A run is one call of   *)
(* run_sync or flush_push on a thread or process of its own, with its own  *)
(* connection to the store; several runs and every other writer of the     *)
(* store interleave between any two of its steps.  One step is one network *)
(* round trip or one SQL statement/transaction.                            *)
(*                                                                         *)
(* AniList is `server`: one entry per show or None.  Its other clients are *)
(* RemoteEdit and RemoteDelete.                                            *)
(*                                                                         *)
(* held, acct and the run fields stale and raced are history variables:    *)
(* no guard reads them.                                                    *)
(***************************************************************************)
EXTENDS ShowRow, FiniteSets

CONSTANTS
    Shows,       \* AniList ids
    Seeded,      \* the ids whose list entry carries a titled import seed
    ImportCap,   \* IMPORT_CAP, rows one pull may mint
    Runs,        \* concurrent sync runs: the app's slot, the command line's
    RemotePairs  \* what the other AniList clients may write

ASSUME ShowsAssumption == Shows \subseteq Nat /\ Seeded \subseteq Shows
ASSUME ImportCapAssumption == ImportCap \in Nat
ASSUME RemoteAssumption == RemotePairs \subseteq Pair

VARIABLES
    rows,    \* the show table
    server,  \* the AniList list entries
    run,     \* the sync runs
    held,    \* history: every pair AniList has held for the show
    acct     \* history: the AniList pairs this incarnation of the row has met

funnelVars == <<rows, server, run, held, acct>>

Entry == Pair \cup {None}

PlanRow == [id : Shows, guard : Pair, merged : Pair, snapshot : Pair]
ImportRow == [id : Shows, pair : Pair]
WorkRow == [id : Shows, pair : Pair, snap : Entry]

Step == {"idle", "fetch", "plan", "import", "apply", "list", "push", "save", "mark", "done"}
Mode == {"full", "pullOnly", "pushOnly"}

Run == [pc        : Step,
        mode      : Mode,
        remote    : [Shows -> Entry],     \* the collapsed list reply
        imports   : SUBSET ImportRow,     \* seeds still to mint
        plan      : SUBSET PlanRow,       \* guarded updates still to apply
        contended : SUBSET Shows,
        work      : SUBSET WorkRow,       \* dirty rows still to push
        cur       : WorkRow \cup {None},  \* the row being pushed
        backedOff : BOOLEAN,              \* the one 429 grace is spent
        changed   : BOOLEAN,              \* reconciled or imported > 0
        stale     : SUBSET Shows,         \* history: deleted since they were read
        raced     : BOOLEAN]              \* history: AniList moved after the guard

NoReply == [s \in Shows |-> None]

Idle == [pc |-> "idle", mode |-> "full", remote |-> NoReply, imports |-> {}, plan |-> {},
         contended |-> {}, work |-> {}, cur |-> None, backedOff |-> FALSE,
         changed |-> FALSE, stale |-> {}, raced |-> FALSE]

FunnelTypeOK ==
    /\ rows \in [Shows -> Row \cup {None}]
    /\ server \in [Shows -> Entry]
    /\ run \in [Runs -> Run]
    /\ held \in [Shows -> SUBSET Pair]
    /\ acct \in [Shows -> SUBSET Pair]

FunnelInit ==
    /\ rows = [s \in Shows |-> None]
    /\ server \in [Shows -> RemotePairs \cup {None}]
    /\ run = [p \in Runs |-> Idle]
    /\ held = [s \in Shows |-> {server[s]} \ {None}]
    /\ acct = [s \in Shows |-> {}]

-----------------------------------------------------------------------------
(***************************************************************************)
(* Steps of one run                                                        *)
(***************************************************************************)
RunBecomes(p, r) == run' = [run EXCEPT ![p] = r]

Goto(p, pc) == RunBecomes(p, [run[p] EXCEPT !.pc = pc])

Finish(p) == RunBecomes(p, [Idle EXCEPT !.pc = "done", !.changed = run[p].changed])

\* The push moves past row w.
Past(r, w) == [r EXCEPT !.pc = "push", !.work = @ \ {w}, !.cur = None]

\* The run drops the row it is pushing, which stays dirty.
HoldBack(p, w) == RunBecomes(p, Past(run[p], w))

\* The run that Start leaves behind; the callers hold the gates.
Started(mode) ==
    [Idle EXCEPT !.pc = IF mode = "pushOnly" THEN "list" ELSE "fetch", !.mode = mode]

StartRun(p, mode) ==
    /\ run[p].pc = "idle"
    /\ RunBecomes(p, Started(mode))

FetchList(p) ==
    /\ run[p].pc = "fetch"
    /\ RunBecomes(p, [run[p] EXCEPT !.pc = "plan", !.remote = server])
    /\ UNCHANGED <<rows, server, held, acct>>

\* A transport or decode miss does not gate the push.
FetchListMisses(p) ==
    /\ run[p].pc = "fetch"
    /\ IF run[p].mode = "pullOnly" THEN Finish(p) ELSE Goto(p, "list")
    /\ UNCHANGED <<rows, server, held, acct>>

\* 401 and 429 on the pull are terminal.
FetchListRefused(p) ==
    /\ run[p].pc = "fetch"
    /\ Finish(p)
    /\ UNCHANGED <<rows, server, held, acct>>

(***************************************************************************)
(* reconcile_plan: one read of the library, no transaction around what     *)
(* follows.  Remote-only Watching entries with a seed are minted, the      *)
(* ImportCap lowest ids of them.                                           *)
(***************************************************************************)
Unmatched(remote) == {s \in Shows : remote[s] # None /\ ~InLibrary(rows[s])}

Importable(remote) == {s \in Unmatched(remote) \cap Seeded : remote[s].status = "watching"}

\* Mutated form: a list past the cap is refused as a whole.
CappedWhole(ids) == {s \in ids : Cardinality(ids) <= ImportCap}

\* The rest is left for the next pull.
Capped(ids) == {s \in ids : Cardinality({t \in ids : t < s}) < ImportCap}

ReconcilePlan(p) ==
    LET remote == run[p].remote
        matched == {s \in Shows : remote[s] # None /\ InLibrary(rows[s])}
        written == {s \in matched : NeedsWrite(rows[s], remote[s])}
    IN  /\ run[p].pc = "plan"
        /\ RunBecomes(p, [run[p] EXCEPT
              !.pc = "import",
              !.remote = NoReply,
              !.imports = {[id |-> s, pair |-> remote[s]] : s \in Capped(Importable(remote))},
              !.plan = {PlanFor(s, rows[s], remote[s]) : s \in written}])
        /\ UNCHANGED <<rows, server, held, acct>>

\* One BEGIN IMMEDIATE: mint or promote, then adopt the remote pair under a
\* compare-and-set on the freshly minted state; a miss rolls the mint back.
ImportOne(p) ==
    /\ run[p].pc = "import"
    /\ \E i \in run[p].imports :
         LET minted == AddToLibrary(rows[i.id])
             fresh == minted.pair = Unset /\ minted.snap = None
         IN  /\ rows' = IF fresh
                        THEN [rows EXCEPT ![i.id] = [minted EXCEPT !.pair = i.pair,
                                                                   !.snap = i.pair]]
                        ELSE rows
             /\ acct' = IF fresh THEN [acct EXCEPT ![i.id] = @ \cup {i.pair}] ELSE acct
             /\ RunBecomes(p, [run[p] EXCEPT
                   !.imports = @ \ {i},
                   !.contended = IF fresh THEN @ ELSE @ \cup {i.id},
                   !.changed = @ \/ fresh])
    /\ UNCHANGED <<server, held>>

ImportsDone(p) ==
    /\ run[p].pc = "import"
    /\ run[p].imports = {}
    /\ Goto(p, "apply")
    /\ UNCHANGED <<rows, server, held, acct>>

\* Mutated form: the UPDATE loses its guard on the planned-from pair.
ApplyUnguarded(p) ==
    /\ run[p].pc = "apply"
    /\ \E w \in run[p].plan :
         /\ rows[w.id] # None
         /\ rows' = [rows EXCEPT ![w.id].pair = w.merged, ![w.id].snap = w.snapshot]
         /\ acct' = [acct EXCEPT ![w.id] = @ \cup {w.snapshot}]
         /\ RunBecomes(p, [run[p] EXCEPT !.plan = @ \ {w}, !.changed = TRUE])
    /\ UNCHANGED <<server, held>>

\* One guarded UPDATE per planned row.  The guard is the planned-from pair and
\* not the snapshot: a miss is a concurrent edit and leaves the row alone.
ApplyOne(p) ==
    /\ run[p].pc = "apply"
    /\ \E w \in run[p].plan :
         LET hit == rows[w.id] # None /\ rows[w.id].pair = w.guard
         IN  /\ rows' = IF hit
                        THEN [rows EXCEPT ![w.id].pair = w.merged, ![w.id].snap = w.snapshot]
                        ELSE rows
             /\ acct' = IF hit THEN [acct EXCEPT ![w.id] = @ \cup {w.snapshot}] ELSE acct
             /\ RunBecomes(p, [run[p] EXCEPT
                   !.plan = @ \ {w},
                   !.contended = IF hit THEN @ ELSE @ \cup {w.id},
                   !.changed = @ \/ hit])
    /\ UNCHANGED <<server, held>>

AppliesDone(p) ==
    /\ run[p].pc = "apply"
    /\ run[p].plan = {}
    /\ IF run[p].mode = "pullOnly" THEN Finish(p) ELSE Goto(p, "list")
    /\ UNCHANGED <<rows, server, held, acct>>

(***************************************************************************)
(* push_dirty: the work list is read once; the rows this run's pull could  *)
(* not reconcile are held back.                                            *)
(***************************************************************************)
Dirty == {s \in Shows : IsDirty(rows[s])}

ListDirty(p) ==
    /\ run[p].pc = "list"
    /\ RunBecomes(p, [run[p] EXCEPT
          !.pc = "push",
          !.work = {[id |-> s, pair |-> rows[s].pair, snap |-> rows[s].snap] :
                      s \in Dirty \ run[p].contended},
          !.stale = {}])
    /\ UNCHANGED <<rows, server, held, acct>>

\* The row the next call is about: the one being retried, else any other.
Candidates(p) == IF run[p].cur = None THEN run[p].work ELSE {run[p].cur}

\* Mutated form: the pull is trusted to be fresh, the entry is not read again.
GuardSkipped(p) ==
    /\ run[p].pc = "push"
    /\ \E w \in Candidates(p) :
         RunBecomes(p, [run[p] EXCEPT !.pc = "save", !.cur = w, !.raced = FALSE])
    /\ UNCHANGED <<rows, server, held, acct>>

\* fetch_entry agrees with the snapshot, or there is nothing to overwrite.
GuardPasses(p) ==
    /\ run[p].pc = "push"
    /\ \E w \in Candidates(p) :
         /\ server[w.id] \in {None, w.snap}
         /\ RunBecomes(p, [run[p] EXCEPT !.pc = "save", !.cur = w, !.raced = FALSE])
    /\ UNCHANGED <<rows, server, held, acct>>

\* Somebody else moved the entry: the next pull merges the two.
GuardHolds(p) ==
    /\ run[p].pc = "push"
    /\ \E w \in Candidates(p) :
         /\ server[w.id] \notin {None, w.snap}
         /\ HoldBack(p, w)
    /\ UNCHANGED <<rows, server, held, acct>>

GuardFails(p) ==
    /\ run[p].pc = "push"
    /\ \E w \in Candidates(p) : HoldBack(p, w)
    /\ UNCHANGED <<rows, server, held, acct>>

\* A first 429, of the guard or of the save, retries the row from the guard.
RateLimited(p) ==
    /\ run[p].pc \in {"push", "save"}
    /\ ~run[p].backedOff
    /\ \E w \in Candidates(p) :
         RunBecomes(p, [run[p] EXCEPT !.pc = "push", !.cur = w, !.backedOff = TRUE])
    /\ UNCHANGED <<rows, server, held, acct>>

\* A 401, or the second 429: the rest of the work list stays dirty.
PushRefused(p) ==
    /\ run[p].pc \in {"push", "save"}
    /\ Candidates(p) # {}
    /\ Finish(p)
    /\ UNCHANGED <<rows, server, held, acct>>

\* AniList now holds `pair`: a run between guard and save has been overtaken.
ServerWrites(s, pair) ==
    /\ server' = [server EXCEPT ![s] = pair]
    /\ held' = IF pair = None THEN held ELSE [held EXCEPT ![s] = @ \cup {pair}]

Overtaken(s) == [q \in Runs |->
    IF run[q].pc = "save" /\ run[q].cur.id = s THEN [run[q] EXCEPT !.raced = TRUE] ELSE run[q]]

SaveEntry(p) ==
    LET w == run[p].cur
    IN  /\ run[p].pc = "save"
        /\ ServerWrites(w.id, w.pair)
        /\ run' = [Overtaken(w.id) EXCEPT ![p] = [run[p] EXCEPT !.pc = "mark"]]
        /\ UNCHANGED <<rows, acct>>

\* The mutation lands and its answer is lost, or answers without an id.
SaveEntryUnconfirmed(p) ==
    LET w == run[p].cur
    IN  /\ run[p].pc = "save"
        /\ ServerWrites(w.id, w.pair)
        /\ run' = [Overtaken(w.id) EXCEPT ![p] = Past(run[p], w)]
        /\ UNCHANGED <<rows, acct>>

\* Mutated form: the snapshot is stamped without AniList's answer.
SaveEntryStampsAnyway(p) ==
    /\ run[p].pc = "save"
    /\ Goto(p, "mark")
    /\ UNCHANGED <<rows, server, held, acct>>

SaveEntryFails(p) ==
    /\ run[p].pc = "save"
    /\ HoldBack(p, run[p].cur)
    /\ UNCHANGED <<rows, server, held, acct>>

\* mark_synced has no guard: the row it stamps is whichever has the id now.
MarkRow(p) ==
    LET w == run[p].cur
    IN  /\ run[p].pc = "mark"
        /\ rows' = [rows EXCEPT ![w.id] = MarkSynced(@, w.pair)]
        /\ acct' = IF w.id \in run[p].stale THEN acct
                   ELSE [acct EXCEPT ![w.id] = @ \cup {w.pair}]
        /\ HoldBack(p, w)
        /\ UNCHANGED <<server, held>>

PushDone(p) ==
    /\ run[p].pc = "push"
    /\ Candidates(p) = {}
    /\ Finish(p)
    /\ UNCHANGED <<rows, server, held, acct>>

\* A store error (busy past the retry budget, a full disk) ends the run
\* wherever it next touches the store; what it already wrote stays.
StoreFails(p) ==
    /\ run[p].pc \in {"plan", "import", "apply", "list", "mark"}
    /\ RunBecomes(p, [Idle EXCEPT !.pc = "done"])
    /\ UNCHANGED <<rows, server, held, acct>>

RunStep(p) ==
    \/ FetchList(p) \/ ReconcilePlan(p) \/ ImportOne(p) \/ ImportsDone(p)
    \/ ApplyOne(p) \/ AppliesDone(p) \/ ListDirty(p) \/ GuardPasses(p) \/ GuardHolds(p)
    \/ SaveEntry(p) \/ MarkRow(p) \/ PushDone(p)

RunFault(p) ==
    \/ FetchListMisses(p) \/ FetchListRefused(p) \/ GuardFails(p) \/ RateLimited(p)
    \/ PushRefused(p) \/ SaveEntryUnconfirmed(p) \/ SaveEntryFails(p) \/ StoreFails(p)

-----------------------------------------------------------------------------
(***************************************************************************)
(* The other clients of AniList                                            *)
(***************************************************************************)
RemoteEdit(s, pair) ==
    /\ server[s] # pair
    /\ ServerWrites(s, pair)
    /\ run' = Overtaken(s)
    /\ UNCHANGED <<rows, acct>>

RemoteDelete(s) ==
    /\ server[s] # None
    /\ ServerWrites(s, None)
    /\ run' = Overtaken(s)
    /\ UNCHANGED <<rows, acct>>
=============================================================================
