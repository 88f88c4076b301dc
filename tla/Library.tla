------------------------------ MODULE Library ------------------------------
(***************************************************************************)
(* The app around the sync funnel: the single UI thread with its in-memory *)
(* History list, its one-level undo, the action-flush debounce and the     *)
(* playing session, and the command line as another process on the same    *)
(* database.  A UI handler is one step: the UI thread consumes one event   *)
(* at a time and each store write is one transaction.                      *)
(***************************************************************************)
EXTENDS SyncFunnel

CONSTANTS
    Tui, Cli,     \* the two members of Runs
    StatusKeys,   \* the statuses the user's keys set
    MediaSeen     \* the (total, airing) pairs enrichment may hold

ASSUME RunsAssumption == Runs = {Tui, Cli} /\ Tui # Cli
ASSUME KeysAssumption == StatusKeys \subseteq ListStatus /\ MediaSeen \subseteq Media

VARIABLES
    phase,    \* "down", "up", or "draining" between the loop and the exit
    enabled,  \* sync switch on and a live token
    history,  \* HistoryState.shows, the pairs the list shows
    undo,     \* the captured pair of the last status key
    prior,    \* history variable: the stored pair that key replaced
    armed,    \* sync_debounce
    playing   \* the show of the active play

uiVars == <<phase, enabled, history, undo, prior, armed, playing>>
vars == <<rows, server, run, held, acct, phase, enabled, history, undo, prior, armed, playing>>

Undo == [id : Shows, pair : Pair]

TypeOK ==
    /\ FunnelTypeOK
    /\ phase \in {"down", "up", "draining"}
    /\ enabled \in BOOLEAN
    /\ history \in [Shows -> Entry]
    /\ undo \in Undo \cup {None}
    /\ prior \in Entry
    /\ armed \in BOOLEAN
    /\ playing \in Shows \cup {None}

Init ==
    /\ FunnelInit
    /\ phase = "down"
    /\ enabled = TRUE
    /\ history = NoReply
    /\ undo = None
    /\ prior = None
    /\ armed = FALSE
    /\ playing = None

-----------------------------------------------------------------------------
\* list_history: library rows, nothing else.
Listed(table) == [s \in Shows |-> IF InLibrary(table[s]) THEN table[s].pair ELSE None]

LoadHistory == history' = Listed(rows')

ArmSync == armed' = (armed \/ enabled)

SetRow(s, row) == rows' = [rows EXCEPT ![s] = row]

Syncing == run[Tui].pc # "idle"

(***************************************************************************)
(* Browsing: a bound provider mints the identity row, P saves the card to  *)
(* the watchlist.  Neither re-reads the History list.                      *)
(***************************************************************************)
Bind(s) ==
    /\ phase = "up"
    /\ rows[s] = None
    /\ SetRow(s, BindProvider(rows[s]))
    /\ UNCHANGED <<server, run, held, acct, uiVars>>

PlanIt(s) ==
    /\ phase = "up"
    /\ SetRow(s, AddToLibrary(rows[s]))
    /\ ArmSync
    /\ UNCHANGED <<server, run, held, acct, phase, enabled, history, undo, prior, playing>>

(***************************************************************************)
(* The History list                                                        *)
(***************************************************************************)
\* Entering the view, or an enrichment answer that patched a row.
ReloadHistory ==
    /\ phase = "up"
    /\ history' = Listed(rows)
    /\ history' # history
    /\ UNCHANGED <<funnelVars, phase, enabled, undo, prior, armed, playing>>

\* The undo captures the pair the in-memory list shows.
StatusKey(s, status, m) ==
    /\ phase = "up"
    /\ history[s] # None
    /\ rows[s] # None
    /\ SetRow(s, SetListStatus(rows[s], status, m))
    /\ undo' = [id |-> s, pair |-> history[s]]
    /\ prior' = rows[s].pair
    /\ ArmSync
    /\ LoadHistory
    /\ UNCHANGED <<server, run, held, acct, phase, enabled, playing>>

UndoKey ==
    /\ phase = "up"
    /\ undo # None
    /\ rows[undo.id] # None
    /\ SetRow(undo.id, RestoreListStatus(rows[undo.id], undo.pair))
    /\ undo' = None
    /\ prior' = None
    /\ ArmSync
    /\ LoadHistory
    /\ UNCHANGED <<server, run, held, acct, phase, enabled, playing>>

\* n is the high-water mark of the episode_progress rows; none without rows.
RecomputeKey(s, n) ==
    /\ phase = "up"
    /\ history[s] # None
    /\ rows[s] # None
    /\ rows[s].logged \/ n = 0
    /\ SetRow(s, RecomputeProgress(rows[s], n))
    /\ undo' = None
    /\ prior' = None
    /\ ArmSync
    /\ LoadHistory
    /\ UNCHANGED <<server, run, held, acct, phase, enabled, playing>>

\* X then y.  Nothing is armed, and AniList is not told.
Delete(s) ==
    /\ phase = "up"
    /\ history[s] # None
    /\ playing # s
    /\ SetRow(s, None)
    /\ undo' = IF undo # None /\ undo.id = s THEN None ELSE undo
    /\ prior' = IF undo' = None THEN None ELSE prior
    /\ LoadHistory
    /\ acct' = [acct EXCEPT ![s] = {}]
    /\ run' = [p \in Runs |-> [run[p] EXCEPT !.stale = @ \cup {s}]]
    /\ UNCHANGED <<server, held, phase, enabled, armed, playing>>

(***************************************************************************)
(* Playing                                                                 *)
(***************************************************************************)
Play(s) ==
    /\ phase = "up"
    /\ playing = None
    /\ rows[s] # None
    /\ playing' = s
    /\ UNCHANGED <<funnelVars, phase, enabled, history, undo, prior, armed>>

\* The first meaningful position.
Engage ==
    /\ phase = "up"
    /\ playing # None
    /\ rows[playing] # None
    /\ SetRow(playing, RecordEngagement(rows[playing]))
    /\ UNCHANGED <<server, run, held, acct, uiVars>>

\* A 30s checkpoint.  It does not wait for a successful engagement.
Checkpoint ==
    /\ phase = "up"
    /\ playing # None
    /\ rows[playing] # None
    /\ SetRow(playing, SaveProgress(rows[playing]))
    /\ UNCHANGED <<server, run, held, acct, uiVars>>

PlayFinished(k, natural, m) ==
    /\ phase = "up"
    /\ playing # None
    /\ rows[playing] # None
    /\ SetRow(playing, RecordFinish(rows[playing], k, natural, m))
    /\ playing' = None
    /\ ArmSync
    /\ LoadHistory
    /\ UNCHANGED <<server, run, held, acct, phase, enabled, undo, prior>>

\* No meaningful position, or the finish write failed: nothing is recorded.
PlayEnded ==
    /\ phase = "up"
    /\ playing # None
    /\ playing' = None
    /\ UNCHANGED <<funnelVars, phase, enabled, history, undo, prior, armed>>

(***************************************************************************)
(* The sync slot of the app                                                *)
(***************************************************************************)
\* Mutated form: a tick that meets a run in flight spends the debounce.
SyncTickDrops ==
    /\ phase = "up"
    /\ armed
    /\ IF enabled /\ ~Syncing THEN StartRun(Tui, "full") ELSE UNCHANGED run
    /\ armed' = FALSE
    /\ UNCHANGED <<rows, server, held, acct, phase, enabled, history, undo, prior, playing>>

\* The debounce fires on a tick; a run in flight re-arms it.
SyncTick ==
    /\ phase = "up"
    /\ armed
    /\ \/ /\ ~enabled
          /\ UNCHANGED run
       \/ /\ enabled
          /\ StartRun(Tui, "full")
    /\ armed' = FALSE
    /\ UNCHANGED <<rows, server, held, acct, phase, enabled, history, undo, prior, playing>>

\* The worker thread could not be spawned; the debounce is spent.
SyncTickFails ==
    /\ phase = "up"
    /\ armed /\ enabled /\ ~Syncing
    /\ armed' = FALSE
    /\ UNCHANGED <<funnelVars, phase, enabled, history, undo, prior, playing>>

\* The event is consumed: the slot is free again.  The list is not re-read.
OnSyncFlushed ==
    /\ phase = "up"
    /\ run[Tui].pc = "done"
    /\ run' = [run EXCEPT ![Tui] = Idle]
    /\ UNCHANGED <<rows, server, held, acct, uiVars>>

\* Settings switch, token expiry.
SwitchSync ==
    /\ phase = "up"
    /\ enabled' = ~enabled
    /\ UNCHANGED <<funnelVars, phase, history, undo, prior, armed, playing>>

\* A connect worker came back signed in: pull then push at once.
OnConnect ==
    /\ phase = "up"
    /\ enabled' = TRUE
    /\ IF Syncing THEN armed' = TRUE /\ UNCHANGED run
                  ELSE StartRun(Tui, "full") /\ UNCHANGED armed
    /\ UNCHANGED <<rows, server, held, acct, phase, history, undo, prior, playing>>

(***************************************************************************)
(* Launch and end of the app                                               *)
(***************************************************************************)
ForgetMemory ==
    /\ history' = NoReply
    /\ undo' = None
    /\ prior' = None
    /\ armed' = FALSE
    /\ playing' = None

\* Orphaned plays are adopted, the list is read, the pull-only refresh starts.
Launch ==
    /\ phase = "down"
    /\ phase' = "up"
    /\ rows' = [s \in Shows |-> AdoptOrphanedProgress(rows[s])]
    /\ LoadHistory
    /\ IF enabled THEN StartRun(Tui, "pullOnly") ELSE UNCHANGED run
    /\ UNCHANGED <<server, held, acct, enabled, undo, prior, armed, playing>>

\* The loop ends: a push-only flush starts, unless a run is already in flight.
Quit ==
    /\ phase = "up"
    /\ phase' = "draining"
    /\ ForgetMemory
    /\ IF enabled /\ ~Syncing THEN StartRun(Tui, "pushOnly") ELSE UNCHANGED run
    /\ UNCHANGED <<rows, server, held, acct, enabled>>

\* The drain deadline passed, or the worker was done: the process is gone.
Exit ==
    /\ phase = "draining"
    /\ phase' = "down"
    /\ run' = [run EXCEPT ![Tui] = Idle]
    /\ UNCHANGED <<rows, server, held, acct, enabled, history, undo, prior, armed, playing>>

Crash ==
    /\ phase = "up"
    /\ phase' = "down"
    /\ ForgetMemory
    /\ run' = [run EXCEPT ![Tui] = Idle]
    /\ UNCHANGED <<rows, server, held, acct, enabled>>

(***************************************************************************)
(* The command line                                                        *)
(***************************************************************************)
CliSync ==
    /\ StartRun(Cli, "full")
    /\ UNCHANGED <<rows, server, held, acct, uiVars>>

\* The process ends, on its own or interrupted at any step.
CliSyncEnds ==
    /\ run[Cli].pc # "idle"
    /\ run' = [run EXCEPT ![Cli] = Idle]
    /\ UNCHANGED <<rows, server, held, acct, uiVars>>

CliPlayFinished(s, k, natural, m) ==
    /\ rows[s] # None
    /\ SetRow(s, RecordFinish(rows[s], k, natural, m))
    /\ UNCHANGED <<server, run, held, acct, uiVars>>

-----------------------------------------------------------------------------
Episodes == 1..MaxProgress

Watch(s) ==
    \/ Play(s)
    \/ playing = s /\ ( \/ Engage \/ Checkpoint \/ PlayEnded
                        \/ \E k \in Episodes, natural \in BOOLEAN, m \in MediaSeen :
                             PlayFinished(k, natural, m))

Browse(s) == Bind(s) \/ PlanIt(s)

EditList(s) ==
    \/ \E status \in StatusKeys, m \in MediaSeen : StatusKey(s, status, m)
    \/ \E n \in 0..MaxProgress : RecomputeKey(s, n)

CommandLine ==
    \/ CliSync
    \/ \E s \in Shows, k \in Episodes, natural \in BOOLEAN, m \in MediaSeen :
         CliPlayFinished(s, k, natural, m)

RemoteClients ==
    \E s \in Shows : RemoteDelete(s) \/ \E pair \in RemotePairs : RemoteEdit(s, pair)

Lifecycle == Quit \/ Crash \/ SwitchSync \/ OnConnect

Next ==
    \/ \E p \in Runs : (RunStep(p) \/ RunFault(p)) /\ UNCHANGED uiVars
    \/ RemoteClients /\ UNCHANGED uiVars
    \/ \E s \in Shows : Browse(s) \/ EditList(s) \/ Delete(s) \/ Watch(s)
    \/ UndoKey \/ ReloadHistory \/ SyncTick \/ SyncTickFails \/ OnSyncFlushed
    \/ Lifecycle \/ Launch \/ Exit
    \/ CommandLine \/ CliSyncEnds

Spec == Init /\ [][Next]_vars

-----------------------------------------------------------------------------
(***************************************************************************)
(* Properties                                                              *)
(***************************************************************************)

\* The snapshot never leads AniList (the INVARIANT of merge_progress): what a
\* row believes AniList accepted is a pair AniList has really held, or the
\* defaults a never-edited show is born clean with -- across optimistic stamps,
\* lost answers, crashes between save and stamp, and deleted rows.
SnapshotHonest ==
    \A s \in Shows :
        rows[s] # None => rows[s].snap \in held[s] \cup {Unset, None}

\* Steps of a pull that write rows.
PullWrites(p) == run[p].pc \in {"import", "apply"} /\ run'[p] # run[p]

\* What run p's write to row s replaces had been on AniList, or is the default.
PullKeeps(p, s) ==
    (PullWrites(p) /\ rows[s] # None /\ rows'[s] # None) =>
        LET old == rows[s].pair
            new == rows'[s].pair
        IN  /\ new.progress < old.progress =>
                  \E x \in held[s] : x.progress = old.progress
            /\ new.status # old.status =>
                  \E x \in held[s] \cup {Unset} : x.status = old.status

\* A pull never discards a local edit AniList has not seen: a status it replaces
\* or a progress it lowers had been on AniList, or is the default of first
\* contact, however the edit interleaves with the run's plan and apply.
PullKeepsLocalEdits == [][\A p \in Runs, s \in Shows : PullKeeps(p, s)]_vars

\* Run p's push is what changes the entry of s.
Pushes(p, s) == run[p].pc = "save" /\ run[p].cur.id = s /\ run'[p].pc \in {"mark", "push"}

\* A push never overwrites an AniList entry its row has not met: the entry it
\* replaces was pulled into this row or pushed from it, unless it appeared in
\* the one round trip between guard and save, or the row pushed is deleted.
NoBlindUpsert ==
    [][\A p \in Runs, s \in Shows :
         (Pushes(p, s) /\ server[s] \notin {None, server'[s]}) =>
            \/ server[s] \in acct[s] \cup {Unset}
            \/ run[p].raced
            \/ s \in run[p].stale]_vars

\* Undo restores the state before the status key: the pair it will write back
\* is the pair the key replaced in the store.
UndoCapturesStore == undo # None => undo.pair = prior

\* What the user edits reaches AniList, or AniList's side wins the merge: where the
\* app is alone, once the edits stop the library settles with nothing left to push.
Alone == [](run[Cli].pc = "idle")
EditsPushed == Alone => <>[](Dirty = {})

\* What a pull leaves behind for its import cap comes with a later one: where pulls
\* keep being made, no show watched elsewhere stays out of the library (IMPORT_CAP).
PullsGoOn == []<>(run[Cli].pc = "fetch") /\ []<>(run[Cli].pc = "done")
ImportsArrive == PullsGoOn => <>[](Importable(server) = {})

\* The two together.
SettlesClean == EditsPushed /\ ImportsArrive
=============================================================================
