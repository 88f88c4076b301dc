# A TLA+ model of sabigoku

sabigoku is a terminal anime browser and player with a local SQLite library
that is kept in step with an AniList account.  This directory models the parts
of it in which several writers, threads, processes or machines meet, and the
decisions that pick one thing out of many.  TLC checks the modules on small
instances; TLAPS proves most of what the runs check for every instance.
Paths below are relative to the repository's `src/`.

## 1. Inventory

| Component | State it keeps | Operations | Hard behaviour | What makes it correct |
|---|---|---|---|---|
| **Store, user state** (`src/store.rs`) | `show` row: status, progress, `library_added_at`, sync snapshot; `episode_progress` | bind, add, set/restore status, recompute, engagement, checkpoint, finish, delete, adopt orphans | each call is one transaction, but callers sit on two connections and in two processes | a row is minted, promoted and deleted without half states; only user actions change user state |
| **Reconcile** (`src/store.rs`) | none of its own | plan (one read), imports, guarded updates, dirty list, stamp | the plan is read outside the transactions that apply it | no unpushed edit is lost; the snapshot never leads AniList; repeated list entries collapse by recency |
| **Sync funnel** (`src/sync.rs`) | the run: list reply, plan, contended ids, work list, spent 429 grace | pull, reconcile, push row by row with a re-read guard | lost answers, 401/429 anywhere, crash between save and stamp, overlap of two runs | a push never overwrites an entry the row has not met; what stays dirty is retried |
| **Application loop** (`src/tui/app.rs`, `src/tui/mod.rs`) | views, panes, modes, History list and filter, undo, armed delete, search, sync debounce and slot | key handlers, tick, event handlers, launch, quit flush, teardown | handlers act on memory loaded before another writer moved the store; results land between two keys | a key acts on what the screen shows; undo restores what the key replaced; an edit is eventually pushed |
| **Playback session** (`src/tui/playback.rs`) | active play, token, engagement, checkpoints, armed continuation with the providers that failed | fire, position, retry, finish, arm/drop continuation | late events of a superseded play, a rescue walk and the user at once | one play at a time; one shot per provider; a rescue ends |
| **Episode session and walk** (`src/tui/episodes.rs`, `src/resolve.rs`) | engaged show, grid, serving provider, walk, cycle aim, staleness token | engage, fetch/search results, fail over, cycle | results of a superseded request, a walk and a cycle at once, absence marks | each provider is tried at most once per walk; every walk ends in a landing or a dead end |
| **Prewarm** (`src/tui/prewarm.rs`) | one probe run over a show's unchecked siblings, ring of attempted shows, spacing | fire, result, tick, cancel | a run against a user walk, a binding minted behind the session's back | one run at a time; it yields to a rescue; it takes no binding from another show |
| **Workers and teardown** (`src/tui/workers.rs`, `src/tui/mod.rs`) | in-flight counters, the bounded queue, generations | begin, post, finish, drain, quit flush | refused threads, panics, an event posted after the count fell, deadlines | a drain returns only when no worker can touch the queue; a quit ends |
| **Store, playback state and caches** | bindings, availability, last-used provider, episode cache, catalogue cache, resume marks | upserts and TTL reads | a resume mark behind the watched frontier, a TTL boundary, a cached listing of another id | a stale partial never becomes the resume point |
| **Store, opening** | schema version, journal mode | open, migrate, retry on lock, verify, probe | processes opening one file at once, dying on the ladder | rungs run once and in order; a file that is not ours is left alone |
| **AniList client** (`src/anilist.rs`) | none | list, viewer, entry, save, search, pages | null shapes that look like absence | absence is claimed only for the one shape that means it |
| **Login** (`src/login.rs`, `src/loopback.rs`, `src/auth.rs`) | listener, state nonce, token file, modal | connect, callback, verify, save, cancel | a late callback, cancel against answer, two processes' saves | the token file holds only a token confirmed for the login that asked |
| **Player, proxy** (`src/player.rs`, `src/proxy.rs`, `src/aniskip.rs`) | attempt, mpv process, IPC socket, last position, pending skips, loopback server | launch, watch, judge, retry, relay, skip | process exit against IPC end, a socket cut before it, redirects, decoys, seeks of the viewer during a skip | the last position is kept and judged once; every hop is vetted; a skip happens once |
| **Providers, resolver, fetch guard** (`src/providers/`, `src/resolver.rs`, `src/fetchguard.rs`) | none | search, match, episodes, labels, servers, variants, captions | half-broken sites, ambiguous titles | a failure is never read as "not stocked"; the work bound is the work meant |
| **Covers, Discover** (`src/tui/covers/`, `src/tui/view/discover.rs`) | LRU tiers, disk, bounded pumps, protocol slot, feed slots | load, pump, evict, file, draw | results for a selection that moved, two loads of one url, a kill during a write | a pump keeps its bound; what is on screen stays; a cover on disk stays whole |
| **Enrichment** (`src/tui/view/detail.rs`, `src/store.rs`) | catalogue cache, the row's metadata, the fetch in flight | stale check, fetch, refresh, promote | a late answer after the selection moved or the row was deleted | it is shown for its own show, mints nothing and takes nothing away |
| **Command line** (`src/main.rs`, `src/cli.rs`) | none | play, sync, login, update | runs beside the app on one database | the same store contracts as the app |
| **Update check, self-update** (`src/updatecheck.rs`, `src/update.rs`, `src/semver.rs`, `install.sh`) | the check's cache, the binary | check, refresh, install under a deadline | two invocations, a torn cache, a child that outlives its deadline | installs only go forward and are reported truly |
| **Legacy import** (`src/zimport.rs`, `src/store.rs`) | the offer's flag, the old library | read, fold, offer, land | deaths between offer and landing, a second process | what the old library says is brought over once, members are spared |
| **Rendering** (`src/tui/view/`, `src/tui/layout.rs`, `src/tui/chrome.rs`) | scroll offsets, pane split | layout, windows, bars, toasts | resizes, short terminals, lists that shrink | the selection is in its window; parts do not overlap |
| **Configuration and domain** (`src/config.rs`, `src/domain.rs`) | the settings file, dates, labels | load, edit, save; civil dates, cours, hints | a save cut short, two tracks' labels | the file is never torn; what the settings show is what the file keeps |

Interactions: the UI thread consumes one event at a time and calls the store
and the sessions synchronously; workers are detached threads that own their own
store connection and post one event back; the command line is another process
on the same database; AniList is a server other clients write too.

## 2. Modules

The core is composed; the satellites stand alone, because in the code they share
no state with it beyond what each of them takes as an input.

| Module | Models | State and actions |
|---|---|---|
| `ShowRow` | one `show` row, the pure effect of every writer, the merge | `Row` = pair, member, snap, logged; one operator per store method; `MergePair`, `PlanFor`, `NeedsWrite` |
| `SyncFunnel` | `run_sync` / `flush_push` in single round trips and single SQL transactions | `rows`, `server`, `run[p]` with a program counter; `RunStep` is what a run does, `RunFault` what goes wrong with it |
| `Library` | the application loop, the command line and AniList's other clients around the funnel | `phase`, `enabled`, `history`, `undo`, `armed`, `playing`; one action per handler |
| `Replicas` | several machines and one AniList entry, whole syncs; and the fold of repeated list entries | `entry`, `row[d]`; `list`, re-ordered by the environment |
| `Walk` | `resolve.rs` and the provider order, as pure operators | `ClassifyOpen`, `AutoWalk`, `ManualWalk`, `Hops` over a world record |
| `EpisodeSession` | `episodes.rs` over bindings, absences, last-used and the episode cache | `ses`, `shown`, `track`, `inflight`, the store tables, `said`; one action per handler |
| `WalkPromise` | the abstract walk: a set of providers to ask, one at a time, none twice | `errand`, `walking`, `left`, `asking` |
| `PlaySession` | plays over the session: fire, failure, continuation, relaunch | `active`, `continuation`; the session's actions with what the application adds to them |
| `Prewarm` | the sibling probes beside both sessions | `run`, `probes`, `attempted`, `spaced` |
| `StoreOpen` | `Store::open` of several processes | `file`, `at[p]`, `tx[p]`; one action per statement that can fail or be seen |
| `ResumeMark` | the watched frontier, the partials per track and the offer of a resume point | `progress`, stamps, rows per track, `clock` |
| `LegacyImport` | reading, folding, offering and landing the predecessor's library | the rows read, the offer, the library |
| `Discover` | feed slots, card grid and cover pump | `feed`, `asked`, `cover`; pages, keys, resizes, evictions |
| `CoverCache` | one load through decoded tier, raw tier, disk and network, by several workers | `tier`, `disk`, `load[w]` |
| `Covers` | the poster of the selected show and its encode worker | the decision table, the fetch, the slot and its numbered requests |
| `Navigation` | keys, views, panes, modes, the shared detail, armed delete, landing, settings' save | one action per key class and per result |
| `QueryPlay` | `sabigoku <query>` beside a running app | `stage`, the arguments, the store `shelf` |
| `Search` | the debounced catalogue search | `asked`, `resultList`, tokens |
| `Enrichment` | what is known of a show and its single-flight refresh | row, cache, detail, the fetch in flight |
| `Runtime` | queue, loop passes, workers' counters, drains, quit flush | `pc`, `queue`, `clean` |
| `Login` | logins of app and command line, port, token file, modal | `worker[l]`, `port`, `authFile`, `modal` |
| `Adapters` | one call of each provider, document by document | `stage`, `site`, `reply` |
| `Mpv` | one play on its worker, its watcher and proxy; and the skip windows in it | `phase`, `round`, `reported`; `skips`, `pending` |
| `Relay` | one connection of the proxy | `reached`, `known`, `direct`, `sent` |
| `Update` | check, cache and self-update | `binary`, `cache`, `cli` |
| `Catalog` | one AniList call and the caller that pushes | `account`, `post`, `body`, `result` |
| `Matching`, `Variants`, `Airing`, `Labels` | title matching, HLS variants, dates and cours, labels and servers and captions | pure operators over lists the environment edits |
| `Panes` | the geometry of the screen, and the windows of its lists | a frame, a header, a list with its offset |
| `Notices`, `Preferences` | toasts and alarms; the settings and their file | timers; `stored`, `edits` |
| `MCLibrary`, `MCPlay`, `MCPrewarm` | TLC instances of the core | `left`, a budget per kind of outside step |
| `MCData`, `MCThreads` | TLC instances of the satellites | `part`: a behaviour picks one satellite and runs it, the others stay parked |
| `SyncProofs`, `PlayProofs`, `ThreadProofs`, `ClientProofs`, `DataProofs`, `PickProofs`, `ThreadTypes` | the theorems, section 4 | |
| `Induction` | induction over the naturals and recursive functions, for the proofs | |

`Library` EXTENDS `SyncFunnel`, which EXTENDS `ShowRow`; `Replicas` uses the same
`ShowRow`, so that a change of the merge is seen by both.  `Prewarm` EXTENDS
`PlaySession`, which EXTENDS `EpisodeSession`, which EXTENDS `Walk` and is shown
to implement `WalkPromise` (`KeepsPromise`, an INSTANCE with the errand mapped to
show, track and armed settle, the set left to the providers ahead of the walk's
cursor).

Atomicity.  A UI handler is one step because the UI thread runs one at a time
and the store write in it is one statement or transaction.  A sync run is split
at every network round trip and at every transaction: `reconcile_plan` is one
read, each import one `BEGIN IMMEDIATE`, each guarded update one `UPDATE`, and
between any two of them every other actor may act.  The 1500 ms spacing and the
back-off sleeps are the gaps between two such steps.  `StoreOpen` and `CoverCache`
are split at every statement or file operation a peer or a kill can fall between.

In the session every handler of the UI thread is one step and a worker is a
request in `inflight` whose answer comes at any later time and in any order.
Several hops that one handler takes, because threads are refused or a cached
listing lands at once, belong to that handler's step.  The generation counter
is folded into the requests: it only grows and is only compared for equality,
so a request keeps `fresh`, whether its token is the current one, and a bump
makes all of them stale.  A row past its TTL reads as missing, so `absent` and
`cache` hold the fresh rows and an expiry removes one.

Abstractions of the session.  A listing is its provenance (show, provider, id,
track); labels, cursor, resume mark, remapping and the availability rail are
left out, and whether a sibling lists the episode that failed is a free choice.
A provider id is the show the provider means by it: a canonical key is right, a
title search may return any show's.  The OS may refuse a thread only where
`MaySpawnFail` says so.  `Narrow` is the width class of the terminal, which
decides whether a History delete moves the detail surface.  Store errors are
those the schema causes: the foreign key of a cache or last-used row.

Abstractions of the library.  Titles, dates and enrichment columns are left out; the two
columns the writers read (episode total, airing) are an argument drawn by the
environment, because a refresh may rewrite them at any moment.  An import seed
is membership in `Seeded`.  The token, its expiry and the settings switch are
one flag, `enabled`.  `Repeating` is folded into `Watching` where the client
decodes it.  The episode log is one bit, `logged`, and a recompute draws the
high-water mark from the whole range.

Abstractions of the satellites.  A document is what the code tells apart in it
(served, refused, garbled), a cover is its size and whether its bytes are whole, a
time is a class or a small count, a title is a short sequence of words.  The LRU order
of the cover tiers is a relation between stamps (`older`), which is all the
code's counters are compared for; bytes are counted as the cardinality of a set of
numbered bytes, so that the account of a tier and what it holds are two different
things that have to agree.

History variables exist for the properties and no guard reads them: `held` (pairs
AniList has held), `acct` (pairs this incarnation of the row has met), `prior`
(the pair a status key replaced), the run fields `stale` and `raced`, `shots` and
`gone` of a play, `verified` of the logins, `read`, `truth` and `moved` of the
catalogue, `was` of a relayed stream.

## 3. Runs

| Run | Question | Properties |
|---|---|---|
| `OneShow` | Does any interleaving of a sync, edits, a delete, a play, a quit or crash, one fault and one foreign edit leave a row that believes something AniList never held? | `TypeOK`, `SnapshotHonest` |
| `TwoRuns` | Does the same hold of edits when the app's run and the command line's overlap? | `PullKeepsLocalEdits`, `NoBlindUpsert` |
| `Settles` | Is every edit pushed in the end, and does everything watched elsewhere arrive past the import cap? | `SettlesClean` |
| `Walks` | From any store, is a walk a walk (at most once each, a hop in flight, bindings first, an end that says so), does a play that fails over ever return to a provider or lose its show or row, and does everything end? | `TypeOK`, `WalkSpeaks`, `BindingsHonoured`, `PlayHonest`, `KeepsPromise`, `ComesToRest` |
| `Surface` | With two shows and two tracks, do late answers reach the wrong grid or the wrong cache row? | `SpinnerHonest`, `GridTrue`, `ServingRemembered` |
| `Rescue` | Do probes behind a play keep to themselves, and do a probe run and an armed continuation come to an end? | `WarmTypeOK`, `WarmSafe`, `WarmEnds` |
| `Data` | Does each satellite that keeps or shows data keep its promises? | below |
| `Threads` | Does each satellite that waits for something keep its promises, and does every wait end? | below |
| `UndoCapture`, `ReAdd`, `GhostPlay`, `StrandedDemote` | disagreements between code and documentation, section 5 | one each |

Several properties bundle named parts that speak about one question:

| Property | Parts |
|---|---|
| `WalkSpeaks` | `WalkAnswered`: an armed walk has a hop in flight; `NeverSilent`: it ends in a landing or says so |
| `SettlesClean` | `EditsPushed`: where the app is alone nothing stays dirty; `ImportsArrive`: where pulls go on nothing importable stays out |
| `BindingsHonoured` | `BindingsWin`: no key is fetched for an open while anything is bound; `BindingsAsked`: a dead end leaves no binding unasked |
| `PlayHonest` | `ContinuedPlay`, `PlayRowKept`, `OneShot` |
| `GridTrue` | `GridHonest`, `CacheHonest`, `GridBound` |
| `WarmSafe` | `SingleFlight`, `NeverSteals`, `RescueOwnsNetwork` |
| `WarmEnds` | `RunEnds`, `RescueEnds` |
| `OpensWhole` | `LadderWhole`, `SeedServes`, `SaneOpens`, `StrangeUntouched`, `UseSurvives` |
| `ResumeHonest` | `DeadOnlyByImport`, `FinishAdvances`, `CorrectionKeepsResume` |
| `ImportHonest` | `FoldHonest`, `OneOwnerImported`, `PinsServe`, `ImportSparesMembers`, `OfferKept` |
| `DiscoverSound` | `FeedInOrder`, `FeedSingleFlight`, `PumpBounded`, `CoverSingleFlight`, `ScreenKept` |
| `CacheSound` | `TiersBounded`, `NeverTorn`, `DiskStaysWhole` |
| `MergeSound` | `CollapseSound` (`OrderIndependent`, `NewestKept`), `UnpushedEditWins`, `CorrectionSurvives` |
| `ReplicasAgree` | `Converge` |
| `QuerySound` | `NothingForDeleted`, `TitlesSearched` |
| `PicksHonest` | `MatchSound`, `VariantsSound`, `AiringSound`, `LabelsHonest` |
| `ScreenHonest` | `KeysActOnWhatIsSeen`, `PanesSound`, `WindowsSound` |
| `DrainsSound` | `DrainSettles`, `NoLostWakeup` |
| `RelayHonest` | `LedTruly`, `NothingAside`, `EveryHopVetted`, `StreamBare` |
| `ScreenSpeaks` | `SearchHonest`, `NoticesSound`, `PreferencesSound` |
| `CallsHonest` | `AbsenceHonest`, `DubBoundary`, `CuesNeverWorse`, `HostsServe` |
| `PlaySound` | `PlayKept`, `SkipsSound` |
| `EnrichHonest` | `SurfaceOwn`, `NeverMints`, `KnownKept` |
| `PosterHonest` | `DrawnOnce`, `LateArtDropped` |
| `UpdateSound` | `NewsNewer`, `QuietAfterReport`, `OnlyForward`, `ReportTrue` |
| `CatalogHonest` | `NothingUnreadOverwritten`, `SavedIsSaved`, `PushedReadsBack`, `PullInventsNothing` |
| `WaitsEnd` | `WhatBeginsEnds`: quits, searches, calls, plays, posters, installs, requests and posts end; `NothingStranded`: no tick starves, no cancelled port stays taken, a stale show is asked for; `WrongComesRight`: a stranded modal and a wrong poster heal |
| `DataTypeOK`, `ThreadsTypeOK` | the type invariants of the parts |

Bounds of the library.  One show is enough for the safety runs of the funnel: no step of the
code relates two rows except the import cap, which `Settles` has two shows for (with a cap of one),
and the undo, which no passing run is about.  `MaxProgress = 2` gives the merge a
lower, an equal and a higher side.  Two runs are all the code can have at
once on one machine: the app has one slot and a command-line sync is the other.
Budgets count how often the environment acts; each run's budgets are the least
with which every action it is about fires in combination.  Deadlock checking is
off because budgets run out, plays end and programs quit.

Bounds of the sessions.  Three providers give a walk a first, a middle and a
last hop and a manual circle that wraps; `EndsKeyed` gives the first and the
last a canonical key and leaves the middle one to title search.  `Walks` starts
from every store an earlier session can have left on one show, below the
two-pane split; `Surface` trades the warm start and the third provider for a
second show and track, which is what answers can be mistaken between, has
refused threads and two panes, and makes the second provider the configured
head.  A user step that could start a request waits while two are outstanding:
only the newest can be current, and a second already shows every way a stale
answer can overtake.

Bounds of `Data` and `Threads`.  Each part has the least of everything with which
its hazard can happen: two openers and one lock retry, so that one climbs while the
other waits and gives up; two covers of sizes 2 and 1 over caps of 2 and 3, so that an
entry can be too large, fill a tier alone, or share it; two axes of three and
two rows with pages of one, so that the last page and the empty page come up; three
providers' worth of hosts with two tries, so that the budget ends before the list;
three threads and a queue of one, so that a post blocks behind another.  A
part's bound on outside steps (`MaxSteps`, `MaxEdits`, `MaxSearches`, ...) is
named in its module and in the cfg.

Fairness.  `MCFairSpec` assumes that the app's worker thread runs (`WF` on its run's
steps), that the event queue is drained and that the debounce ticks.  Users, other
clients, faults, the command line, which may be interrupted, and thread-spawn failure
owe nothing.  `Settles` has three instances: the app with edits and a play; an edit,
and then an add, beside a `sabigoku sync` that may be run again without end.
`EditsPushed` speaks of the behaviours in which the app is alone: a row the guard holds
back because another run moved it is retried by the next run, and nothing schedules one.
`ImportsArrive` speaks of those in which pulls are begun and ended again and again, since
nothing in the code asks for what a capped pull has left.  The run has no fault and
no foreign client, because the code promises nothing there; two machines are `Replicas`'
concern.  `Data` assumes, for `Converge` alone, that every machine keeps syncing, which
launches, sign-ins and edits do.  `Walks` and
`Rescue` assume that some outstanding answer is handled or a due settle ticks
(`WF` on `SystemStep`): every provider call has an HTTP timeout and its worker
posts exactly one event, and the loop ticks.  Users, players and expiries owe
nothing.  `Rescue` leaves `v` and refused threads out, because `GhostPlay` and the
refused thread of section 5 show that the code strands a continuation or a walk
with them.  In `Threads` each part is fair to the threads, timers and deadlines the
module names, never to a user, a viewer or a site.  Because a behaviour
keeps its part, one weak fairness of a union with one disjunct per part
(`Fair1` ... `Fair8`) stands for one weak fairness of each disjunct in its part; its
subscript is the running part's variables, the only ones that change.

## 4. Proofs

TLAPS checks 50 theorems that a reader should know of, for every value of the
constants that the named assumptions of the modules admit: numbers are
naturals, `None` is none of the values it stands apart from, `Registry` is a list of
distinct providers, the two members of `Runs` differ, a release list is not empty, a
resolution cap and a variant's height are positive, a show has a title, the first days of the
calendar are the dates `Civil` gives them (TLC evaluates that one).
No theorem bounds the number of steps, shows, edits, threads, answers or openers;
the budgets of section 3 are those of the MC modules and are not part of the
specifications the theorems speak of.

**Library** (`SyncProofs`).  `TypeCorrect`: `TypeOK` alone is not inductive,
because the steps after a guard use the row being pushed, so `TypeInv` adds that
`cur` is a row wherever the program counter is at `save` or `mark`.
`SnapshotsAreHonest` and `PullsKeepLocalEdits` rest on `HonestInv`: every pair a run carries
towards a snapshot has been on AniList (the list reply, the snapshots and the
imports planned from it, the pair between save and stamp), and every planned
update was computed by the merge from its own guard pair and an honest base.
`held` only grows, so the invariant survives the steps of all others.  The action
property follows because a guarded update that hits replaces exactly its guard
pair.  `PushesOverwriteWhatTheyMet` adds `UpsertInv`: what a row was stamped with, this
incarnation has met (`MetRow`), or the row has been replaced since
(`stale`); and a run that has passed its guard may only be surprised in the one
round trip that `raced` records (`GuardStands`).  Its hypothesis is that no
run stamps a row that was deleted and added again under it
(`[][~StampsReAdded]_vars`).  It cannot be dropped: `ReAdd` is a behaviour with such a
stamp and without the property.

`SyncIsOneStep` is the refinement that `Replicas` stands on: its `Sync` is a whole funnel run in
one step.  `entry` and `row` are mapped to the entry and the row of one show as they were
before the run, until it is done; then to what it leaves.  Under `LoneSync` (nobody but the run
touches that row and that entry, the run has no fault but the 429 it retries, a row outside the library is
as it was minted, and the cap has room for every seed) every step of the library is `Sync` or a
stutter.  Other shows may be edited, deleted and moved on AniList meanwhile.  The invariant
`OnCourse` says at each program counter what of the pull and of the push of this show is still to come;
one consequence is that the guard never holds such a row back (`GuardStandsAlone`).

**Sessions** (`PlayProofs`).  `SessionInv` ties the three things
that drift apart in the code: at most one request is `fresh`, it is of the
session's show, track and probed provider, and the spinner turns exactly while it is
out (`GoodRequests`); a grid is the listing of the shown show by the serving
provider (`GoodSession`); every binding has its row and every cached listing its
key (`StoreInv`).  `PlayInv` adds that the providers a watch was launched
on (`shots`) are those that failed it and the one that plays.  The walk engine's
hops are a recursive function over the places of a walk, and what a chain of hops
does is proved by well-founded induction over the walk's cursor.  From
these follow `PlayTypeCorrect`, `SpinnerIsHonest`, `GridIsHonest`,
`PlaysAreHonest` without further hypothesis; `GridIsTrue` and
`ServingIsRemembered` for two panes (`~Narrow`), because below the split the code
lets a deleted show's session survive; `WalksSpeak`,
`BindingsAreHonoured` and `WalksKeepPromise` where the OS grants threads
(`~MaySpawnFail`), because `on_search_done` ignores a refusal (section 5).
`WalksKeepPromise` is the refinement of `WalkPromise`: the initial states map to
initial ones, and each handler's step maps to `Begin`, `Hop`, `Over` or a stutter.

**Prewarm** (`PlayProofs`).  `RunInv`: the one probe out is the run's own, and a rescue
has told the run to yield.  `WarmTypeCorrect`, `ProbesAreSafe`, and
`WarmKeepsSurface`, `WarmKeepsGrid`, `WarmKeepsPlays`, `WarmKeepsWalks`: everything the
sessions promise holds beside the probes too, under the same hypotheses, but for
`BindingsWin`.  That one is proved for the sessions alone, because it is false beside the
probes: a probe may mint a binding while an open fetches a key.

**Threads** (`ThreadProofs`).  `DrainsAreSound`: counts equal the threads alive
(`Counted`), nothing is drained while the loop runs (`InPlace`), and whoever sleeps
has work to wait for or a notification on its way (`Attended`).
`OnlyVerifiedTokens`: a login past its callback holds its own token, one past its verification
a confirmed one, and the two files hold nothing else (`TokensConfirmed`); this is
what makes the shared temporary name harmless for *which* token is kept.
`RuntimeTypeCorrect`, `LoginTypeCorrect`.

**Player** (`ThreadProofs`).  `PlaysAreSound`: what lies in the pipe are the
positions between what the watcher has read and what mpv has written
(`PipeInOrder`), the judgement comes after the watcher has returned (`JudgedOnce`) and
the proxy is up around mpv (`ProxyAround`).  The watcher may return early (`WatchCut`: the
subscription cannot be written, a read fails, a line passes `MAX_IPC_LINE_BYTES`) and the wait for
mpv may fail (`PlayError::Wait`); a play whose socket was cut ends with the last position that was
read, and is started over only if none was.  For the skips, a window is announced
once and the picture is, as long as the viewer had no hand in it, no farther
from the point of entry than the announcement has lasted (`InBounds`).

**Network** (`ClientProofs`).  `CatalogIsHonest` (what was read of an entry still holds
unless another client moved it), `UpdatesAreSound` (a tag is decided on only if it is newer,
and the installer has replaced the binary only where it says so),
`EnrichmentIsHonest`, `PostersAreHonest`, `CallsAreHonest` (the bisection keeps a dubbed episode
below and an undubbed one above; what is not left of the embeds was dead; the best
caption so far beats the first), `RelaysAreHonest` (over plain references a connection knows only URLs a
direct player would have been led to, the hop in flight is on the redirect chain of the URL that was
asked for, what left the sanitiser is what its rule for that part leaves, `Unwrapped`).

**Data** (`DataProofs`).  `FilesOpenWhole`: one holder of the write lock, whose
transaction is a whole schema on the ladder, and whose base is what is on disk
(`Stands`).  `ResumesAreHonest`: what could be offered was written since the
frontier last rose (`OfferedLive`).  `GridsAreSound`: a slot's rows are its own pages in
order and it waits for exactly one fetch (`SlotOk`, `AskedOk`).  `CoversStayWhole`: a tier's
total is the size of what it holds (`TierGood`); that the eviction loop
ends within the cap is an induction over how many entries it has dropped.
`QueriesAreSound`: the words of the command line stay what they were, the title that is
searched is what is left once the flags are taken out, and nothing is written for
a show that was deleted meanwhile (`ArgvKept`).  `ImportsAreHonest`: the fold over the
legacy rows keeps, of each show, the row that ranks highest, no two shows own one provider
id, and a pinned seed is served (`Owned`, `Spared`).  `MergesAreSound`: of the first n copies of
a duplicated entry the one kept so far is outranked by none (`BestKept`), so the order of the
copies is immaterial; and one sync of a replica keeps an unpushed edit and a correction
downwards.

**Screen** (`ThreadProofs`, `DataProofs`).  `ScreenIsTrue`: the rows of a search are the pages
answered for the title asked, in order (`SearchesAreHonest`); the list of toasts is tidy
and an alarm outlives no deadline (`NoticesAreSound`, `Tidy`); what is on disk is what was saved
last and a dirty flag stands for a difference (`PreferencesAreSound`, `PrefInv`).
`ScreensAreHonest` joins three: `KeysAreHonest` (the confirm prompt is about the row under the
cursor, the undo has a row to write to, the session is of the surface; the list shows rows of the
library, though a row saved since the list was read is not in it yet: `ScreenInv`,
`SessionInv`, `LibraryInv`, `SurfaceInv`), `PanesAreSound` (the lines of a layout follow one
another and no part is drawn over another, in every terminal of the assumed sizes; arithmetic of
shares and divisions: `PaneInv`), `WindowsAreSound` (the selection and its header are in the window of
a scrolled list, grouped or not, and a selection follows its row over a reload: `WinInv`).

**Picks** (`PickProofs`).  What is picked is computed by folds, scans and stable sorts over a list; each
is a recursive function of the position, about which an induction says what it has found after n
entries.  `VariantsAreSound`: the variant played is the best the cap leaves, or the lowest
when it leaves none, so a longer playlist keeps the pick or takes the new line, and another order
keeps its height.  `LabelsAreHonest`: a label stands for one episode as long as the site only appends, because
the offset of a season is that of its first row wherever the rest is.  `MatchesAreSound`: `Match` is
characterised without its scan (`IsBound`: the position is the one corroborated hit, or the
one whose score leads), and a characterisation that speaks of no order carries over to a
rearranged list and to one with an inserted stranger.  `AiringIsSound`: `Civil` is inverted
era by era - the year of a day of the era, the month of a day of the year - and `CivilSteps`
proves, for every integer day, that the date of the next day is the next date; hence no cour is
skipped.  `PicksAreHonest` carries the four to `DataSpec`.

**Composition** (`PickProofs`, `ThreadTypes`).  `DataTypeCorrect`: the type invariant of `MCData`.  A
step of the whole is a step of the running part or a stutter of it (`DataStep`), so the
whole satisfies the specification of each part (`DataRunsParts`) and what is proved of a part
alone holds in it.  Beyond types it has the History cursor on its list, retries within
their limit, the selected card's row on the screen, an import's provider ids within
the list.  `ThreadsTypeCorrect`: the type invariant of `MCThreads`.  `PartsInv`
is the invariant of every part, and a step of the whole is a step or a stutter of each
part (`EachSteps`), so what the modules above prove of a part alone holds of it in the whole.
Stronger than types are the bounds it carries: the hosts tried stay within
the budget, the poster slot serves one request, and every answer was a fetch.

**Induction** (`Induction`).  The library's induction rules take an operator and no installed
prover can instantiate one; the proofs here go through sets instead: a non-empty set of
naturals has a least element (`LeastOf`, from `NatLessThanWellFounded` and `WFMin`), so a set
with 0 and every successor is all of them (`Reached`, `ReachedUpTo`).  The folds, walks and
scans of the models are recursive functions over the positions of a list, which
`Recursion` and `MadeUpTo` unfold; what such a function has computed after n entries is then an
induction over n.

Only model-checked: the liveness properties (`SettlesClean`, `Converge` in `ReplicasAgree`,
`ComesToRest`, `WarmEnds`, `WaitsEnd`), which are beyond the prover.  Every invariant and every action
property of the passing runs is stated by a theorem, under the hypotheses named above.

## 5. Disagreements found

* `UndoCapture`: the undo captures the in-memory pair, not the stored one; a
  pull between the two makes `u` write back a pair the key did not replace.
* `ReAdd`: `mark_synced` stamps whichever row has the id; after delete and add
  during a push the new row reads as synced with the old row's pair and its
  first push overwrites AniList.
* `GhostPlay`: a `v` that wraps back kills the rescue walk and not the play
  continuation it served; a later `v` relaunches the episode by itself.
* `StrandedDemote`: the arm of the startup landing is keyed by the show; a walk
  superseded before its answer leaves it, and the user's next walk falls
  back to the list.

Met while modelling, and without a run of their own:

*Sessions.*
* `on_search_done` (`src/tui/episodes.rs:463`) ignores that the listing's thread was refused;
  the walk stays armed with nothing in flight, although `:346` calls a spawn
  failure "one more miss, never a stop".
* An empty answer through an existing binding leaves a provider both bound and
  absent, which `bind_provider` is documented to exclude.  Walks are not misled
  (`BindingsAsked`), and the rail prefers the binding.
* Below the two-pane split a deleted show's session survives on the detail
  surface, with a grid that no binding can play.
* A prewarm answer after a History delete mints the identity row again; a stale
  candidate list may overwrite a binding the user's walk minted meanwhile; a `v`
  does not cancel a live run (`src/tui/app.rs:1229` against `docs/port/04` §6).

*Library and screen.*
* `on_sync_flushed` never reloads the History list, which
  `docs/port/04-tui-runtime.md` says it does when rows were reconciled; this is
  the window `UndoCapture` uses.
* A quit while `syncing` is still set skips the quit flush; a panicked sync worker
  keeps the slot.
* A search page that lands while another view shows pushes the Browse selection
  onto the shared detail (`src/tui/app.rs:378-390`); an enrichment that renames a show
  under a filter can move the row from under an armed delete; Enter on an empty Discover
  zooms onto the show shown before.
* esc with a search in flight leaves its spinner; page 1 with no entries and
  `hasNextPage` makes Discover ask for page 1 at each tick.
* The History selection is not scrolled into view by a load, a filter edit or a
  resize; `on_resize` of Discover does not clamp its scroll row.  On a top bar of 16 to
  28 columns the active label runs under the dot; the confirm prompt of an
  80-column terminal pushes `esc cancel` off for titles of 21 columns and more;
  `pane_split` overflows above 1724 columns.
* `persist_settings` clears its dirty flag before a save that may fail; a corrupt
  settings file loads as defaults and is overwritten; `:dub` leaks into the file.

*Files and network.*
* A legacy import writes progress without `progress_stamped_at`
  (`src/store.rs:1803-1905` against `:465-466`), which is the exception in `DeadOnlyByImport`.
* A cancelled login whose callback is being verified still saves and posts, and
  its result closes the next login's modal (`src/tui/app.rs:1367`).
* The poster slot restarts its request numbers at 0, so a late response of the
  image before may be shown for a moment (`src/tui/covers/render.rs:172-212`); it heals
  (`PosterHeals`).
* Both writers of the update cache, two savers of the token and of the settings share a
  temporary name; a deadline right after the installer's rename reports the
  binary untouched.
* `enable_wal` flips the journal mode of a too-new file before the version is
  refused.
* `join_url` reads a `//host/` reference as a path of the base's host and a `data:` URI as a file
  beside it, the gap `docs/port/backport.md:24` keeps open; `Join` does as the code does, `Resolves` as
  a player does, and `LedTruly` speaks of the `Plain` webs, where the two agree.
* anibd spends its player budget before vetting (`src/providers/anibd.rs:408`), unlike anineko;
  megaplay reads a 200 page without `data-id` as not stocked; the dub
  bisection assumes that the dub is a prefix.
* A lone prefix title without metadata binds; anidbapp's labels shift when the site
  takes its first row down.
* Overlapping community windows, or a seek during the 0.4 s announcement of a
  skip, can throw the picture back: a pending absolute seek is never cancelled.
* A `P` takes the list's entry in memory, so a stale page entry overwrites
  fresher fields; the catalogue cache keeps a total the show row clears.

## 6. Not modelled, and why

Colours, glyphs, wording, help lines, file locations, query texts and the decoding of
third-party pages are conversions without state the properties could be about.
Store errors of UI writes change nothing but a toast.  A base URL whose query holds a slash, which
`join_url` would cut at, is not among the URLs of `Relay`.  Two apps on one database are
modelled where they meet (`StoreOpen`, `Login`, `Update`, `LegacyImport`); in `Library` the second
one adds only actors of a kind the command line already is, except for
delete.  The meta table, `unbind_provider`, the clipboard, and functions only tests call
(`raise_progress_to_union`, `promote_catalog_to_show`) are left out.

## 7. Plan

Left to do: the definitions of adapters that share lines with another one, of which the map
names a representative only; the session's labels and resume mark inside `EpisodeSession`
rather than beside it (`Labels`, `ResumeMark`).
