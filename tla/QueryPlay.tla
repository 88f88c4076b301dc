----------------------------- MODULE QueryPlay ------------------------------
(***************************************************************************)
(* `sabigoku <query>` (src/main.rs, run_play_cli and play_flow; src/cli.rs,*)
(* parse and the picks): one provider, search, pick, episodes, pick, play, *)
(* finish.  The library is best effort: each of its calls may fail and the *)
(* play goes on.  A running app shares the database and may delete or bind *)
(* in between.                                                             *)
(***************************************************************************)
EXTENDS Integers, Sequences, SequencesExt, FiniteSets

CONSTANTS
    Words,      \* search words that are no command and no flag
    MaxArgs,    \* bound of the run: arguments
    Keyed,      \* AniList ids the provider may state for a hit
    Offers,     \* Offers[l]: the episodes of listing l of the provider
    PickTries   \* MAX_PICK_ATTEMPTS

Unkeyed == 0
NoOffer == 0
OfferIds == DOMAIN Offers

ASSUME QueryAssumption ==
    /\ Unkeyed \notin Keyed /\ NoOffer \notin OfferIds /\ PickTries \in Nat \ {0} /\ MaxArgs \in Nat
    /\ \A l \in OfferIds : Offers[l] \in Nat

VARIABLES
    argv,      \* the arguments
    stage,       \* how far the run is
    opened,    \* the library opened
    hit,       \* the picked hit: [key, listing]
    menu,      \* the episodes offered: [of, count]
    episode,   \* the picked episode
    started,   \* the position the play starts at
    exit,      \* the exit code, -1 while running
    tries,     \* lines read at the prompt
    shelf      \* the library: [rows, owner, cached, marks]

runVars == <<argv, stage, opened, hit, menu, episode, started, exit, tries>>
queryVars == <<runVars, shelf>>

-----------------------------------------------------------------------------
(***************************************************************************)
(* The arguments.                                                          *)
(***************************************************************************)
Commands == {"login", "sync", "update"}
KnownFlags == {"--dub", "--sub", "--debug"}
OtherFlags == {"--quality", "--quality=", "--version", "--other", "-o"}
Arguments == Words \cup Commands \cup KnownFlags \cup OtherFlags

ASSUME WordsAssumption == Words \cap (Commands \cup KnownFlags \cup OtherFlags) = {}

\* What is_subcommand passes over: whatever starts with a dash.
Flag(a) == a \notin Words \cup Commands

\* What parse_query takes for a word of the title: a single dash is no flag to it.
Titular(a) == a \in Words \cup Commands \cup {"-o"}

\* Mutated form: a command anywhere among the words.
FirstWordAny(args) == ToSet(args) \cap Commands

\* is_subcommand: the first argument that is no flag, if there is one.
FirstWord(args) ==
    {args[i] : i \in {j \in DOMAIN args : ~Flag(args[j]) /\ \A k \in 1 .. (j - 1) : Flag(args[k])}}

\* The scan of parse_query: --quality takes the next argument, whatever it is.
Scan(acc, a) ==
    IF acc.bad THEN acc
    ELSE IF acc.value THEN [acc EXCEPT !.value = FALSE]
    ELSE CASE a \in {"--dub", "--sub"} -> [acc EXCEPT !.dub = (a = "--dub")]
           [] a = "--quality" -> [acc EXCEPT !.value = TRUE]
           [] a \in {"--quality=", "--debug"} -> acc
           [] Titular(a) -> [acc EXCEPT !.words = Append(@, a)]
           [] OTHER -> [acc EXCEPT !.bad = TRUE]

NothingScanned == [words |-> <<>>, dub |-> FALSE, value |-> FALSE, bad |-> FALSE]

\* What the scan has found after the first n arguments.
Scanning(args) ==
    LET met[n \in 0 .. Len(args)] == IF n = 0 THEN NothingScanned ELSE Scan(met[n - 1], args[n])
    IN  met

Scanned(args) == Scanning(args)[Len(args)]

Outcome(kind, words, dub) == [kind |-> kind, words |-> words, dub |-> dub]

\* cli::parse
Parse(args) ==
    LET scan == Scanned(args)
        commands == FirstWord(args) \cap Commands
    IN  IF "--version" \in ToSet(args) THEN Outcome("version", <<>>, FALSE)
        ELSE IF commands # {} THEN Outcome(CHOOSE c \in commands : TRUE, <<>>, FALSE)
        ELSE IF scan.bad \/ scan.value THEN Outcome("usage", <<>>, FALSE)
        ELSE IF scan.words = <<>> THEN Outcome("tui", <<>>, FALSE)
        ELSE Outcome("play", scan.words, scan.dub)

-----------------------------------------------------------------------------
NoPick == [key |-> Unkeyed, listing |-> NoOffer]
NoMenu == [of |-> NoOffer, count |-> 0]
EmptyShelf ==
    [rows |-> {}, owner |-> [l \in OfferIds |-> Unkeyed],
     cached |-> [k \in Keyed |-> NoMenu], marks |-> [k \in Keyed |-> 0]]

QueryTypeOK ==
    /\ stage \in {"parse", "setup", "search", "hits", "bind", "episodes", "menu", "play", "finish", "done"}
    /\ hit \in [key : Keyed \cup {Unkeyed}, listing : OfferIds \cup {NoOffer}]
    /\ episode \in 0 .. menu.count /\ tries \in 0 .. PickTries
    /\ exit \in -1 .. 1 /\ (exit = -1 <=> stage # "done")
    /\ shelf.rows \subseteq Keyed

QueryInit ==
    /\ argv \in BoundedSeq(Arguments, MaxArgs) /\ stage = "parse" /\ exit = -1
    /\ opened = FALSE /\ hit = NoPick /\ menu = NoMenu /\ episode = 0 /\ started = 0
    /\ tries = 0 /\ shelf = EmptyShelf

Exits(code) == stage' = "done" /\ exit' = code

\* main: every other command leaves this machine, and exits 0; the arguments are not
\* read again.
Dispatch ==
    /\ stage = "parse" /\ argv' = <<>>
    /\ IF Parse(argv).kind = "play" THEN stage' = "setup" /\ UNCHANGED exit ELSE Exits(0)
    /\ UNCHANGED <<opened, hit, menu, episode, started, tries, shelf>>

Keeps == opened /\ hit.key # Unkeyed

\* Paths, the clients, a provider that can search; the library may not open.
SetsUp ==
    /\ stage = "setup"
    /\ \/ Exits(1) /\ UNCHANGED opened
       \/ opened' \in BOOLEAN /\ stage' = "search" /\ UNCHANGED exit
    /\ UNCHANGED <<argv, hit, menu, episode, started, tries, shelf>>

\* A search that fails is an error, one that finds nothing is not.
Searches ==
    /\ stage = "search"
    /\ \/ \E code \in {0, 1} : Exits(code)
       \/ stage' = "hits" /\ UNCHANGED exit
    /\ tries' = 0
    /\ UNCHANGED <<argv, opened, hit, menu, episode, started, shelf>>

Prompting == stage \in {"hits", "menu"}

\* prompt_pick: a blank line, no number or one out of range asks again, for as long
\* as there are attempts left.
BadLine ==
    /\ Prompting /\ tries < PickTries /\ tries' = tries + 1
    /\ UNCHANGED <<argv, stage, opened, hit, menu, episode, started, exit, shelf>>

\* `q`, the end of the input, or the last attempt.
Quits ==
    /\ Prompting /\ Exits(0)
    /\ UNCHANGED <<argv, opened, hit, menu, episode, started, tries, shelf>>

PicksHit ==
    /\ stage = "hits" /\ tries < PickTries
    /\ hit' \in [key : Keyed \cup {Unkeyed}, listing : OfferIds]
    /\ stage' = "bind"
    /\ UNCHANGED <<argv, opened, menu, episode, started, exit, tries, shelf>>

\* bind_provider: the row, and the listing taken from whoever had it.
Bound(k, l) == [shelf EXCEPT !.rows = @ \cup {k},
                             !.owner = [m \in OfferIds |-> IF m = l THEN k ELSE IF @[m] = k THEN Unkeyed ELSE @[m]]]

Binds ==
    /\ stage = "bind" /\ stage' = "episodes"
    /\ \/ Keeps /\ shelf' = Bound(hit.key, hit.listing)
       \/ UNCHANGED shelf
    /\ UNCHANGED <<argv, opened, hit, menu, episode, started, exit, tries>>

\* Mutated form: a listing is kept whether or not the row is there.
CachedForAny(k, m) == [shelf EXCEPT !.cached[k] = m]

\* set_episode_cache: the foreign key refuses a listing without its row.
CachedFor(k, m) == IF k \in shelf.rows THEN [shelf EXCEPT !.cached[k] = m] ELSE shelf

MenuOffered(m) ==
    /\ menu' = m
    /\ IF m.count = 0 THEN Exits(0) ELSE stage' = "menu" /\ UNCHANGED exit
    /\ tries' = 0

\* load_episodes: the cached listing of the show wins, whichever listing of the
\* provider it was.
LoadsCached ==
    /\ stage = "episodes" /\ Keeps /\ shelf.cached[hit.key] # NoMenu
    /\ MenuOffered(shelf.cached[hit.key])
    /\ UNCHANGED <<argv, opened, hit, episode, started, shelf>>

\* A cache that is empty, past its time, or cannot be read.
LoadsFresh ==
    /\ stage = "episodes"
    /\ \/ Exits(1) /\ UNCHANGED <<menu, tries, shelf>>
       \/ LET m == [of |-> hit.listing, count |-> Offers[hit.listing]] IN
             /\ MenuOffered(m)
             /\ \/ Keeps /\ shelf' = CachedFor(hit.key, m)
                \/ UNCHANGED shelf
    /\ UNCHANGED <<argv, opened, hit, episode, started>>

PicksEpisode ==
    /\ stage = "menu" /\ tries < PickTries
    /\ episode' \in 1 .. menu.count
    /\ started' = IF Keeps /\ shelf.marks[hit.key] = episode' THEN 1 ELSE 0
    /\ stage' = "play"
    /\ UNCHANGED <<argv, opened, hit, menu, exit, tries, shelf>>

\* player::play: an error, or a watch, which alone has a position to keep.
PlayFails ==
    /\ stage = "play" /\ Exits(1)
    /\ UNCHANGED <<argv, opened, hit, menu, episode, started, tries, shelf>>

NothingWatched ==
    /\ stage = "play" /\ Exits(0)
    /\ UNCHANGED <<argv, opened, hit, menu, episode, started, tries, shelf>>

Watched ==
    /\ stage = "play" /\ stage' = "finish"
    /\ UNCHANGED <<argv, opened, hit, menu, episode, started, exit, tries, shelf>>

\* Mutated form: the mark is written whether or not the row is there.
MarkableAny(k) == TRUE

\* record_finish: an unknown show is passed over.
Markable(k) == k \in shelf.rows

\* finish_playback, best effort like the rest.
Finishes ==
    /\ stage = "finish" /\ Exits(0)
    /\ \/ Keeps /\ Markable(hit.key) /\ shelf' = [shelf EXCEPT !.marks[hit.key] = episode]
       \/ UNCHANGED shelf
    /\ UNCHANGED <<argv, opened, hit, menu, episode, started, tries>>

\* The app, on the same database: delete, or a landing that binds and caches.
AppDeletes(k) ==
    /\ k \in shelf.rows
    /\ shelf' = [rows |-> shelf.rows \ {k},
                 owner |-> [l \in OfferIds |-> IF shelf.owner[l] = k THEN Unkeyed ELSE shelf.owner[l]],
                 cached |-> [shelf.cached EXCEPT ![k] = NoMenu],
                 marks |-> [shelf.marks EXCEPT ![k] = 0]]
    /\ UNCHANGED runVars

AppBinds(k, l) ==
    /\ k \notin shelf.rows
    /\ shelf' = [Bound(k, l) EXCEPT !.cached[k] = [of |-> l, count |-> Offers[l]]]
    /\ UNCHANGED runVars

Runs ==
    \/ Dispatch \/ SetsUp \/ Searches \/ BadLine \/ Quits \/ PicksHit \/ Binds \/ LoadsCached \/ LoadsFresh
    \/ PicksEpisode \/ PlayFails \/ NothingWatched \/ Watched \/ Finishes

QueryNext ==
    \/ Runs
    \/ stage # "done" /\ \E k \in Keyed : AppDeletes(k) \/ \E l \in OfferIds : AppBinds(k, l)

QuerySpec == QueryInit /\ [][QueryNext]_queryVars

-----------------------------------------------------------------------------
\* Nothing is written for a show that is gone: the app may delete the row after the
\* run has bound, listed or started it, and neither the cache nor the finish of the
\* run brings a part of it back, nor do two shows ever own one listing.
NothingForDeleted ==
    /\ \A l \in OfferIds : shelf.owner[l] \in shelf.rows \cup {Unkeyed}
    /\ \A k \in Keyed \ shelf.rows : shelf.cached[k] = NoMenu /\ shelf.marks[k] = 0

\* A command is one only as the first word; a later `sync` is part of a title, and a
\* search never loses a word of it, nor mistakes the value of a flag for one.
TitlesSearched ==
    LET parsed == Parse(argv)
        free == \A i \in DOMAIN argv : argv[i] # "--quality"
    IN  stage = "parse" =>
        /\ parsed.kind \in Commands =>
              \E i \in DOMAIN argv : argv[i] = parsed.kind /\ \A j \in 1 .. (i - 1) : Flag(argv[j])
        /\ parsed.kind = "play" =>
              /\ \A i \in DOMAIN argv : (free /\ Titular(argv[i])) => Contains(parsed.words, argv[i])
              /\ \A i \in 2 .. Len(argv) :
                    /\ argv[i - 1] = "--quality"
                    /\ \A j \in 1 .. (i - 2) : argv[j] # "--quality"
                    /\ \A j \in DOMAIN argv \ {i} : argv[j] # argv[i]
                    => ~Contains(parsed.words, argv[i])

\* The two together.
QuerySound == NothingForDeleted /\ TitlesSearched
=============================================================================
