-------------------------------- MODULE Mpv --------------------------------
(***************************************************************************)
(* One play on its worker (src/player.rs, src/proxy.rs): resolve, guard,   *)
(* the decloaking proxy, the mpv process, the watcher of its IPC socket,   *)
(* the judgement of its exit and the bounded retries.  The proxy lives as  *)
(* long as the attempt: an accept thread, a detached handler for every     *)
(* connection, and a stop that raises a flag, dials the port to wake the   *)
(* accept, and joins.                                                      *)
(***************************************************************************)
EXTENDS Integers, Sequences, FiniteSets, SequencesExt

CONSTANTS
    MaxAttempts,  \* MAX_PLAY_ATTEMPTS
    ConnectTries, \* IPC_CONNECT_TRIES
    MaxPos,       \* bound of the run: positions mpv reaches in an attempt
    MaxHandlers   \* bound of the run: connections served at once

ASSUME MpvAssumption == {MaxAttempts, ConnectTries, MaxPos, MaxHandlers} \subseteq Nat \ {0}

VARIABLES
    round,   \* the attempt under way
    phase,     \* what the worker does
    cloaked,   \* the link of this attempt has decloak_segments
    proc,      \* the mpv process: [state, code, sock]
    reported,      \* the last position mpv wrote to its socket, 0 for none
    watch,     \* the watcher: [state, tries]
    pipe,      \* positions written and not yet read
    seen,      \* Observed.meaningful_secs, 0 for none
    loop,      \* the accept thread
    shut,      \* shutting_down
    backlog,   \* connections nobody has accepted
    serving,   \* handler threads under way
    verdict    \* what play() returns

procVars == <<proc, reported>>
watchVars == <<watch, pipe, seen>>
proxyVars == <<loop, shut, backlog, serving>>
mpvVars == <<round, phase, cloaked, proc, reported, watch, pipe, seen, loop, shut, backlog, serving, verdict>>

NoVerdict == [kind |-> "none", pos |-> 0]
Fault(why) == [kind |-> why, pos |-> 0]
Played(p) == [kind |-> "ok", pos |-> p]

Stopping == {"flag", "dial", "join"}

MpvTypeOK ==
    /\ round \in 1 .. MaxAttempts
    /\ phase \in {"resolve", "engaged", "running", "judge", "backoff", "done"} \cup Stopping
    /\ proc.state \in {"none", "alive", "exited"} /\ proc.code \in 0 .. 2
    /\ watch.state \in {"none", "connecting", "reading", "ended", "cut"} /\ watch.tries \in 0 .. ConnectTries
    /\ {reported, seen} \subseteq 0 .. MaxPos
    /\ loop \in {"none", "check", "accept", "recheck", "gone"}
    /\ serving \in 0 .. MaxHandlers
    /\ (phase = "done") => (verdict # NoVerdict)

MpvInit ==
    /\ round = 1 /\ phase = "resolve" /\ cloaked = FALSE
    /\ proc = [state |-> "none", code |-> 0, sock |-> FALSE] /\ reported = 0
    /\ watch = [state |-> "none", tries |-> 0] /\ pipe = <<>> /\ seen = 0
    /\ loop = "none" /\ shut = FALSE /\ backlog = <<>> /\ serving = 0
    /\ verdict = NoVerdict

-----------------------------------------------------------------------------
(***************************************************************************)
(* The worker.                                                             *)
(***************************************************************************)

\* A refusal before the proxy: the resolve, the guard of the link, the bind.
WorkerRefused ==
    /\ phase = "resolve"
    /\ \E why \in {"resolve", "unsafe", "proxy"} : verdict' = Fault(why)
    /\ phase' = "done"
    /\ UNCHANGED <<round, cloaked, procVars, watchVars, proxyVars>>

\* resolve, guard_fetch_url, engage: a fresh link for every attempt.
Engage ==
    /\ phase = "resolve" /\ phase' = "engaged"
    /\ \E c \in BOOLEAN :
          /\ cloaked' = c
          /\ loop' = IF c THEN "check" ELSE "none"
    /\ shut' = FALSE /\ backlog' = <<>>
    /\ UNCHANGED <<round, procVars, watchVars, serving, verdict>>

\* Mutated form: the guard is forgotten, the proxy stays.
AfterScopeLeaks == "judge"

\* A guard that goes out of scope stops its proxy, on every path.
AfterScope == IF cloaked THEN "flag" ELSE "judge"

\* build_argv refuses a field, or mpv cannot be spawned.
SpawnFails ==
    /\ phase = "engaged" /\ phase' = AfterScope
    /\ \E why \in {"argv", "spawn"} : verdict' = Fault(why)
    /\ UNCHANGED <<round, cloaked, procVars, watchVars, proxyVars>>

SpawnMpv ==
    /\ phase = "engaged" /\ phase' = "running"
    /\ proc' = [state |-> "alive", code |-> 0, sock |-> FALSE] /\ reported' = 0
    /\ watch' = [state |-> "connecting", tries |-> 0] /\ pipe' = <<>> /\ seen' = 0
    /\ UNCHANGED <<round, cloaked, proxyVars, verdict>>

\* Mutated form: the worker does not wait for the watcher.
WatcherLetGo == TRUE

\* thread::scope joins the watcher.
WatcherJoined == watch.state \in {"ended", "cut"}

\* attempt_play after the scope.  The wait itself may have failed (PlayError::Wait):
\* there is no child any more, and its status is lost.
Waited ==
    /\ phase = "running" /\ proc.state = "exited" /\ WatcherJoined
    /\ phase' = AfterScope /\ verdict' \in {verdict, Fault("wait")}
    /\ UNCHANGED <<round, cloaked, procVars, watchVars, proxyVars>>

\* Mutated form: the wake comes before the flag.
StopOrderSwapped == <<"dial", "flag">>

StopOrder == <<"flag", "dial">>

\* Proxy::stop.
RaiseFlag == shut' = TRUE /\ UNCHANGED backlog
DialPort == backlog' = Append(backlog, "wake") /\ UNCHANGED shut

Stop ==
    /\ \/ phase = "flag" /\ phase' = "dial" /\ (IF StopOrder[1] = "flag" THEN RaiseFlag ELSE DialPort)
       \/ phase = "dial" /\ phase' = "join" /\ (IF StopOrder[2] = "dial" THEN DialPort ELSE RaiseFlag)
       \/ phase = "join" /\ loop = "gone" /\ phase' = "judge" /\ UNCHANGED <<shut, backlog>>
    /\ UNCHANGED <<round, cloaked, procVars, watchVars, loop, serving, verdict>>

\* Mutated form: exit 2 is retried whatever was played.
OpenFailedAny == proc.code = 2

OpenFailed == proc.code = 2 /\ seen = 0

\* Mutated form: one attempt too many.
AnotherTryInclusive == round <= MaxAttempts

AnotherTry == round < MaxAttempts

\* run_attempts: the verdict of an attempt that ran.
Judge ==
    /\ phase = "judge"
    /\ IF verdict # NoVerdict THEN phase' = "done" /\ UNCHANGED verdict
       ELSE IF OpenFailed /\ AnotherTry THEN phase' = "backoff" /\ UNCHANGED verdict
       ELSE /\ phase' = "done"
            /\ verdict' = IF OpenFailed THEN Fault("open_failed")
                          ELSE IF seen = 0 /\ proc.code # 0 THEN Fault("exit") ELSE Played(seen)
    /\ UNCHANGED <<round, cloaked, procVars, watchVars, proxyVars>>

Backoff ==
    /\ phase = "backoff" /\ phase' = "resolve" /\ round' = round + 1
    /\ UNCHANGED <<cloaked, procVars, watchVars, proxyVars, verdict>>

-----------------------------------------------------------------------------
(***************************************************************************)
(* mpv and the watcher of its socket.                                      *)
(***************************************************************************)
MpvAlive == proc.state = "alive"

BindSocket ==
    /\ MpvAlive /\ ~proc.sock /\ proc' = [proc EXCEPT !.sock = TRUE]
    /\ UNCHANGED <<round, phase, cloaked, reported, watchVars, proxyVars, verdict>>

\* A position reaches the watcher only over a connection.
Advance ==
    /\ MpvAlive /\ watch.state = "reading" /\ reported < MaxPos
    /\ reported' = reported + 1 /\ pipe' = Append(pipe, reported + 1)
    /\ UNCHANGED <<round, phase, cloaked, proc, watch, seen, proxyVars, verdict>>

\* The user quits, mpv gives up on the stream (2), or it dies.
ExitMpv ==
    /\ MpvAlive
    /\ \E code \in 0 .. 2 : proc' = [state |-> "exited", code |-> code, sock |-> FALSE]
    /\ UNCHANGED <<round, phase, cloaked, reported, watchVars, proxyVars, verdict>>

\* connect_ipc: a try, and then the look at `gone`.
ConnectTry ==
    /\ watch.state = "connecting"
    /\ watch' = IF MpvAlive /\ proc.sock THEN [watch EXCEPT !.state = "reading"]
                ELSE IF proc.state = "exited" \/ watch.tries + 1 = ConnectTries
                THEN [state |-> "ended", tries |-> watch.tries + 1]
                ELSE [watch EXCEPT !.tries = @ + 1]
    /\ UNCHANGED <<round, phase, cloaked, procVars, pipe, seen, proxyVars, verdict>>

\* watch_ipc: what was written before mpv went is read before the EOF.
ReadPosition ==
    /\ watch.state = "reading" /\ pipe # <<>>
    /\ seen' = Head(pipe) /\ pipe' = Tail(pipe)
    /\ UNCHANGED <<round, phase, cloaked, procVars, watch, proxyVars, verdict>>

ReadEof ==
    /\ watch.state = "reading" /\ pipe = <<>> /\ ~MpvAlive
    /\ watch' = [watch EXCEPT !.state = "ended"]
    /\ UNCHANGED <<round, phase, cloaked, procVars, pipe, seen, proxyVars, verdict>>

\* The subscription cannot be written, a read fails, or a line is longer than
\* MAX_IPC_LINE_BYTES: the watcher drops the socket and what is left in it.
WatchCut ==
    /\ watch.state = "reading" /\ watch' = [watch EXCEPT !.state = "cut"]
    /\ UNCHANGED <<round, phase, cloaked, procVars, pipe, seen, proxyVars, verdict>>

-----------------------------------------------------------------------------
(***************************************************************************)
(* The proxy's threads.                                                    *)
(***************************************************************************)

\* mpv opens a connection for a playlist or a segment.
MpvDials ==
    /\ MpvAlive /\ cloaked /\ Len(backlog) + serving < MaxHandlers
    /\ backlog' = Append(backlog, "mpv")
    /\ UNCHANGED <<round, phase, cloaked, procVars, watchVars, loop, shut, serving, verdict>>

\* accept_loop.
AcceptLoop ==
    /\ \/ loop = "check" /\ loop' = (IF shut THEN "gone" ELSE "accept") /\ UNCHANGED <<backlog, serving>>
       \/ loop = "accept" /\ backlog # <<>> /\ loop' = "recheck" /\ UNCHANGED <<backlog, serving>>
       \/ /\ loop = "recheck" /\ backlog' = Tail(backlog)
          /\ IF shut THEN loop' = "gone" /\ UNCHANGED serving
             ELSE /\ loop' = "check"
                  /\ serving' = serving + (IF Head(backlog) = "mpv" /\ serving < MaxHandlers THEN 1 ELSE 0)
    /\ UNCHANGED <<round, phase, cloaked, procVars, watchVars, shut, verdict>>

\* handle_conn: the client hangs up, a request is refused, or it idles too long.
HandlerEnds ==
    /\ serving > 0 /\ serving' = serving - 1
    /\ UNCHANGED <<round, phase, cloaked, procVars, watchVars, loop, shut, backlog, verdict>>

WorkerStep == WorkerRefused \/ Engage \/ SpawnFails \/ SpawnMpv \/ Waited \/ Stop \/ Judge \/ Backoff
WatcherStep == ConnectTry \/ ReadPosition \/ ReadEof

MpvNext ==
    \/ WorkerStep \/ WatcherStep \/ AcceptLoop \/ HandlerEnds
    \/ WatchCut \/ BindSocket \/ Advance \/ ExitMpv \/ MpvDials

\* Threads are scheduled and idle connections time out; mpv owes nothing, nor a
\* socket that breaks.
MpvFairness ==
    /\ WF_mpvVars(WorkerStep) /\ WF_mpvVars(WatcherStep)
    /\ WF_mpvVars(AcceptLoop) /\ WF_mpvVars(HandlerEnds)

MpvSpec == MpvInit /\ [][MpvNext]_mpvVars /\ MpvFairness

-----------------------------------------------------------------------------
(***************************************************************************)
(* Properties.                                                             *)
(***************************************************************************)

\* "proxy lifetime == mpv lifetime": a cloaked stream has its proxy as long as
\* mpv runs, and no proxy listens once the play has been judged (Decloak).
ProxyCovers ==
    /\ MpvAlive /\ cloaked => ~shut /\ loop \in {"check", "accept", "recheck"}
    /\ phase \in {"judge", "backoff", "resolve", "done"} => loop \in {"none", "gone"}

\* What mpv told last is what is recorded: the judgement waits for the watcher, which
\* reads to the end; where its socket was cut, what it had read by then counts
\* (thread::scope, watch_ipc).
PositionKept ==
    verdict.kind = "ok" =>
        /\ verdict.pos = seen /\ verdict.pos <= reported
        /\ watch.state # "cut" => verdict.pos = reported

\* A play the user has seen something of is never started over, unless the socket was
\* cut before a word of it was read.
NeverReplayed == [][round' # round => seen = 0 /\ (watch.state # "cut" => reported = 0)]_mpvVars

\* Once the mpv of an attempt is gone the attempt is judged: the watcher ends,
\* the accept thread wakes and is joined (Proxy::stop, connect_ipc's `gone`).
MpvGone == phase = "running" /\ proc.state = "exited"
PlayReturns == MpvGone ~> phase \in {"backoff", "done"}

\* A play has its proxy while it runs and not after, ends with the position told
\* last, and is not started over once watched (player::play).
PlayKept == [](ProxyCovers /\ PositionKept) /\ NeverReplayed

-----------------------------------------------------------------------------
(***************************************************************************)
(* Openings and endings that skip themselves (src/aniskip.rs): the windows *)
(* of the community database, the options they become, and the script in   *)
(* the player that announces a skip and seeks a moment later, while the    *)
(* viewer pauses and seeks as he likes.  Positions are in fifths of a      *)
(* second.  A machine of its own: no variable is shared with the above.    *)
(***************************************************************************)
CONSTANTS
    SkipRows,  \* rows the database may answer with: [type, from, to]
    MaxRows,   \* rows of an answer
    LastPos,   \* end of the episode
    MaxSeeks   \* bound of the run: seeks of the viewer

Segments == {"op", "ed"}
Modes == {"none", "intro", "outro", "both"}

\* add_timeout(0.4, ...)
Announce == 2

ASSUME SkipAssumption ==
    /\ MaxRows \in Nat /\ LastPos \in Nat /\ MaxSeeks \in Nat
    /\ \A row \in SkipRows : row.from \in Int /\ row.to \in Int

VARIABLES
    answer,   \* rows of the database for the episode; none on any failure
    mode,     \* config.skip_mode
    windows,  \* the windows handed to the player, Disabled or [from, to]
    pos,      \* time-pos; NotLoaded before the file
    skipped,  \* the script's flags
    timers,   \* announced skips: [seg, due]
    jumped,   \* segments skipped since the file was loaded
    touched,  \* per segment: the viewer's part in its skip
    seeks     \* seeks so far

skipVars == <<answer, mode, windows, pos, skipped, timers, jumped, touched, seeks>>

NotLoaded == -1
Disabled == [from |-> -1, to |-> -1]
NoScript == [s \in Segments |-> Disabled]

SkipInit ==
    /\ answer \in BoundedSeq(SkipRows, MaxRows) /\ mode \in Modes
    /\ windows = NoScript /\ pos = NotLoaded /\ skipped = {} /\ timers = {} /\ jumped = {}
    /\ touched = [s \in Segments |-> "no"] /\ seeks = 0

-----------------------------------------------------------------------------
\* Mutated form: any window that does not end before it starts.
ValidAny(row) == row.from >= 0 /\ row.to >= row.from

\* valid_interval: a second at least.
ValidInterval(row) == row.from >= 0 /\ row.to - row.from >= 5

RowFits(seg, row) == row.type = seg /\ ValidInterval(row)

\* times_from_body: the first valid row of a segment.
FirstFit(seg) == {i \in DOMAIN answer : RowFits(seg, answer[i]) /\ \A j \in 1 .. i - 1 : ~RowFits(seg, answer[j])}

TimesOf(seg) ==
    IF FirstFit(seg) = {} THEN Disabled
    ELSE LET row == answer[CHOOSE i \in FirstFit(seg) : TRUE] IN [from |-> row.from, to |-> row.to]

\* Mutated form: the ending counts as an intro.
WantsMore(seg) == mode # "none"

Wants(seg) == mode = "both" \/ mode = (IF seg = "op" THEN "intro" ELSE "outro")

\* build_opts; a play without a window to skip gets no script at all.
BuildOpts == [s \in Segments |-> IF Wants(s) THEN TimesOf(s) ELSE Disabled]

\* Mutated form: the time-pos observer without its flag.
HitsAgain(p) == {s \in Segments : windows[s].from >= 0 /\ windows[s].from <= p /\ p < windows[s].to}

\* The windows a new position falls in, not skipped yet.
Hits(p) == HitsAgain(p) \ skipped

\* skip_section, for every window hit.
Sees(p) ==
    /\ pos' = p
    /\ skipped' = skipped \cup Hits(p)

Announced(p) == {[seg |-> s, due |-> Announce] : s \in Hits(p)}

Later == {[t EXCEPT !.due = @ - 1] : t \in timers}

\* The viewer has his hand in a skip he seeks into, in those that are announced while
\* he seeks, and in those announced before these are over.
Touched(hits, seeking) ==
    LET pending == {t.seg : t \in timers}
        crossed == {r \in pending : seeking \/ touched[r] = "sought"}
    IN [s \in Segments |-> IF s \in crossed \/ (s \in hits /\ crossed # {}) THEN "sought"
                           ELSE IF s \in hits /\ seeking THEN "entered" ELSE touched[s]]

-----------------------------------------------------------------------------
\* prepare, and mpv loads the file with --start: its flags are fresh.
FileLoaded ==
    /\ pos = NotLoaded
    /\ windows' = BuildOpts
    /\ \E start \in 0 .. LastPos :
          LET hits == {s \in Segments : BuildOpts[s].from <= start /\ start < BuildOpts[s].to}
          IN /\ pos' = start /\ skipped' = hits
             /\ timers' = {[seg |-> s, due |-> Announce] : s \in hits}
             /\ touched' = [s \in Segments |-> IF s \in hits /\ start > BuildOpts[s].from THEN "entered" ELSE "no"]
    /\ UNCHANGED <<answer, mode, jumped, seeks>>

Loaded == pos # NotLoaded
NothingDue == \A t \in timers : t.due > 0

Plays ==
    /\ Loaded /\ NothingDue /\ pos < LastPos
    /\ Sees(pos + 1) /\ timers' = Later \cup Announced(pos + 1)
    /\ touched' = Touched(Hits(pos + 1), FALSE)
    /\ UNCHANGED <<answer, mode, windows, jumped, seeks>>

\* The announcement runs on while the viewer has paused.
Paused ==
    /\ Loaded /\ NothingDue /\ timers # {} /\ timers' = Later
    /\ UNCHANGED <<answer, mode, windows, pos, skipped, jumped, touched, seeks>>

\* commandv("seek", target, "absolute"), and the observer sees where it lands.
Jumps(t) ==
    /\ t \in timers /\ t.due = 0
    /\ Sees(windows[t.seg].to) /\ timers' = (timers \ {t}) \cup Announced(windows[t.seg].to)
    /\ jumped' = jumped \cup {t.seg} /\ touched' = Touched(Hits(windows[t.seg].to), FALSE)
    /\ UNCHANGED <<answer, mode, windows, seeks>>

ViewerSeeks ==
    /\ Loaded /\ seeks < MaxSeeks /\ seeks' = seeks + 1
    /\ \E p \in (0 .. LastPos) \ {pos} :
          Sees(p) /\ timers' = timers \cup Announced(p) /\ touched' = Touched(Hits(p), TRUE)
    /\ UNCHANGED <<answer, mode, windows, jumped>>

SkipNext == FileLoaded \/ Plays \/ Paused \/ ViewerSeeks \/ \E t \in timers : Jumps(t)

SkipSpec == SkipInit /\ [][SkipNext]_skipVars

-----------------------------------------------------------------------------
SkipTypeOK ==
    /\ pos \in Nat \cup {NotLoaded} /\ skipped \subseteq Segments /\ jumped \subseteq skipped
    /\ \A t \in timers : t.seg \in skipped /\ t.due \in 0 .. Announce

\* The database is not asked for windows that keep clear of each other.
Apart ==
    \A s \in Segments : \A r \in Segments \ {s} :
        windows[s].to <= windows[r].from \/ windows[r].to <= windows[s].from

\* A skip the viewer had no hand in never throws the picture back; one he entered
\* by seeking, or by resuming, into the tail of a window throws it back by no more
\* than the announcement lasts (the comment of MIN_INTERVAL_SECS).
SeeksForward ==
    [][Loaded /\ seeks' = seeks /\ pos' < pos /\ Apart =>
        \E t \in timers : t.due = 0 /\
            \/ touched[t.seg] = "sought"
            \/ touched[t.seg] = "entered" /\ pos - pos' <= Announce]_skipVars

\* A viewer who goes back to an opening is left to watch it: a segment is skipped
\* once in a file, and only one the mode asks for (the skipped flags).
SkipsOnce ==
    [][\A s \in Segments : (\E t \in timers : t.seg = s /\ t.due = 0) /\ timers' # timers =>
           s \notin jumped /\ (mode = "both" \/ (mode = "intro" /\ s = "op") \/ (mode = "outro" /\ s = "ed"))]_skipVars

SkipsSound == SeeksForward /\ SkipsOnce

\* What was played is kept, and what was skipped was the opening or the ending
\* (player.rs, aniskip.rs).
PlaySound == PlayKept /\ SkipsSound
=============================================================================
