------------------------------- MODULE Update -------------------------------
(***************************************************************************)
(* The update check and the self-update (src/updatecheck.rs, src/update.rs,*)
(* src/semver.rs).  A booting program asks for the latest release through  *)
(* a cache file; `sabigoku update` asks afresh and drives install.sh in a  *)
(* process group of its own, under a deadline.  Both write the cache       *)
(* through one temporary name.                                             *)
(***************************************************************************)
EXTENDS Integers, Sequences

CONSTANTS
    Releases,  \* the tags GitHub comes to name as the latest, in that order
    CheckTtl,  \* CHECK_TTL_SECS
    LastTick,  \* bound of the run: the clock
    MaxChecks  \* bound of the run: boots and updates

NoTag == [core |-> 0, pre |-> FALSE]
Tag == [core : Nat, pre : BOOLEAN]

\* A tag that is no version (Version::parse gives None).
Garbage == NoTag

ASSUME UpdateAssumption == Releases \in Seq(Tag) /\ Releases # <<>> /\ LastTick \in Nat \ {0}

VARIABLES
    latest,   \* how many of Releases are out
    tick,     \* the clock, which may be set back
    memo,     \* the cache file: [state, at, tag]
    temp,     \* update_check.tmp
    writer,   \* the two writers of the cache: [step, at, tag, fd]
    running,  \* the version the booted program was built as
    news,     \* the UpdateAvailable it got
    cli,      \* sabigoku update: [step, tag, said]
    script,   \* install.sh: [step, tag]
    binary,   \* the version in bindir
    checks    \* checks so far

fileVars == <<memo, temp>>
cliVars == <<cli, script, binary>>
updateVars == <<latest, tick, memo, temp, writer, running, news, cli, script, binary, checks>>

NoFile == [state |-> "none", at |-> 0, tag |-> NoTag]
Truncated == [state |-> "empty", at |-> 0, tag |-> NoTag]
Line(at, tag) == [state |-> "whole", at |-> at, tag |-> tag]

NoCheck == [step |-> "idle", at |-> 0, tag |-> NoTag, fd |-> "none"]

UpdateTypeOK ==
    /\ latest \in 1 .. Len(Releases) /\ tick \in 0 .. LastTick
    /\ \A f \in {memo, temp} : f.state \in {"none", "empty", "whole"}
    /\ \A w \in {"boot", "cli"} :
          /\ writer[w].step \in {"idle", "read", "fetch", "open", "fill", "rename"}
          /\ writer[w].fd \in {"none", "temp", "memo", "lost"}
          /\ writer[w].step = "fill" <=> writer[w].fd # "none"
    /\ cli.step \in {"idle", "asking", "deciding", "installing"}
    /\ script.step # "none" => script.tag # NoTag

UpdateInit ==
    /\ latest = 1 /\ tick = 1 /\ memo = NoFile /\ temp = NoFile
    /\ writer = [w \in {"boot", "cli"} |-> NoCheck]
    /\ running = NoTag /\ news = NoTag
    /\ cli = [step |-> "idle", tag |-> NoTag, said |-> "nothing"]
    /\ script = [step |-> "none", tag |-> NoTag]
    /\ binary \in {Releases[1], [Releases[Len(Releases)] EXCEPT !.pre = TRUE]}
    /\ checks = 0

-----------------------------------------------------------------------------
Latest == Releases[latest]

\* Mutated form: the same version is newer too.
NewerOrSame(l, c) == l # Garbage /\ c # Garbage /\ l.core >= c.core

\* is_newer: the core, then a prerelease below its release.
Newer(l, c) ==
    /\ l # Garbage /\ c # Garbage
    /\ \/ l.core > c.core
       \/ l.core = c.core /\ c.pre /\ ~l.pre

\* is_fresh
Fresh(at) == at <= tick /\ tick - at < CheckTtl

Released ==
    /\ latest < Len(Releases) /\ latest' = latest + 1
    /\ UNCHANGED <<tick, fileVars, writer, running, news, cliVars, checks>>

ClockSet ==
    /\ \E t \in {tick - 1, tick + 1} : t \in 0 .. LastTick /\ tick' = t
    /\ UNCHANGED <<latest, fileVars, writer, running, news, cliVars, checks>>

-----------------------------------------------------------------------------
(***************************************************************************)
(* The cache file.                                                         *)
(***************************************************************************)
Goes(w, s) == writer' = [writer EXCEPT ![w].step = s]

\* fetch_latest; every failure is silence, for `update` it is an unconfirmed
\* release.
FetchFails(w) ==
    /\ writer[w].step = "fetch" /\ writer' = [writer EXCEPT ![w] = NoCheck]
    /\ cli' = IF w = "cli" THEN [cli EXCEPT !.step = "deciding"] ELSE cli
    /\ UNCHANGED <<latest, tick, fileVars, running, news, script, binary, checks>>

Fetched(w) ==
    /\ writer[w].step = "fetch"
    /\ writer' = [writer EXCEPT ![w] = [step |-> "open", at |-> tick, tag |-> Latest, fd |-> "none"]]
    /\ UNCHANGED <<latest, tick, fileVars, running, news, cliVars, checks>>

\* fs::write opens and truncates, then writes: in between the file is empty.
Opened(w) ==
    /\ writer[w].step = "open" /\ temp' = Truncated
    /\ writer' = [writer EXCEPT ![w].step = "fill", ![w].fd = "temp"]
    /\ UNCHANGED <<latest, tick, memo, running, news, cliVars, checks>>

\* The handle follows its file, also when the other has renamed it.
Filled(w) ==
    /\ writer[w].step = "fill"
    /\ LET line == Line(writer[w].at, writer[w].tag) IN
          /\ temp' = IF writer[w].fd = "temp" THEN line ELSE temp
          /\ memo' = IF writer[w].fd = "memo" THEN line ELSE memo
    /\ writer' = [writer EXCEPT ![w].step = "rename", ![w].fd = "none"]
    /\ UNCHANGED <<latest, tick, running, news, cliVars, checks>>

Moved(fd) == CASE fd = "temp" -> "memo" [] fd = "memo" -> "lost" [] OTHER -> fd

\* What the asker does with the tag: check filters it, update::run decides.
Told(w) ==
    IF w = "boot"
    THEN news' = (IF Newer(writer[w].tag, running) THEN writer[w].tag ELSE news) /\ UNCHANGED cli
    ELSE /\ cli' = IF Newer(writer[w].tag, binary)
                   THEN [cli EXCEPT !.step = "deciding", !.tag = writer[w].tag]
                   ELSE [cli EXCEPT !.step = "idle", !.said = "current"]
         /\ UNCHANGED news

\* rename, or a failed write: the tag is used either way.
Renamed(w) ==
    /\ writer[w].step = "rename" /\ Told(w)
    /\ IF temp.state = "none" THEN UNCHANGED fileVars /\ writer' = [writer EXCEPT ![w] = NoCheck]
       ELSE /\ memo' = temp /\ temp' = NoFile
            /\ writer' = [v \in {"boot", "cli"} |->
                            IF v = w THEN NoCheck ELSE [writer[v] EXCEPT !.fd = Moved(@)]]
    /\ UNCHANGED <<latest, tick, running, script, binary, checks>>

-----------------------------------------------------------------------------
(***************************************************************************)
(* The boot check.                                                         *)
(***************************************************************************)
Boots ==
    /\ writer["boot"].step = "idle" /\ checks < MaxChecks /\ checks' = checks + 1
    /\ running' = binary /\ news' = NoTag
    /\ Goes("boot", "read")
    /\ UNCHANGED <<latest, tick, fileVars, cliVars>>

\* resolve_latest: a cache that does not parse is no cache.
ReadsMemo ==
    /\ writer["boot"].step = "read"
    /\ IF memo.state = "whole" /\ Fresh(memo.at)
       THEN /\ news' = IF Newer(memo.tag, running) THEN memo.tag ELSE news
            /\ writer' = [writer EXCEPT !["boot"] = NoCheck]
       ELSE Goes("boot", "fetch") /\ UNCHANGED news
    /\ UNCHANGED <<latest, tick, fileVars, running, cliVars, checks>>

\* The teardown abandons the worker wherever it is.
Abandoned ==
    /\ writer["boot"].step # "idle" /\ writer' = [writer EXCEPT !["boot"] = NoCheck]
    /\ UNCHANGED <<latest, tick, fileVars, running, news, cliVars, checks>>

-----------------------------------------------------------------------------
(***************************************************************************)
(* sabigoku update.                                                        *)
(***************************************************************************)
Reports(what) == cli' = [cli EXCEPT !.step = "idle", !.said = what]

Updates ==
    /\ cli.step = "idle" /\ checks < MaxChecks /\ checks' = checks + 1
    /\ cli' = [step |-> "asking", tag |-> NoTag, said |-> "nothing"]
    /\ Goes("cli", "fetch")
    /\ UNCHANGED <<latest, tick, fileVars, running, news, script, binary>>

\* Mutated form: an unconfirmed release is installed blind.
ConfirmedOrNot(tag) == IF tag = NoTag THEN Latest ELSE tag

\* No installer without a confirmed newer release.
Confirmed(tag) == tag

\* decide, perform_update: the owner of the binary, the directory, the tag.
Decides ==
    /\ cli.step = "deciding"
    /\ \/ Reports("package") /\ UNCHANGED script
       \/ Reports("refused") /\ UNCHANGED script
       \/ Confirmed(cli.tag) = NoTag /\ Reports("unconfirmed") /\ UNCHANGED script
       \/ Confirmed(cli.tag) # NoTag /\ Reports("cannot run") /\ UNCHANGED script
       \/ /\ Confirmed(cli.tag) # NoTag
          /\ script' = [step |-> "download", tag |-> Confirmed(cli.tag)]
          /\ cli' = [cli EXCEPT !.step = "installing"]
    /\ UNCHANGED <<latest, tick, fileVars, writer, running, news, binary, checks>>

\* install.sh verifies and stages, then renames over the binary.
Stages ==
    /\ script.step = "download" /\ script' = [script EXCEPT !.step = "staged"]
    /\ UNCHANGED <<latest, tick, fileVars, writer, running, news, cli, binary, checks>>

Places ==
    /\ script.step = "staged" /\ script' = [script EXCEPT !.step = "placed"]
    /\ binary' = script.tag
    /\ UNCHANGED <<latest, tick, fileVars, writer, running, news, cli, checks>>

ScriptFails ==
    /\ script.step \in {"download", "staged"} /\ script' = [script EXCEPT !.step = "failed"]
    /\ UNCHANGED <<latest, tick, fileVars, writer, running, news, cli, binary, checks>>

\* try_wait sees the exit.
Reaped ==
    /\ cli.step = "installing" /\ script.step \in {"placed", "failed"}
    /\ Reports(IF script.step = "placed" THEN "updated" ELSE "failed")
    /\ script' = [step |-> "none", tag |-> NoTag]
    /\ UNCHANGED <<latest, tick, fileVars, writer, running, news, binary, checks>>

\* Mutated form: only the wrapper is killed.
KilledWrapper == script

\* kill of the whole process group.
Killed == [step |-> "none", tag |-> NoTag]

\* INSTALL_TIMEOUT: the script may have renamed since it was last looked at.
TimesOut ==
    /\ cli.step = "installing" /\ Reports("timed out") /\ script' = Killed
    /\ UNCHANGED <<latest, tick, fileVars, writer, running, news, binary, checks>>

-----------------------------------------------------------------------------
WriterStep(w) == FetchFails(w) \/ Fetched(w) \/ Opened(w) \/ Filled(w) \/ Renamed(w)

Installs == Decides \/ Reaped \/ TimesOut

UpdateNext ==
    \/ Released \/ ClockSet \/ Boots \/ ReadsMemo \/ Abandoned
    \/ WriterStep("boot") \/ WriterStep("cli")
    \/ Updates \/ Installs \/ Stages \/ Places \/ ScriptFails

\* The fetch has a timeout, the installer a deadline.
UpdateFairness == WF_updateVars(WriterStep("cli")) /\ WF_updateVars(Installs)

UpdateSpec == UpdateInit /\ [][UpdateNext]_updateVars /\ UpdateFairness

-----------------------------------------------------------------------------
(***************************************************************************)
(* Properties.                                                             *)
(***************************************************************************)

\* Once `update` has spoken nothing changes the binary any more: the installer
\* does not outlive the report (run_grouped_with_timeout).
QuietAfterReport == [][binary' # binary => cli.step = "installing"]_updateVars

\* The binary is replaced only by a later version, whatever the cache says and
\* however long the installer takes (run, latest_fresh).
OnlyForward == [][binary' # binary => Newer(binary', binary)]_updateVars

\* What is reported of the binary is so, where the installer ended by itself.
ReportTrue ==
    [][cli.step = "installing" /\ cli'.step = "idle" =>
          /\ cli'.said = "updated" => binary = cli.tag
          /\ cli'.said = "failed" => binary # cli.tag]_updateVars

\* The program is never told of a version it has already, through a torn cache, a
\* clock set back or an update meanwhile (check).
NewsNewer == news # NoTag => Newer(news, running)

\* A self-update replaces the binary by a confirmed later version or leaves it,
\* and says which.
UpdateSound == []NewsNewer /\ QuietAfterReport /\ OnlyForward /\ ReportTrue

\* `update` ends, however long the installer hangs.
UpdateEnds == cli.step = "installing" ~> cli.step = "idle"
=============================================================================
