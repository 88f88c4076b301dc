----------------------------- MODULE StoreOpen -----------------------------
(***************************************************************************)
(* Opening the library file (Store::open in src/store.rs): the WAL flip,   *)
(* the schema ladder under one BEGIN IMMEDIATE, the checks around it, with *)
(* several processes of the program opening and using one file, and any of *)
(* them dying at any step.                                                 *)
(*                                                                         *)
(* The data are what the ladder moves: the pin that rung 3 turns into the  *)
(* last-used provider of a show, and the frontier stamp rung 2 back-fills. *)
(***************************************************************************)
EXTENDS Integers, FiniteSets

CONSTANTS
    Openers,    \* processes of the program
    RetryLimit  \* LOCK_RETRY_LIMIT

ASSUME StoreOpenAssumption == RetryLimit \in Nat

SchemaVersion == 3
Routes == {"pinned", "chosen", "nowhere"}
Marks == {"backfilled", "moved", "null"}

\* A file: its version, its tables, the bound providers and the data above.
File == [version : {-1, 0, 1, 2, 3, 4},
         tables : SUBSET {"show", "stamp", "pin", "last_used"},
         bound : BOOLEAN, last : Routes, mark : Marks]

Blank == [version |-> 0, tables |-> {}, bound |-> FALSE, last |-> "nowhere", mark |-> "null"]
First == [Blank EXCEPT !.version = 1, !.tables = {"show", "pin"}]
Second == [First EXCEPT !.version = 2, !.tables = @ \cup {"stamp"}, !.mark = "backfilled"]
Third == [Second EXCEPT !.version = 3, !.tables = {"show", "stamp", "last_used"}]

\* Files of earlier versions, with and without a binding for the pin; a file of
\* a later program; a damaged header; a stamped version over missing tables.
Sane == {Blank} \cup {[f EXCEPT !.bound = b] : f \in {First, Second, Third}, b \in BOOLEAN}
Strange == {[Third EXCEPT !.version = 4], [First EXCEPT !.version = -1],
            [Blank EXCEPT !.version = -1], [Blank EXCEPT !.version = SchemaVersion]}

Errors == {"locked", "invalid", "too_new", "missing", "read_only", "sql"}

VARIABLES
    file,      \* what is committed
    readonly,  \* the file denies writes
    wal,
    at,        \* at[p]: a step of open, "open", "closed" or an error
    attempt,   \* attempt[p]: retries of the step p is at
    tx,        \* tx[p]: the ladder of p's transaction
    found      \* file as p's first process met it, for the properties

openVars == <<file, readonly, wal, at, attempt, tx, found>>

Holder(p) == at[p] \in {"reread", "climb", "commit"}
Locked == \E p \in Openers : Holder(p)

OpenTypeOK ==
    /\ file \in File /\ found \in File
    /\ readonly \in BOOLEAN /\ wal \in BOOLEAN
    /\ at \in [Openers -> {"closed", "wal", "version", "begin", "reread", "climb", "commit",
                           "verify", "probe", "open"} \cup Errors]
    /\ attempt \in [Openers -> 0 .. RetryLimit]
    /\ tx \in [Openers -> File]
    /\ Cardinality({p \in Openers : Holder(p)}) <= 1

OpenInit ==
    /\ file \in Sane \cup Strange
    /\ found = file
    /\ readonly \in BOOLEAN
    /\ wal \in IF file = Blank THEN {FALSE} ELSE BOOLEAN
    /\ at = [p \in Openers |-> "closed"]
    /\ attempt = [p \in Openers |-> 0]
    /\ tx = [p \in Openers |-> Blank]

Proceed(p, step) ==
    /\ at' = [at EXCEPT ![p] = step]
    /\ attempt' = [attempt EXCEPT ![p] = 0]

\* A step that met another's lock is tried again until the limit.
Retries(p) ==
    IF attempt[p] < RetryLimit
    THEN attempt' = [attempt EXCEPT ![p] = @ + 1] /\ UNCHANGED at
    ELSE Proceed(p, "locked")

Opens(p) ==
    /\ at[p] = "closed"
    /\ Proceed(p, "wal")
    /\ UNCHANGED <<file, readonly, wal, tx, found>>

\* enable_wal: the flip needs the file for itself.
EnableWal(p) ==
    /\ at[p] = "wal"
    /\ \/ /\ wal \/ readonly \/ ~Locked
          /\ wal' = (wal \/ ~readonly)
          /\ Proceed(p, "version")
       \/ /\ ~wal /\ ~readonly /\ \E q \in Openers \ {p} : at[q] \notin {"closed"} \cup Errors
          /\ Retries(p)
          /\ UNCHANGED wal
    /\ UNCHANGED <<file, readonly, tx, found>>

\* user_version: a version outside the range is refused before anything is written.
Refused(v) == IF v < 0 THEN "invalid" ELSE "too_new"

\* Mutated form: the version is taken as the header has it.
ReadableSigned(v) == v <= SchemaVersion

Readable(v) == v \in 0 .. SchemaVersion

\* migrate, the fast path without a lock.
ReadVersion(p) ==
    /\ at[p] = "version"
    /\ Proceed(p, IF ~Readable(file.version) THEN Refused(file.version)
                  ELSE IF file.version = SchemaVersion THEN "verify" ELSE "begin")
    /\ UNCHANGED <<file, readonly, wal, tx, found>>

\* Mutated form: a deferred transaction.
BeginDeferred(p) ==
    /\ at[p] = "begin"
    /\ Proceed(p, "reread") /\ tx' = [tx EXCEPT ![p] = file]
    /\ UNCHANGED <<file, readonly, wal, found>>

\* immediate_tx.
Begin(p) ==
    /\ at[p] = "begin"
    /\ IF readonly THEN Proceed(p, "sql") /\ UNCHANGED tx
       ELSE IF Locked THEN Retries(p) /\ UNCHANGED tx
       ELSE Proceed(p, "reread") /\ tx' = [tx EXCEPT ![p] = file]
    /\ UNCHANGED <<file, readonly, wal, found>>

\* Mutated form: the version read before the lock is believed.
RereadSkipped(p) ==
    /\ at[p] = "reread"
    /\ Proceed(p, "climb")
    /\ UNCHANGED <<file, readonly, wal, tx, found>>

\* Mutated form: a rung that tolerates its own tables is run over a finished schema.
RereadTolerant(p) ==
    /\ at[p] = "reread"
    /\ tx' = [tx EXCEPT ![p] = IF @.version = SchemaVersion
                                THEN [@ EXCEPT !.version = 2, !.tables = Second.tables] ELSE @]
    /\ Proceed(p, "climb")
    /\ UNCHANGED <<file, readonly, wal, found>>

\* A peer may have climbed while p waited.
Reread(p) ==
    /\ at[p] = "reread"
    /\ Proceed(p, IF tx[p].version = SchemaVersion THEN "verify" ELSE "climb")
    /\ UNCHANGED <<file, readonly, wal, tx, found>>

\* A rung fails where its tables are not as the version says.
Rung(f, n) ==
    CASE n = 1 -> f.tables = {}
      [] n = 2 -> "show" \in f.tables /\ "stamp" \notin f.tables
      [] n = 3 -> {"show", "pin"} \subseteq f.tables /\ "last_used" \notin f.tables
      [] OTHER -> FALSE

\* Mutated form: every pin is seeded, bound or not.
SeededAnyway(f) == "pinned"

\* Only a pin whose provider holds a binding seeds the last-used provider.
Seeded(f) == IF f.bound THEN "pinned" ELSE "nowhere"

Climbed(f) ==
    CASE f.version < 1 -> [f EXCEPT !.version = 1, !.tables = {"show", "pin"}]
      [] f.version = 1 -> [f EXCEPT !.version = 2, !.tables = @ \cup {"stamp"},
                                    !.mark = "backfilled"]
      [] OTHER         -> [f EXCEPT !.version = 3, !.tables = (@ \ {"pin"}) \cup {"last_used"},
                                    !.last = Seeded(f)]

NextRung(f) == IF f.version < 1 THEN 1 ELSE f.version + 1

\* Mutated form: every rung's statements commit by themselves.
ClimbUnwrapped(p) ==
    /\ at[p] = "climb"
    /\ IF Rung(tx[p], NextRung(tx[p]))
       THEN /\ tx' = [tx EXCEPT ![p] = Climbed(@)]
            /\ file' = [tx'[p] EXCEPT !.version = file.version]
            /\ Proceed(p, IF tx'[p].version = SchemaVersion THEN "commit" ELSE "climb")
       ELSE Proceed(p, "sql") /\ UNCHANGED <<tx, file>>
    /\ UNCHANGED <<readonly, wal, found>>

\* One rung inside the transaction; an SQL error rolls all of it back.
Climb(p) ==
    /\ at[p] = "climb"
    /\ IF Rung(tx[p], NextRung(tx[p]))
       THEN /\ tx' = [tx EXCEPT ![p] = Climbed(@)]
            /\ Proceed(p, IF tx'[p].version = SchemaVersion THEN "commit" ELSE "climb")
       ELSE Proceed(p, "sql") /\ UNCHANGED tx
    /\ UNCHANGED <<file, readonly, wal, found>>

\* The ladder and the version land together.
Commit(p) ==
    /\ at[p] = "commit"
    /\ file' = tx[p]
    /\ Proceed(p, "probe")
    /\ UNCHANGED <<readonly, wal, tx, found>>

\* verify_schema_present.
Verify(p) ==
    /\ at[p] = "verify"
    /\ Proceed(p, IF "show" \in file.tables THEN "probe" ELSE "missing")
    /\ UNCHANGED <<file, readonly, wal, tx, found>>

\* probe_writable.
ProbeWritable(p) ==
    /\ at[p] = "probe"
    /\ Proceed(p, IF readonly THEN "read_only" ELSE "open")
    /\ UNCHANGED <<file, readonly, wal, tx, found>>

\* A landing is remembered, the frontier moves: what the program does to a file
\* it has open.
Uses(p) ==
    /\ at[p] = "open" /\ ~Locked
    /\ file' \in {[file EXCEPT !.last = "chosen"], [file EXCEPT !.mark = "moved"]}
    /\ UNCHANGED <<readonly, wal, at, attempt, tx, found>>

\* The process ends or dies, its lock and its transaction with it.
Dies(p) ==
    /\ at[p] # "closed"
    /\ Proceed(p, "closed")
    /\ UNCHANGED <<file, readonly, wal, tx, found>>

OpenStep(p) ==
    \/ EnableWal(p) \/ ReadVersion(p) \/ Begin(p) \/ Reread(p)
    \/ Climb(p) \/ Commit(p) \/ Verify(p) \/ ProbeWritable(p)

OpenNext == \E p \in Openers : Opens(p) \/ OpenStep(p) \/ Uses(p) \/ Dies(p)

OpenSpec == OpenInit /\ [][OpenNext]_openVars

-----------------------------------------------------------------------------
(***************************************************************************)
(* Properties.                                                             *)
(***************************************************************************)

\* What is committed is a whole schema of one version whoever dies where, and
\* only the three rungs have changed it (DDL and version land together).
LadderWhole ==
    found \in Sane => \E f \in {Blank, First, Second, Third} :
                         file.version = f.version /\ file.tables = f.tables

\* A rung never runs again over what the program has written since: the choice
\* of a provider and a moved frontier stay.
UseSurvives ==
    [][/\ file.last = "chosen" => file'.last = "chosen"
       /\ file.mark = "moved" => file'.mark = "moved"]_openVars

\* A route without a binding is never seeded.
SeedServes == file.last = "pinned" => file.bound

\* A sane writable file opens, unless a peer's lock outlasted the retries: what
\* another opener does meanwhile is never this one's error (the re-read).
SaneOpens ==
    found \in Sane /\ ~readonly => \A p \in Openers : at[p] \notin Errors \ {"locked"}

\* A file of a later program or with a damaged header keeps its content.
StrangeUntouched == found \notin Sane => file = found

\* A database file survives its openers: whole on disk, never climbed twice over
\* what was written since, seeded only where a binding serves, opened in spite of
\* the peers, and kept untouched when it is not ours (Store::open).
OpensWhole == [](LadderWhole /\ SeedServes /\ SaneOpens /\ StrangeUntouched) /\ UseSurvives
=============================================================================
