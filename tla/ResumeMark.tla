----------------------------- MODULE ResumeMark -----------------------------
(***************************************************************************)
(* The watched frontier of one show and the resume mark derived from it    *)
(* (src/store.rs, ROD-477): every writer of show.progress stamps when the  *)
(* frontier moved, and only a partial written after the stamp is offered   *)
(* again.  The episode rows are kept per track, the frontier is one.       *)
(*                                                                         *)
(* A position is the class its ratio to the duration falls in; the clock   *)
(* has seconds, so several writes may carry one time.                      *)
(***************************************************************************)
EXTENDS Naturals, FiniteSets, Sequences

CONSTANTS
    Episodes,    \* episodes of the listing, in its order 1 .. Episodes
    Translations,
    MaxClock     \* seconds the run lasts

ASSUME ResumeAssumption ==
    /\ Episodes \in Nat \ {0} /\ MaxClock \in Nat \ {0}
    /\ Translations # {}

Labels == 1 .. Episodes

\* partial: short of the natural end, or of unknown duration.  ended: past it and
\* short of watched.
Classes == {"partial", "ended", "watched"}
Absent == [class |-> "none", at |-> 0]

VARIABLES
    clock,
    progress,
    stamp,     \* progress_stamped_at, 0 where it is NULL
    log,       \* log[tr][l]: the episode_progress row
    member,    \* library_added_at is set
    before,    \* the progress the single-level undo holds
    live,      \* live[tr]: labels written since the frontier last rose
    writer,    \* who wrote last
    unstamped  \* the last rise was an import's; the last three are for the properties

resumeVars == <<clock, progress, stamp, log, member, before, live, writer, unstamped>>

Undoable == 0 .. Episodes \cup {Episodes + 1}  \* one more: nothing to undo

ResumeTypeOK ==
    /\ clock \in 1 .. MaxClock
    /\ progress \in 0 .. Episodes /\ stamp \in 0 .. clock
    /\ log \in [Translations -> [Labels -> [class : Classes, at : 1 .. clock] \cup {Absent}]]
    /\ member \in BOOLEAN /\ before \in Undoable
    /\ live \in [Translations -> SUBSET Labels]

ResumeInit ==
    /\ clock = 1 /\ progress = 0 /\ stamp = 0
    /\ log = [tr \in Translations |-> [l \in Labels |-> Absent]]
    /\ member = FALSE /\ before = Episodes + 1
    /\ live = [tr \in Translations |-> {}]
    /\ writer = "none" /\ unstamped = FALSE

-----------------------------------------------------------------------------
NaturalEnd(class) == class \in {"ended", "watched"}

\* The frontier moved to p: live is what is written after a rise.
Risen(p) == live' = IF p > progress THEN [tr \in Translations |-> {}] ELSE live

\* Mutated form: a writer that forgets the stamp.
StampForgotten(p) == stamp

\* Every writer but the sync: the stamp follows any change.
Stamped(p) == IF p # progress THEN clock ELSE stamp

\* Mutated form: the sync stamps any change.
StampedAlways(p) == IF p # progress THEN clock ELSE stamp

\* The sync: a correction downwards retires nothing (ROD-497).
StampedByRise(p) == IF p > progress THEN clock ELSE stamp

ProgressMoves(p, as, who) ==
    /\ progress' = p /\ stamp' = as /\ writer' = who
    /\ unstamped' = IF p > progress THEN who = "import" ELSE unstamped /\ who # "delete"

Wrote(tr, l, class) ==
    log' = [log EXCEPT ![tr][l] = [class |-> class, at |-> clock]]

\* A checkpoint: save_progress alone.
Checkpoint(tr, l, class) ==
    /\ Wrote(tr, l, class)
    /\ live' = [live EXCEPT ![tr] = @ \cup {l}]
    /\ writer' = "checkpoint"
    /\ member' = TRUE
    /\ UNCHANGED <<progress, stamp, before, unstamped>>

\* Mutated form: the frontier counts plays.
RatchetCounts(l) == progress + 1

Ratchet(l) == IF progress > l THEN progress ELSE l

\* record_finish: the row and the ratchet in one transaction.
Finish(tr, l, class) ==
    LET p == IF NaturalEnd(class) THEN Ratchet(l) ELSE progress
    IN  /\ Wrote(tr, l, class)
        /\ ProgressMoves(p, Stamped(p), "finish")
        /\ live' = IF p > progress THEN [t \in Translations |-> {}]
                   ELSE [live EXCEPT ![tr] = @ \cup {l}]
        /\ member' = TRUE
        /\ UNCHANGED before

\* The status key: Completed snaps to the total, and the undo keeps what was.
StatusKey(p) ==
    /\ member
    /\ p \in {progress, Episodes}
    /\ ProgressMoves(p, Stamped(p), "status") /\ Risen(p)
    /\ before' = progress
    /\ UNCHANGED <<log, member>>

\* restore_list_status.
Undo ==
    /\ before <= Episodes
    /\ ProgressMoves(before, Stamped(before), "undo") /\ Risen(before)
    /\ before' = Episodes + 1
    /\ UNCHANGED <<log, member>>

\* watched_high_water: the ordinal of the last watched row among the rows there are.
HighWater(tr) ==
    LET rows == {l \in Labels : log[tr][l] # Absent}
        watched == {l \in rows : log[tr][l].class = "watched"}
    IN  IF watched = {} THEN 0
        ELSE Cardinality({l \in rows : \E w \in watched : l <= w})

\* The recompute key; it takes the pending undo with it.
Recompute(tr) ==
    /\ member
    /\ ProgressMoves(HighWater(tr), Stamped(HighWater(tr)), "recompute") /\ Risen(HighWater(tr))
    /\ before' = Episodes + 1
    /\ UNCHANGED <<log, member>>

\* apply_reconcile: a pull adopts the account's progress, up or down.
Adopt(p) ==
    /\ member
    /\ p # progress
    /\ ProgressMoves(p, StampedByRise(p), "sync") /\ Risen(p)
    /\ UNCHANGED <<log, member, before>>

\* delete_show, with everything that hangs on the row.
DeleteRow ==
    /\ member
    /\ ProgressMoves(0, 0, "delete")
    /\ log' = [tr \in Translations |-> [l \in Labels |-> Absent]]
    /\ live' = [tr \in Translations |-> {}]
    /\ member' = FALSE /\ before' = Episodes + 1

\* import_legacy over a show that is no member: progress as the other program had
\* it, rows where there are none, each with the time it was written there.  The
\* frontier it had risen to is past the episodes up to p.
ImportLegacy(p, tr, l, class) ==
    /\ ~member /\ clock > 1
    /\ log[tr][l] = Absent
    /\ log' = [log EXCEPT ![tr][l] = [class |-> class, at |-> 1]]
    /\ ProgressMoves(p, stamp, "import")
    /\ live' = [t \in Translations |->
                   IF p > 0 THEN {k \in {l} : t = tr /\ k > p} ELSE live[t] \cup {k \in {l} : t = tr}]
    /\ member' = TRUE
    /\ UNCHANGED before

ResumeWrites ==
    \/ \E tr \in Translations, l \in Labels, class \in Classes :
          Checkpoint(tr, l, class) \/ Finish(tr, l, class)
    \/ \E p \in 0 .. Episodes : StatusKey(p) \/ Adopt(p)
    \/ Undo \/ DeleteRow
    \/ \E tr \in Translations : Recompute(tr)
    \/ \E p \in 0 .. Episodes, tr \in Translations, l \in Labels, class \in Classes :
          ImportLegacy(p, tr, l, class)

ClockTicks ==
    /\ clock < MaxClock
    /\ clock' = clock + 1
    /\ UNCHANGED <<progress, stamp, log, member, before, live, writer, unstamped>>

ResumeNext == ClockTicks \/ (ResumeWrites /\ UNCHANGED clock)

ResumeSpec == ResumeInit /\ [][ResumeNext]_resumeVars

-----------------------------------------------------------------------------
\* Mutated form: partials at the second of the stamp are still offered.
SinceOrAt(row) == row.at >= stamp

Since(row) == row.at > stamp

\* latest_resume: the freshest partial since the stamp.
Offered(tr) == {l \in Labels : log[tr][l] # Absent /\ log[tr][l].class # "watched"
                                /\ Since(log[tr][l])}
LatestResume(tr) == {l \in Offered(tr) : \A k \in Offered(tr) : log[tr][k].at <= log[tr][l].at}

\* land: where the cursor is put when the grid opens, 1 .. Episodes.
Cursor(tr) ==
    IF LatestResume(tr) # {} THEN LatestResume(tr)
    ELSE {IF progress >= Episodes THEN 1 ELSE progress + 1}

-----------------------------------------------------------------------------
(***************************************************************************)
(* Properties.                                                             *)
(***************************************************************************)

\* A partial the frontier has risen past is never offered again, whichever
\* writer moved the frontier (store.rs, the lockstep of progress_stamped_at).  The
\* legacy import breaks it: it raises the frontier and stamps nothing.
NoDeadResume == \A tr \in Translations : LatestResume(tr) \subseteq live[tr]

\* Every other writer keeps the lockstep: a dead partial is offered only where the
\* frontier last rose in an import.
DeadOnlyByImport == unstamped \/ NoDeadResume

\* A play that moves the frontier leaves no older partial in the way: the grid
\* opens on the next episode, or on the first when there is none.
FinishAdvances ==
    [][writer' = "finish" /\ progress' > progress =>
          \A tr \in Translations : Cursor(tr)' = {IF progress' = Episodes THEN 1 ELSE progress' + 1}]_resumeVars

\* A correction of the account downwards keeps the resume mark (ROD-497).
CorrectionKeepsResume ==
    [][writer' = "sync" /\ progress' < progress =>
          \A tr \in Translations : LatestResume(tr)' = LatestResume(tr)]_resumeVars

\* The mark offered is one the user left: every writer of progress keeps it in step
\* with the frontier (store.rs, progress_stamped_at).
ResumeHonest == []DeadOnlyByImport /\ FinishAdvances /\ CorrectionKeepsResume
=============================================================================
