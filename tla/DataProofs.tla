----------------------------- MODULE DataProofs -----------------------------
(***************************************************************************)
(* Proofs about the machines that keep data: a library file and those who  *)
(* open it (StoreOpen), the resume marks in its rows (ResumeMark), the     *)
(* Discover grid (Discover), a play from the command line beside the app   *)
(* (QueryPlay), the tiers the covers live in (CoverCache), the copies of a *)
(* pulled list (Replicas) and the library brought over from the            *)
(* predecessor (LegacyImport).                                             *)
(***************************************************************************)
EXTENDS StoreOpen, ResumeMark, Discover, QueryPlay, CoverCache, Replicas,
    LegacyImport, Induction, Panes, FiniteSetTheorems, SequenceTheorems

-----------------------------------------------------------------------------
(***************************************************************************)
(* The library file and its openers.                                       *)
(***************************************************************************)
\* A schema of one version, whole.
WholeFile(f) == \E g \in {Blank, First, Second, Third} : f.version = g.version /\ f.tables = g.tables

\* A file on the ladder: whole, seeded where a binding serves, and not used by the
\* program before it is at the top.
OnLadder(f) ==
    /\ f \in File /\ WholeFile(f)
    /\ f.last = "pinned" => f.bound
    /\ f.version < SchemaVersion => f.last # "chosen" /\ f.mark # "moved"

Steps == {"closed", "wal", "version", "begin", "reread", "climb", "commit", "verify", "probe", "open"} \cup Errors

OpenTypes ==
    /\ file \in File /\ found \in Sane \cup Strange /\ readonly \in BOOLEAN
    /\ at \in [Openers -> Steps] /\ tx \in [Openers -> File]

\* BEGIN IMMEDIATE: one ladder at a time.
OneHolder == \A p, q \in Openers : Holder(p) /\ Holder(q) => p = q

\* What each opener may count on where it is.
Stands(p) ==
    /\ Holder(p) => OnLadder(tx[p])
    /\ at[p] = "reread" => tx[p] = file
    /\ at[p] \in {"climb", "commit"} => file.version < SchemaVersion
    /\ at[p] = "climb" => tx[p].version < SchemaVersion
    /\ at[p] = "commit" => tx[p].version = SchemaVersion
    /\ at[p] \in {"verify", "probe", "open"} => file.version = SchemaVersion
    /\ ~readonly => at[p] \notin Errors \ {"locked"}

SaneInv == OnLadder(file) /\ \A p \in Openers : Stands(p)

StrangeInv ==
    /\ file = found
    /\ \A p \in Openers : /\ at[p] \in {"closed", "wal", "version", "verify"} \cup Errors
                          /\ at[p] = "verify" => file.version = SchemaVersion

OpenInv == OpenTypes /\ OneHolder /\ (found \in Sane => SaneInv) /\ (found \notin Sane => StrangeInv)

\* What is used stays used: UseSurvives of one step.
UseKept ==
    /\ file.last = "chosen" => file'.last = "chosen"
    /\ file.mark = "moved" => file'.mark = "moved"

-----------------------------------------------------------------------------
LEMMA LadderFiles ==
    /\ Blank \in File /\ First \in File /\ Second \in File /\ Third \in File
    /\ Blank.version = 0 /\ First.version = 1 /\ Second.version = 2 /\ Third.version = 3
    /\ Blank.tables = {} /\ First.tables = {"show", "pin"} /\ Second.tables = {"show", "pin", "stamp"}
    /\ Third.tables = {"show", "stamp", "last_used"}
    /\ \A f \in {Blank, First, Second, Third} : f.last = "nowhere" /\ f.mark # "moved" /\ f.bound = FALSE
  <1>1. /\ Blank \in File /\ Blank.version = 0 /\ Blank.tables = {} /\ Blank.last = "nowhere"
        /\ Blank.mark = "null" /\ Blank.bound = FALSE
    BY DEF Blank, File, Routes, Marks
  <1>2. /\ First \in File /\ First.version = 1 /\ First.tables = {"show", "pin"} /\ First.last = "nowhere"
        /\ First.mark = "null" /\ First.bound = FALSE
    BY <1>1 DEF First, File
  <1>3. /\ Second \in File /\ Second.version = 2 /\ Second.tables = {"show", "pin", "stamp"}
        /\ Second.last = "nowhere" /\ Second.mark = "backfilled" /\ Second.bound = FALSE
    BY <1>2 DEF Second, File, Marks
  <1>4. /\ Third \in File /\ Third.version = 3 /\ Third.tables = {"show", "stamp", "last_used"}
        /\ Third.last = "nowhere" /\ Third.mark = "backfilled" /\ Third.bound = FALSE
    BY <1>3 DEF Third, File
  <1> QED
    BY <1>1, <1>2, <1>3, <1>4

\* What a whole file is, by its version.
LEMMA WholeFiles ==
    ASSUME NEW f
    PROVE  WholeFile(f) <=> \/ f.version = 0 /\ f.tables = {}
                            \/ f.version = 1 /\ f.tables = {"show", "pin"}
                            \/ f.version = 2 /\ f.tables = {"show", "pin", "stamp"}
                            \/ f.version = 3 /\ f.tables = {"show", "stamp", "last_used"}
  <1>1. WholeFile(f) <=> \/ f.version = Blank.version /\ f.tables = Blank.tables
                         \/ f.version = First.version /\ f.tables = First.tables
                         \/ f.version = Second.version /\ f.tables = Second.tables
                         \/ f.version = Third.version /\ f.tables = Third.tables
    BY DEF WholeFile
  <1> QED
    BY <1>1, LadderFiles

\* A sane file is on the ladder; a strange one is refused by its version or has no show.
LEMMA FoundFiles ==
    /\ \A f \in Sane : OnLadder(f)
    /\ \A f \in Strange : /\ f \in File /\ f.last = "nowhere"
                          /\ f.version = SchemaVersion => f.tables = {}
                          /\ f.version # SchemaVersion => ~Readable(f.version)
  <1>1. ASSUME NEW g \in {Blank, First, Second, Third}, NEW b \in BOOLEAN
        PROVE  OnLadder([g EXCEPT !.bound = b])
    <2>1. /\ [g EXCEPT !.bound = b] \in File /\ [g EXCEPT !.bound = b].version = g.version
          /\ [g EXCEPT !.bound = b].tables = g.tables /\ [g EXCEPT !.bound = b].last = g.last
          /\ [g EXCEPT !.bound = b].mark = g.mark
      BY LadderFiles DEF File
    <2> QED
      BY <2>1, LadderFiles DEF OnLadder, WholeFile
  <1>2. OnLadder(Blank)
    BY LadderFiles DEF OnLadder, WholeFile
  <1>3. ASSUME NEW f \in Strange
        PROVE  /\ f \in File /\ f.last = "nowhere"
               /\ f.version = SchemaVersion => f.tables = {}
               /\ f.version # SchemaVersion => ~Readable(f.version)
    <2>1. CASE f = [Third EXCEPT !.version = 4]
      BY <2>1, LadderFiles DEF File, Readable, SchemaVersion
    <2>2. CASE f = [First EXCEPT !.version = -1]
      BY <2>2, LadderFiles DEF File, Readable, SchemaVersion
    <2>3. CASE f = [Blank EXCEPT !.version = -1]
      BY <2>3, LadderFiles DEF File, Readable, SchemaVersion
    <2>4. CASE f = [Blank EXCEPT !.version = SchemaVersion]
      BY <2>4, LadderFiles DEF File, SchemaVersion
    <2> QED
      BY <2>1, <2>2, <2>3, <2>4 DEF Strange
  <1> QED
    BY <1>1, <1>2, <1>3 DEF Sane

\* A rung succeeds on a ladder below its top, and keeps to the ladder.
LEMMA RungGood ==
    ASSUME NEW f, OnLadder(f), f.version < SchemaVersion
    PROVE  /\ Rung(f, NextRung(f)) /\ OnLadder(Climbed(f)) /\ Climbed(f) \in File
           /\ Climbed(f).version <= SchemaVersion
  <1> DEFINE c == Climbed(f)
  <1>1. f \in File /\ f.version \in {0, 1, 2} /\ f.last # "chosen" /\ f.mark # "moved"
    BY WholeFiles DEF OnLadder, SchemaVersion
  <1>2. CASE f.version = 0
    <2>1. f.tables = {}
      BY <1>2, WholeFiles DEF OnLadder
    <2>2. c = [f EXCEPT !.version = 1, !.tables = {"show", "pin"}]
      BY <1>2 DEF Climbed
    <2>3. c \in File /\ c.version = 1 /\ c.tables = {"show", "pin"} /\ c.last = f.last /\ c.mark = f.mark /\ c.bound = f.bound
      BY <1>1, <2>2 DEF File
    <2>4. Rung(f, NextRung(f))
      BY <1>2, <2>1 DEF Rung, NextRung
    <2> QED
      BY <1>1, <2>3, <2>4, WholeFiles DEF OnLadder, SchemaVersion
  <1>3. CASE f.version = 1
    <2>1. f.tables = {"show", "pin"}
      BY <1>3, WholeFiles DEF OnLadder
    <2>2. c = [f EXCEPT !.version = 2, !.tables = f.tables \cup {"stamp"}, !.mark = "backfilled"]
      BY <1>3 DEF Climbed
    <2>3. c \in File /\ c.version = 2 /\ c.tables = {"show", "pin", "stamp"} /\ c.last = f.last
          /\ c.mark = "backfilled" /\ c.bound = f.bound
      <3>1. f.tables \cup {"stamp"} = {"show", "pin", "stamp"}
        BY <2>1
      <3> QED
        BY <1>1, <2>2, <3>1 DEF File, Marks
    <2>4. Rung(f, NextRung(f))
      BY <1>3, <2>1 DEF Rung, NextRung
    <2> QED
      BY <1>1, <2>3, <2>4, WholeFiles DEF OnLadder, SchemaVersion
  <1>4. CASE f.version = 2
    <2>1. f.tables = {"show", "pin", "stamp"}
      BY <1>4, WholeFiles DEF OnLadder
    <2>2. c = [f EXCEPT !.version = 3, !.tables = (f.tables \ {"pin"}) \cup {"last_used"}, !.last = Seeded(f)]
      BY <1>4 DEF Climbed
    <2>3. Seeded(f) \in Routes /\ (Seeded(f) = "pinned" => f.bound)
      BY DEF Seeded, Routes
    <2>4. (f.tables \ {"pin"}) \cup {"last_used"} = {"show", "stamp", "last_used"}
      BY <2>1
    <2>5. c \in File /\ c.version = 3 /\ c.tables = {"show", "stamp", "last_used"} /\ c.last = Seeded(f) /\ c.bound = f.bound
      BY <1>1, <2>2, <2>3, <2>4 DEF File
    <2>6. Rung(f, NextRung(f))
      BY <1>4, <2>1 DEF Rung, NextRung
    <2> QED
      BY <1>1, <2>3, <2>5, <2>6, WholeFiles DEF OnLadder, SchemaVersion
  <1> QED
    BY <1>1, <1>2, <1>3, <1>4

LEMMA OpenInitGood ==
    ASSUME OpenInit
    PROVE  OpenInv
  <1>1. file \in File
    BY FoundFiles DEF OpenInit, OnLadder
  <1>2. \A p \in Openers : at[p] = "closed"
    BY DEF OpenInit
  <1>3. OpenTypes
    BY <1>1, LadderFiles DEF OpenInit, OpenTypes, Steps
  <1>4. \A p \in Openers : ~Holder(p)
    BY <1>2 DEF Holder
  <1>5. found \in Sane => SaneInv
    BY <1>2, <1>4, FoundFiles DEF OpenInit, SaneInv, Stands, Errors
  <1>6. found \notin Sane => StrangeInv
    BY <1>2 DEF OpenInit, StrangeInv
  <1> QED
    BY <1>3, <1>4, <1>5, <1>6 DEF OpenInv, OneHolder

-----------------------------------------------------------------------------
\* An opener moves to a step that takes no lock, or stays; the file stays.
LEMMA QuietStep ==
    ASSUME OpenInv, NEW p \in Openers, NEW step \in Steps, at' = [at EXCEPT ![p] = step],
           UNCHANGED <<file, readonly, tx, found>>,
           Holder(p)' => Holder(p),
           found \in Sane => Stands(p)',
           found \notin Sane => /\ step \in {"closed", "wal", "version", "verify"} \cup Errors
                                /\ step = "verify" => file.version = SchemaVersion
    PROVE  OpenInv' /\ UseKept
  <1>1. at'[p] = step /\ \A q \in Openers : q # p => at'[q] = at[q]
    BY DEF OpenInv, OpenTypes
  <1>2. OpenTypes'
    BY DEF OpenInv, OpenTypes
  <1>3. \A q \in Openers : Holder(q)' => Holder(q)
    BY <1>1 DEF Holder
  <1>4. OneHolder'
    BY <1>3 DEF OpenInv, OneHolder
  <1>5. ASSUME found \in Sane PROVE SaneInv'
    <2>1. \A q \in Openers : q # p => Stands(q)'
      BY <1>1, <1>5 DEF OpenInv, SaneInv, Stands, Holder
    <2> QED
      BY <1>5, <2>1 DEF OpenInv, SaneInv
  <1>6. ASSUME found \notin Sane PROVE StrangeInv'
    <2>3. StrangeInv
      BY <1>6 DEF OpenInv
    <2>4. step \in {"closed", "wal", "version", "verify"} \cup Errors /\ (step = "verify" => file.version = SchemaVersion)
      BY <1>6
    <2>1. file' = found' /\ file' = file
      BY <2>3 DEF StrangeInv
    <2>2. \A q \in Openers : /\ at'[q] \in {"closed", "wal", "version", "verify"} \cup Errors
                             /\ at'[q] = "verify" => file.version = SchemaVersion
      BY <1>1, <2>3, <2>4 DEF StrangeInv
    <2> QED
      BY <2>1, <2>2 DEF StrangeInv
  <1> QED
    BY <1>2, <1>4, <1>5, <1>6 DEF OpenInv, UseKept

LEMMA StaysGood ==
    ASSUME OpenInv, UNCHANGED <<file, readonly, at, tx, found>>
    PROVE  OpenInv' /\ UseKept
  BY DEF OpenInv, OpenTypes, OneHolder, SaneInv, StrangeInv, Stands, Holder, UseKept

\* Where an opener is that holds nothing and is past no check, it counts on nothing.
LEMMA NothingCounted ==
    ASSUME NEW p \in Openers, at'[p] \in {"closed", "wal", "version", "begin", "locked"}
    PROVE  Stands(p)' /\ ~Holder(p)'
  BY DEF Stands, Holder, Errors

LEMMA RetriesGood ==
    ASSUME OpenInv, NEW p \in Openers, Retries(p), UNCHANGED <<file, readonly, tx, found>>
    PROVE  OpenInv' /\ UseKept
  <1>1. CASE at' = at
    BY <1>1, StaysGood
  <1>2. CASE at' = [at EXCEPT ![p] = "locked"]
    <2>1. at'[p] = "locked" /\ "locked" \in Errors
      BY <1>2 DEF OpenInv, OpenTypes, Errors
    <2> QED
      BY <1>2, <2>1, QuietStep, NothingCounted DEF Steps
  <1> QED
    BY <1>1, <1>2 DEF Retries, Proceed

\* Opening, the WAL flip, the first look at the version, the end.
LEMMA WithoutLockGood ==
    ASSUME OpenInv, NEW p \in Openers, Opens(p) \/ EnableWal(p) \/ Dies(p)
    PROVE  OpenInv' /\ UseKept
  <1>1. UNCHANGED <<file, readonly, tx, found>>
    BY DEF Opens, EnableWal, Dies
  <1>2. ASSUME NEW step \in {"wal", "version", "closed"}, Proceed(p, step)
        PROVE  OpenInv' /\ UseKept
    <2>1. at' = [at EXCEPT ![p] = step] /\ at'[p] = step
      BY <1>2 DEF Proceed, OpenInv, OpenTypes
    <2> QED
      BY <1>1, <1>2, <2>1, QuietStep, NothingCounted DEF Steps
  <1>3. CASE Retries(p)
    BY <1>1, <1>3, RetriesGood
  <1> QED
    BY <1>2, <1>3 DEF Opens, EnableWal, Dies

LEMMA ReadVersionGood ==
    ASSUME OpenInv, NEW p \in Openers, ReadVersion(p)
    PROVE  OpenInv' /\ UseKept
  <1> DEFINE step == IF ~Readable(file.version) THEN Refused(file.version)
                     ELSE IF file.version = SchemaVersion THEN "verify" ELSE "begin"
  <1>1. at' = [at EXCEPT ![p] = step] /\ UNCHANGED <<file, readonly, tx, found>>
    BY DEF ReadVersion, Proceed
  <1>2. Refused(file.version) \in Errors
    BY DEF Refused, Errors
  <1>3. step \in Steps /\ at'[p] = step
    BY <1>1, <1>2 DEF Steps, OpenInv, OpenTypes
  <1>4. step \notin {"reread", "climb", "commit"}
    BY <1>2 DEF Errors
  <1>5. ASSUME found \in Sane PROVE Stands(p)'
    <2>1. Readable(file.version)
      BY <1>5, LadderFiles DEF OpenInv, SaneInv, OnLadder, WholeFile, Readable, SchemaVersion
    <2>2. step = "begin" \/ (step = "verify" /\ file.version = SchemaVersion)
      BY <2>1
    <2> QED
      BY <1>1, <1>3, <2>2 DEF Stands, Holder, Errors
  <1>6. ASSUME found \notin Sane
        PROVE  /\ step \in {"closed", "wal", "version", "verify"} \cup Errors
               /\ step = "verify" => file.version = SchemaVersion
    <2>1. file \in Strange
      BY <1>6 DEF OpenInv, OpenTypes, StrangeInv
    <2>2. step = Refused(file.version) \/ (step = "verify" /\ file.version = SchemaVersion)
      BY <2>1, FoundFiles
    <2> HIDE DEF step
    <2> QED
      BY <1>2, <2>2 DEF Errors
  <1> HIDE DEF step
  <1> QED
    BY <1>1, <1>3, <1>4, <1>5, <1>6, QuietStep DEF Holder

LEMMA BeginGood ==
    ASSUME OpenInv, NEW p \in Openers, Begin(p)
    PROVE  OpenInv' /\ UseKept
  <1>1. at[p] = "begin" /\ UNCHANGED <<file, readonly, found>>
    BY DEF Begin
  <1>2. found \in Sane
    BY <1>1 DEF OpenInv, StrangeInv, Errors
  <1>3. CASE readonly
    <2>1. at' = [at EXCEPT ![p] = "sql"] /\ at'[p] = "sql" /\ UNCHANGED tx
      BY <1>3 DEF Begin, Proceed, OpenInv, OpenTypes
    <2>2. Stands(p)' /\ ~Holder(p)'
      BY <1>1, <1>3, <2>1 DEF Stands, Holder
    <2>3. "sql" \in Steps
      BY DEF Steps, Errors
    <2> QED
      BY <1>1, <1>2, <2>1, <2>2, <2>3, QuietStep
  <1>4. CASE ~readonly /\ Locked
    BY <1>1, <1>4, RetriesGood DEF Begin
  <1>5. CASE ~readonly /\ ~Locked
    <2>1. at' = [at EXCEPT ![p] = "reread"] /\ tx' = [tx EXCEPT ![p] = file]
      BY <1>5 DEF Begin, Proceed
    <2>2. /\ at'[p] = "reread" /\ tx'[p] = file
          /\ \A q \in Openers : q # p => at'[q] = at[q] /\ tx'[q] = tx[q] /\ ~Holder(q) /\ ~Holder(q)'
      BY <1>5, <2>1 DEF OpenInv, OpenTypes, Locked, Holder
    <2>3. OpenTypes'
      BY <1>1, <2>1 DEF OpenInv, OpenTypes, Steps
    <2>4. OneHolder'
      BY <2>2 DEF OneHolder
    <2>5. SaneInv'
      BY <1>1, <1>2, <2>2 DEF OpenInv, SaneInv, Stands, Holder, Errors
    <2> QED
      BY <1>1, <1>2, <2>3, <2>4, <2>5 DEF OpenInv, UseKept
  <1> QED
    BY <1>3, <1>4, <1>5

LEMMA RereadGood ==
    ASSUME OpenInv, NEW p \in Openers, Reread(p)
    PROVE  OpenInv' /\ UseKept
  <1> DEFINE step == IF tx[p].version = SchemaVersion THEN "verify" ELSE "climb"
  <1>1. at[p] = "reread" /\ at' = [at EXCEPT ![p] = step] /\ UNCHANGED <<file, readonly, tx, found>>
    BY DEF Reread, Proceed
  <1>2. found \in Sane
    BY <1>1 DEF OpenInv, StrangeInv, Errors
  <1>3. OnLadder(tx[p]) /\ tx[p] = file /\ Holder(p)
    BY <1>1, <1>2 DEF OpenInv, SaneInv, Stands, Holder
  <1>4. tx[p].version \in 0 .. SchemaVersion
    BY <1>3, LadderFiles DEF OnLadder, WholeFile, SchemaVersion
  <1>5. step \in Steps /\ at'[p] = step
    BY <1>1 DEF Steps, OpenInv, OpenTypes
  <1>6. Stands(p)'
    BY <1>1, <1>3, <1>4, <1>5 DEF Stands, Holder, Errors, SchemaVersion
  <1> HIDE DEF step
  <1> QED
    BY <1>1, <1>2, <1>3, <1>5, <1>6, QuietStep

LEMMA ClimbGood ==
    ASSUME OpenInv, NEW p \in Openers, Climb(p)
    PROVE  OpenInv' /\ UseKept
  <1>1. at[p] = "climb" /\ UNCHANGED <<file, readonly, found>>
    BY DEF Climb
  <1>2. found \in Sane
    BY <1>1 DEF OpenInv, StrangeInv, Errors
  <1>3. OnLadder(tx[p]) /\ tx[p].version < SchemaVersion /\ file.version < SchemaVersion /\ Holder(p)
    BY <1>1, <1>2 DEF OpenInv, SaneInv, Stands, Holder
  <1>4. Rung(tx[p], NextRung(tx[p])) /\ OnLadder(Climbed(tx[p])) /\ Climbed(tx[p]) \in File /\ Climbed(tx[p]).version <= SchemaVersion
    BY <1>3, RungGood
  <1>5. tx' = [tx EXCEPT ![p] = Climbed(tx[p])]
        /\ at' = [at EXCEPT ![p] = IF tx'[p].version = SchemaVersion THEN "commit" ELSE "climb"]
    BY <1>4 DEF Climb, Proceed
  <1>6. /\ tx'[p] = Climbed(tx[p]) /\ at'[p] = IF tx'[p].version = SchemaVersion THEN "commit" ELSE "climb"
        /\ \A q \in Openers : q # p => at'[q] = at[q] /\ tx'[q] = tx[q]
    BY <1>5 DEF OpenInv, OpenTypes
  <1>7. OpenTypes'
    BY <1>1, <1>4, <1>5 DEF OpenInv, OpenTypes, Steps
  <1>8. OneHolder'
    BY <1>3, <1>6 DEF OpenInv, OneHolder, Holder
  <1>9. Climbed(tx[p]).version \in Int
    BY <1>4 DEF File
  <1>10. Stands(p)'
    BY <1>1, <1>3, <1>4, <1>6, <1>9 DEF Stands, Holder, Errors, SchemaVersion
  <1>11. \A q \in Openers : q # p => Stands(q)'
    BY <1>1, <1>2, <1>6 DEF OpenInv, SaneInv, Stands, Holder
  <1> QED
    BY <1>1, <1>2, <1>7, <1>8, <1>10, <1>11 DEF OpenInv, SaneInv, UseKept

LEMMA CommitGood ==
    ASSUME OpenInv, NEW p \in Openers, Commit(p)
    PROVE  OpenInv' /\ UseKept
  <1>1. at[p] = "commit" /\ file' = tx[p] /\ at' = [at EXCEPT ![p] = "probe"] /\ UNCHANGED <<readonly, tx, found>>
    BY DEF Commit, Proceed
  <1>2. found \in Sane
    BY <1>1 DEF OpenInv, StrangeInv, Errors
  <1>3. OnLadder(tx[p]) /\ tx[p].version = SchemaVersion /\ file.version < SchemaVersion /\ OnLadder(file) /\ Holder(p)
    BY <1>1, <1>2 DEF OpenInv, SaneInv, Stands, Holder
  <1>4. at'[p] = "probe" /\ \A q \in Openers : q # p => at'[q] = at[q] /\ ~Holder(q)
    BY <1>1, <1>3 DEF OpenInv, OpenTypes, OneHolder
  <1>5. OpenTypes'
    BY <1>1, <1>3 DEF OpenInv, OpenTypes, OnLadder, Steps
  <1>6. OneHolder'
    BY <1>4 DEF OneHolder, Holder
  <1>7. Stands(p)'
    BY <1>1, <1>3, <1>4 DEF Stands, Holder, Errors
  <1>8. \A q \in Openers : q # p => Stands(q)'
    BY <1>1, <1>2, <1>3, <1>4 DEF OpenInv, SaneInv, Stands, Holder
  <1>9. UseKept
    BY <1>3 DEF UseKept, OnLadder
  <1> QED
    BY <1>1, <1>2, <1>3, <1>5, <1>6, <1>7, <1>8, <1>9 DEF OpenInv, SaneInv

LEMMA VerifyGood ==
    ASSUME OpenInv, NEW p \in Openers, Verify(p)
    PROVE  OpenInv' /\ UseKept
  <1> DEFINE step == IF "show" \in file.tables THEN "probe" ELSE "missing"
  <1>1. at[p] = "verify" /\ at' = [at EXCEPT ![p] = step] /\ UNCHANGED <<file, readonly, tx, found>>
    BY DEF Verify, Proceed
  <1>2. step \in Steps /\ at'[p] = step /\ "missing" \in Errors
    BY <1>1 DEF Steps, Errors, OpenInv, OpenTypes
  <1>3. ASSUME found \in Sane PROVE Stands(p)'
    <2>1. file.version = SchemaVersion /\ OnLadder(file)
      BY <1>1, <1>3 DEF OpenInv, SaneInv, Stands
    <2>2. step = "probe"
      <3>1. "show" \in file.tables
        BY <2>1, WholeFiles DEF OnLadder, SchemaVersion
      <3> QED
        BY <3>1
    <2> QED
      BY <1>1, <1>2, <2>1, <2>2 DEF Stands, Holder, Errors
  <1>4. ASSUME found \notin Sane PROVE step = "missing"
    <2>1. file \in Strange /\ file.version = SchemaVersion
      BY <1>1, <1>4 DEF OpenInv, OpenTypes, StrangeInv
    <2> QED
      BY <2>1, FoundFiles
  <1> HIDE DEF step
  <1>5. ~Holder(p)'
    BY <1>2 DEF Holder, Errors, step
  <1> QED
    BY <1>1, <1>2, <1>3, <1>4, <1>5, QuietStep

LEMMA ProbeGood ==
    ASSUME OpenInv, NEW p \in Openers, ProbeWritable(p)
    PROVE  OpenInv' /\ UseKept
  <1> DEFINE step == IF readonly THEN "read_only" ELSE "open"
  <1>1. at[p] = "probe" /\ at' = [at EXCEPT ![p] = step] /\ UNCHANGED <<file, readonly, tx, found>>
    BY DEF ProbeWritable, Proceed
  <1>2. found \in Sane
    BY <1>1 DEF OpenInv, StrangeInv, Errors
  <1>3. step \in Steps /\ at'[p] = step
    BY <1>1 DEF Steps, Errors, OpenInv, OpenTypes
  <1>4. file.version = SchemaVersion
    BY <1>1, <1>2 DEF OpenInv, SaneInv, Stands
  <1>5. Stands(p)' /\ ~Holder(p)'
    BY <1>1, <1>3, <1>4 DEF Stands, Holder, Errors
  <1> HIDE DEF step
  <1> QED
    BY <1>1, <1>2, <1>3, <1>5, QuietStep

LEMMA UsesGood ==
    ASSUME OpenInv, NEW p \in Openers, Uses(p)
    PROVE  OpenInv' /\ UseKept
  <1>1. /\ at[p] = "open" /\ UNCHANGED <<readonly, at, tx, found>> /\ \A q \in Openers : ~Holder(q)
        /\ file' = [file EXCEPT !.last = "chosen"] \/ file' = [file EXCEPT !.mark = "moved"]
    BY DEF Uses, Locked
  <1>2. found \in Sane
    BY <1>1 DEF OpenInv, StrangeInv, Errors
  <1>3. file.version = SchemaVersion /\ OnLadder(file) /\ file \in File
    BY <1>1, <1>2 DEF OpenInv, SaneInv, Stands, OnLadder
  <1>4. /\ file' \in File /\ file'.version = file.version /\ file'.tables = file.tables /\ file'.bound = file.bound
        /\ file'.last \in {file.last, "chosen"} /\ file'.mark \in {file.mark, "moved"}
    BY <1>1, <1>3 DEF File, Routes, Marks
  <1>5. OnLadder(file')
    <2>1. WholeFile(file') /\ file'.version = 3
      BY <1>3, <1>4, WholeFiles DEF OnLadder, SchemaVersion
    <2> QED
      BY <1>3, <1>4, <2>1 DEF OnLadder, SchemaVersion
  <1>6. OpenTypes' /\ OneHolder'
    BY <1>1, <1>4 DEF OpenInv, OpenTypes, OneHolder, Holder
  <1>7. \A q \in Openers : Stands(q)'
    BY <1>1, <1>2, <1>3, <1>4 DEF OpenInv, SaneInv, Stands, Holder
  <1> QED
    BY <1>1, <1>2, <1>4, <1>5, <1>6, <1>7 DEF OpenInv, SaneInv, UseKept

LEMMA OpenNextGood ==
    ASSUME OpenInv, [OpenNext]_openVars
    PROVE  OpenInv' /\ UseKept
  <1>1. CASE UNCHANGED openVars
    BY <1>1, StaysGood DEF openVars
  <1>2. CASE OpenNext
    BY <1>2, WithoutLockGood, ReadVersionGood, BeginGood, RereadGood, ClimbGood, CommitGood, VerifyGood,
       ProbeGood, UsesGood DEF OpenNext, OpenStep
  <1> QED
    BY <1>1, <1>2

\* A database file survives its openers, for any number of processes, retries and
\* deaths: whole on disk, never climbed twice over what was written since, seeded only
\* where a binding serves, opened in spite of the peers, and left alone when it is not
\* ours (Store::open).
THEOREM FilesOpenWhole == OpenSpec => OpensWhole
  <1>1. OpenInit => OpenInv
    BY OpenInitGood
  <1>2. OpenInv /\ [OpenNext]_openVars => OpenInv'
    BY OpenNextGood
  <1>3. OpenInv => LadderWhole /\ SeedServes /\ SaneOpens /\ StrangeUntouched
    <2> SUFFICES ASSUME OpenInv PROVE LadderWhole /\ SeedServes /\ SaneOpens /\ StrangeUntouched
      OBVIOUS
    <2>1. LadderWhole
      BY DEF OpenInv, SaneInv, OnLadder, WholeFile, LadderWhole
    <2>2. SeedServes
      <3>1. CASE found \in Sane
        BY <3>1 DEF OpenInv, SaneInv, OnLadder, SeedServes
      <3>2. CASE found \notin Sane
        <4>1. file \in Strange
          BY <3>2 DEF OpenInv, OpenTypes, StrangeInv
        <4> QED
          BY <4>1, FoundFiles DEF SeedServes
      <3> QED
        BY <3>1, <3>2
    <2>3. SaneOpens
      BY DEF OpenInv, SaneInv, Stands, SaneOpens
    <2>4. StrangeUntouched
      BY DEF OpenInv, StrangeInv, StrangeUntouched
    <2> QED
      BY <2>1, <2>2, <2>3, <2>4
  <1>4. OpenInv /\ [OpenNext]_openVars =>
          [/\ file.last = "chosen" => file'.last = "chosen"
           /\ file.mark = "moved" => file'.mark = "moved"]_openVars
    BY OpenNextGood DEF UseKept
  <1> QED
    BY <1>1, <1>2, <1>3, <1>4, PTL DEF OpenSpec, OpensWhole, UseSurvives

\* The retries of each opener stay within the limit.
TriesKept == wal \in BOOLEAN /\ attempt \in [Openers -> 0 .. RetryLimit]

LEMMA TriesStep ==
    ASSUME TriesKept, [OpenNext]_openVars
    PROVE  TriesKept'
  <1>1. RetryLimit \in Nat
    BY StoreOpenAssumption
  <1>2. ASSUME NEW p \in Openers, NEW step, Proceed(p, step)
        PROVE  attempt' \in [Openers -> 0 .. RetryLimit]
    BY <1>1, <1>2 DEF Proceed, TriesKept
  <1>3. ASSUME NEW p \in Openers, Retries(p)
        PROVE  attempt' \in [Openers -> 0 .. RetryLimit]
    <2>1. CASE attempt[p] < RetryLimit
      <3>1. attempt' = [attempt EXCEPT ![p] = attempt[p] + 1]
        BY <1>3, <2>1 DEF Retries
      <3>2. attempt[p] + 1 \in 0 .. RetryLimit
        BY <1>1, <2>1 DEF TriesKept
      <3> QED
        BY <3>1, <3>2 DEF TriesKept
    <2>2. CASE ~(attempt[p] < RetryLimit)
      <3>1. Proceed(p, "locked")
        BY <1>3, <2>2 DEF Retries
      <3> QED
        BY <1>2, <3>1
    <2> QED
      BY <2>1, <2>2
  <1>4. ASSUME NEW p \in Openers, Opens(p) \/ OpenStep(p) \/ Uses(p) \/ Dies(p)
        PROVE  TriesKept'
    <2>1. wal' \in BOOLEAN
      BY <1>4 DEF OpenStep, Opens, EnableWal, ReadVersion, Begin, Reread, Climb, Commit, Verify, ProbeWritable,
                  Uses, Dies, TriesKept
    <2>2. \/ \E step : Proceed(p, step)
          \/ Retries(p)
          \/ UNCHANGED attempt
      BY <1>4, Zenon DEF OpenStep, Opens, EnableWal, ReadVersion, Begin, Reread, Climb, Commit, Verify, ProbeWritable,
                  Uses, Dies
    <2> QED
      BY <1>2, <1>3, <2>1, <2>2 DEF TriesKept
  <1> QED
    BY <1>4 DEF OpenNext, openVars, TriesKept

LEMMA OpenTyped ==
    ASSUME OpenInv, TriesKept
    PROVE  OpenTypeOK
  <1> DEFINE S == {p \in Openers : Holder(p)}
  <1>1. Cardinality(S) <= 1
    <2>1. S = {} \/ \E p : S = {p}
      BY DEF OpenInv, OneHolder
    <2> HIDE DEF S
    <2>2. CASE S = {}
      <3>1. Cardinality(S) = 0
        BY <2>2, FS_EmptySet
      <3> QED
        BY <3>1
    <2>3. ASSUME NEW p, S = {p}
          PROVE  Cardinality(S) <= 1
      <3>1. Cardinality({p}) = 1
        BY FS_Singleton
      <3> QED
        BY <2>3, <3>1
    <2> QED
      BY <2>1, <2>2, <2>3
  <1>2. file \in File /\ readonly \in BOOLEAN /\ at \in [Openers -> Steps] /\ tx \in [Openers -> File]
    BY DEF OpenInv, OpenTypes
  <1>3. found \in File
    BY FoundFiles DEF OpenInv, OpenTypes, OnLadder
  <1> QED
    BY <1>1, <1>2, <1>3 DEF OpenTypeOK, TriesKept, Steps

\* The library file and its openers stay in their types.
LEMMA FilesTyped == OpenSpec => []OpenTypeOK
  <1>1. OpenInit => OpenInv /\ TriesKept
    <2>1. ASSUME OpenInit
          PROVE  TriesKept
      <3>1. wal \in BOOLEAN
        BY <2>1 DEF OpenInit
      <3>2. attempt = [p \in Openers |-> 0] /\ 0 \in 0 .. RetryLimit
        BY <2>1, StoreOpenAssumption DEF OpenInit
      <3> QED
        BY <3>1, <3>2 DEF TriesKept
    <2> QED
      BY <2>1, OpenInitGood
  <1>2. OpenInv /\ TriesKept /\ [OpenNext]_openVars => OpenInv' /\ TriesKept'
    BY OpenNextGood, TriesStep
  <1>3. OpenInv /\ TriesKept => OpenTypeOK
    BY OpenTyped
  <1> QED
    BY <1>1, <1>2, <1>3, PTL DEF OpenSpec

-----------------------------------------------------------------------------
(***************************************************************************)
(* The resume mark.                                                        *)
(***************************************************************************)
EpisodeRow == [class : Classes, at : Nat] \cup {Absent}

ResumeTypes ==
    /\ clock \in Nat /\ progress \in Nat /\ stamp \in Nat /\ before \in Nat
    /\ log \in [Translations -> [Labels -> EpisodeRow]]
    /\ live \in [Translations -> SUBSET Labels]
    /\ unstamped \in BOOLEAN
    /\ ~member => progress = 0 /\ before > Episodes

\* Nothing is dated after the clock.
DatedInTime ==
    /\ stamp <= clock
    /\ \A tr \in Translations, l \in Labels : log[tr][l] # Absent => log[tr][l].at <= clock

\* What could be offered was written since the frontier last rose.
OfferedLive == unstamped \/ \A tr \in Translations : Offered(tr) \subseteq live[tr]

ResumeInv == ResumeTypes /\ DatedInTime /\ OfferedLive

\* FinishAdvances and CorrectionKeepsResume of one step.
FinishStep ==
    writer' = "finish" /\ progress' > progress =>
        \A tr \in Translations : Cursor(tr)' = {IF progress' = Episodes THEN 1 ELSE progress' + 1}
CorrectionStep ==
    writer' = "sync" /\ progress' < progress =>
        \A tr \in Translations : LatestResume(tr)' = LatestResume(tr)

ResumeStep == ResumeInv' /\ FinishStep /\ CorrectionStep

LEMMA UnstampedMoves ==
    ASSUME NEW p, NEW as, NEW who, ProgressMoves(p, as, who), unstamped \in BOOLEAN
    PROVE  /\ unstamped' \in BOOLEAN
           /\ ~(p > progress) /\ who # "delete" => (unstamped' <=> unstamped)
  <1>1. unstamped' = IF p > progress THEN who = "import" ELSE unstamped /\ who # "delete"
    BY DEF ProgressMoves
  <1>2. CASE p > progress
    <2>1. unstamped' = (who = "import")
      BY <1>1, <1>2
    <2> QED
      BY <1>2, <2>1
  <1>3. CASE ~(p > progress)
    <2>1. unstamped' = (unstamped /\ who # "delete")
      BY <1>1, <1>3
    <2> QED
      BY <1>3, <2>1
  <1> QED
    BY <1>2, <1>3

LEMMA ResumeInitGood ==
    ASSUME ResumeInit
    PROVE  ResumeInv
  <1>1. \A tr \in Translations, l \in Labels : log[tr][l] = Absent
    BY DEF ResumeInit
  <1>2. Episodes + 1 \in Nat
    BY ResumeAssumption
  <1>3. ResumeTypes
    <2>1. Episodes + 1 > Episodes
      BY ResumeAssumption
    <2> QED
      BY <1>2, <2>1 DEF ResumeInit, ResumeTypes, EpisodeRow
  <1>4. DatedInTime
    BY <1>1 DEF ResumeInit, DatedInTime
  <1>5. OfferedLive
    BY <1>1 DEF OfferedLive, Offered
  <1> QED
    BY <1>3, <1>4, <1>5 DEF ResumeInv

\* A frontier that was stamped in this second offers nothing.
LEMMA StampedOffersNone ==
    ASSUME ResumeTypes', DatedInTime', stamp' = clock'
    PROVE  \A tr \in Translations : Offered(tr)' = {} /\ LatestResume(tr)' = {}
  <1>1. \A tr \in Translations, l \in Labels :
            log'[tr][l] # Absent => log'[tr][l].at \in Nat /\ log'[tr][l].at <= clock'
    BY DEF ResumeTypes, EpisodeRow, DatedInTime
  <1>2. clock' \in Nat
    BY DEF ResumeTypes
  <1>3. \A tr \in Translations : Offered(tr)' = {}
    BY <1>1, <1>2 DEF Offered, Since
  <1> QED
    BY <1>3 DEF LatestResume

\* The row of one episode is written with a time that has come.
LEMMA RowWritten ==
    ASSUME ResumeInv, NEW tr \in Translations, NEW l \in Labels, NEW class \in Classes, NEW t \in Nat, t <= clock,
           log' = [log EXCEPT ![tr][l] = [class |-> class, at |-> t]]
    PROVE  /\ log' \in [Translations -> [Labels -> EpisodeRow]]
           /\ \A s \in Translations, k \in Labels : log'[s][k] # Absent => log'[s][k].at <= clock
           /\ \A s \in Translations, k \in Labels : s # tr \/ k # l => log'[s][k] = log[s][k]
  <1> DEFINE line == [class |-> class, at |-> t]
  <1>1. line \in EpisodeRow /\ line.at = t
    BY DEF EpisodeRow
  <1>2. log \in [Translations -> [Labels -> EpisodeRow]] /\ log' = [log EXCEPT ![tr] = [log[tr] EXCEPT ![l] = line]]
    BY DEF ResumeInv, ResumeTypes
  <1> HIDE DEF line
  <1>3. /\ log'[tr][l] = line
        /\ \A s \in Translations, k \in Labels : s # tr \/ k # l => log'[s][k] = log[s][k]
        /\ log' \in [Translations -> [Labels -> EpisodeRow]]
    BY <1>1, <1>2
  <1> QED
    BY <1>1, <1>3 DEF ResumeInv, DatedInTime

\* A writer that changes the frontier and no line: stamped, if it moved it.
LEMMA MovesGood ==
    ASSUME ResumeInv, NEW p \in Nat, NEW who, who \in {"status", "undo", "recompute"},
           ProgressMoves(p, Stamped(p), who), Risen(p), UNCHANGED <<log, member, clock>>, member,
           before' \in Nat
    PROVE  ResumeStep
  <1>0. unstamped' \in BOOLEAN /\ (~(p > progress) /\ who # "delete" => (unstamped' <=> unstamped))
    BY UnstampedMoves DEF ResumeInv, ResumeTypes
  <1>1. progress' = p /\ stamp' = Stamped(p) /\ writer' = who
    BY DEF ProgressMoves
  <1>2. stamp' \in Nat /\ stamp' <= clock /\ (p # progress => stamp' = clock) /\ (p = progress => stamp' = stamp)
    BY <1>1 DEF Stamped, ResumeInv, ResumeTypes, DatedInTime
  <1>3. live' \in [Translations -> SUBSET Labels] /\ (p = progress => live' = live)
    BY DEF Risen, ResumeInv, ResumeTypes
  <1>4. ResumeTypes'
    BY <1>0, <1>1, <1>2, <1>3 DEF ResumeInv, ResumeTypes
  <1>5. DatedInTime'
    BY <1>2 DEF ResumeInv, DatedInTime
  <1>6. p = progress => (unstamped' <=> unstamped)
    <2>1. progress \in Nat
      BY DEF ResumeInv, ResumeTypes
    <2>2. who # "delete" /\ (p = progress => ~(p > progress))
      BY <2>1
    <2> QED
      BY <1>0, <2>2
  <1>7. OfferedLive'
    <2>1. CASE p = progress
      BY <1>2, <1>3, <1>6, <2>1 DEF ResumeInv, OfferedLive, Offered, Since
    <2>2. CASE p # progress
      <3>1. stamp' = clock'
        BY <1>2, <2>2
      <3>2. \A tr \in Translations : Offered(tr)' = {}
        BY <1>4, <1>5, <3>1, StampedOffersNone
      <3> QED
        BY <3>2 DEF OfferedLive
    <2> QED
      BY <2>1, <2>2
  <1> QED
    BY <1>1, <1>4, <1>5, <1>7 DEF ResumeStep, ResumeInv, FinishStep, CorrectionStep

LEMMA CheckpointGood ==
    ASSUME ResumeInv, NEW tr \in Translations, NEW l \in Labels, NEW class \in Classes,
           Checkpoint(tr, l, class), UNCHANGED clock
    PROVE  ResumeStep
  <1>1. /\ UNCHANGED <<progress, stamp, before, unstamped>> /\ live' = [live EXCEPT ![tr] = live[tr] \cup {l}]
        /\ member' = TRUE /\ writer' = "checkpoint"
    BY DEF Checkpoint
  <1>2. /\ log' \in [Translations -> [Labels -> EpisodeRow]]
        /\ \A s \in Translations, k \in Labels : log'[s][k] # Absent => log'[s][k].at <= clock
        /\ \A s \in Translations, k \in Labels : s # tr \/ k # l => log'[s][k] = log[s][k]
    <2>1. log' = [log EXCEPT ![tr][l] = [class |-> class, at |-> clock]] /\ clock \in Nat /\ clock <= clock
      BY DEF Checkpoint, Wrote, ResumeInv, ResumeTypes
    <2> QED
      BY <2>1, RowWritten
  <1>3. /\ live' \in [Translations -> SUBSET Labels] /\ l \in live'[tr]
        /\ \A s \in Translations : live[s] \subseteq live'[s]
    BY <1>1 DEF ResumeInv, ResumeTypes
  <1>4. ResumeTypes' /\ DatedInTime'
    BY <1>1, <1>2, <1>3 DEF ResumeInv, ResumeTypes, DatedInTime
  <1>5. OfferedLive'
    <2>1. \A s \in Translations : Offered(s)' \subseteq Offered(s) \cup (IF s = tr THEN {l} ELSE {})
      BY <1>1, <1>2 DEF Offered, Since
    <2> QED
      BY <1>1, <1>3, <2>1 DEF ResumeInv, OfferedLive
  <1> QED
    BY <1>1, <1>4, <1>5 DEF ResumeStep, ResumeInv, ResumeTypes, FinishStep, CorrectionStep

LEMMA FinishGood ==
    ASSUME ResumeInv, NEW tr \in Translations, NEW l \in Labels, NEW class \in Classes,
           Finish(tr, l, class), UNCHANGED clock
    PROVE  ResumeStep
  <1> DEFINE p == IF NaturalEnd(class) THEN Ratchet(l) ELSE progress
  <1>1. l \in Nat /\ l <= Episodes /\ Episodes \in Nat
    BY ResumeAssumption DEF Labels
  <1>2. p \in Nat /\ p >= progress /\ (p > progress => p = l)
    BY <1>1 DEF Ratchet, ResumeInv, ResumeTypes
  <1>3. /\ Wrote(tr, l, class) /\ ProgressMoves(p, Stamped(p), "finish") /\ member' = TRUE /\ UNCHANGED before
        /\ live' = IF p > progress THEN [t \in Translations |-> {}] ELSE [live EXCEPT ![tr] = @ \cup {l}]
    BY DEF Finish
  <1> HIDE DEF p
  <1>4. /\ log' \in [Translations -> [Labels -> EpisodeRow]]
        /\ \A s \in Translations, k \in Labels : log'[s][k] # Absent => log'[s][k].at <= clock
        /\ \A s \in Translations, k \in Labels : s # tr \/ k # l => log'[s][k] = log[s][k]
    <2>1. log' = [log EXCEPT ![tr][l] = [class |-> class, at |-> clock]] /\ clock \in Nat /\ clock <= clock
      BY <1>3 DEF Wrote, ResumeInv, ResumeTypes
    <2> QED
      BY <2>1, RowWritten
  <1>5. progress' = p /\ stamp' = Stamped(p) /\ writer' = "finish"
    BY <1>3 DEF ProgressMoves
  <1>6. stamp' \in Nat /\ stamp' <= clock /\ (p # progress => stamp' = clock) /\ (p = progress => stamp' = stamp)
    BY <1>5 DEF Stamped, ResumeInv, ResumeTypes, DatedInTime
  <1>7. live' \in [Translations -> SUBSET Labels]
    BY <1>3 DEF ResumeInv, ResumeTypes
  <1>8. ResumeTypes' /\ DatedInTime'
    <2>1. unstamped' \in BOOLEAN
      BY <1>3, UnstampedMoves DEF ResumeInv, ResumeTypes
    <2> QED
      BY <1>2, <1>3, <1>4, <1>5, <1>6, <1>7, <2>1 DEF ResumeInv, ResumeTypes, DatedInTime
  <1>9. CASE p > progress
    <2>1. stamp' = clock'
      BY <1>2, <1>6, <1>9 DEF ResumeInv, ResumeTypes
    <2>2. \A s \in Translations : Offered(s)' = {} /\ LatestResume(s)' = {}
      BY <1>8, <2>1, StampedOffersNone
    <2>3. p = l /\ p <= Episodes
      BY <1>1, <1>2, <1>9
    <2>4. progress' >= Episodes <=> progress' = Episodes
      BY <1>1, <1>2, <1>5, <2>3
    <2>5. FinishStep
      BY <2>2, <2>4 DEF FinishStep, Cursor
    <2> QED
      BY <1>5, <1>8, <2>2, <2>5 DEF ResumeStep, ResumeInv, OfferedLive, CorrectionStep
  <1>10. CASE p = progress
    <2>1. /\ l \in live'[tr] /\ \A s \in Translations : live[s] \subseteq live'[s]
      BY <1>2, <1>3, <1>10 DEF ResumeInv, ResumeTypes
    <2>2. (unstamped' <=> unstamped) /\ stamp' = stamp
      BY <1>2, <1>3, <1>6, <1>10 DEF ProgressMoves, ResumeInv, ResumeTypes
    <2>3. \A s \in Translations : Offered(s)' \subseteq Offered(s) \cup (IF s = tr THEN {l} ELSE {})
      BY <1>4, <2>2 DEF Offered, Since
    <2>4. OfferedLive'
      BY <2>1, <2>2, <2>3 DEF ResumeInv, OfferedLive
    <2>5. ~(progress' > progress)
      BY <1>2, <1>5, <1>10
    <2> QED
      BY <1>5, <1>8, <2>4, <2>5 DEF ResumeStep, ResumeInv, FinishStep, CorrectionStep
  <1> QED
    BY <1>2, <1>9, <1>10 DEF ResumeInv, ResumeTypes

\* The recompute counts rows of the listing.
LEMMA HighWaterType ==
    ASSUME NEW tr \in Translations
    PROVE  HighWater(tr) \in Nat
  <1> DEFINE rows == {l \in Labels : log[tr][l] # Absent}
             watched == {l \in rows : log[tr][l].class = "watched"}
             under == {l \in rows : \E w \in watched : l <= w}
  <1>1. IsFiniteSet(1 .. Episodes)
    BY FS_Interval, ResumeAssumption
  <1>2. under \subseteq 1 .. Episodes
    BY DEF Labels
  <1>3. Cardinality(under) \in Nat
    BY <1>1, <1>2, FS_Subset, FS_CardinalityType
  <1>4. HighWater(tr) = IF watched = {} THEN 0 ELSE Cardinality(under)
    BY DEF HighWater
  <1> HIDE DEF under, watched
  <1> QED
    BY <1>3, <1>4

LEMMA AdoptGood ==
    ASSUME ResumeInv, NEW p \in Nat, Adopt(p), UNCHANGED clock
    PROVE  ResumeStep
  <1>1. /\ progress' = p /\ stamp' = StampedByRise(p) /\ writer' = "sync" /\ p # progress
        /\ Risen(p) /\ member /\ UNCHANGED <<log, member, before>>
    BY DEF Adopt, ProgressMoves
  <1>2. stamp' \in Nat /\ stamp' <= clock
    BY <1>1 DEF StampedByRise, ResumeInv, ResumeTypes, DatedInTime
  <1>3. live' \in [Translations -> SUBSET Labels]
    BY <1>1 DEF Risen, ResumeInv, ResumeTypes
  <1>4. ResumeTypes' /\ DatedInTime'
    <2>1. unstamped' \in BOOLEAN
      BY UnstampedMoves DEF Adopt, ResumeInv, ResumeTypes
    <2> QED
      BY <2>1, <1>1, <1>2, <1>3 DEF ResumeInv, ResumeTypes, DatedInTime
  <1>5. CASE p > progress
    <2>1. stamp' = clock'
      BY <1>1, <1>5 DEF StampedByRise
    <2>2. \A tr \in Translations : Offered(tr)' = {}
      BY <1>4, <2>1, StampedOffersNone
    <2>3. ~(progress' < progress)
      BY <1>1, <1>5 DEF ResumeInv, ResumeTypes
    <2> QED
      BY <1>1, <1>4, <2>2, <2>3 DEF ResumeStep, ResumeInv, OfferedLive, FinishStep, CorrectionStep
  <1>6. CASE ~(p > progress)
    <2>1. stamp' = stamp /\ live' = live
      BY <1>1, <1>6 DEF StampedByRise, Risen
    <2>2. unstamped' <=> unstamped
      BY <1>6 DEF Adopt, ProgressMoves
    <2>3. \A tr \in Translations : Offered(tr)' = Offered(tr) /\ LatestResume(tr)' = LatestResume(tr)
      BY <1>1, <2>1 DEF Offered, Since, LatestResume
    <2> QED
      BY <1>1, <1>4, <2>1, <2>2, <2>3 DEF ResumeStep, ResumeInv, OfferedLive, FinishStep, CorrectionStep
  <1> QED
    BY <1>5, <1>6

LEMMA DeleteRowGood ==
    ASSUME ResumeInv, DeleteRow, UNCHANGED clock
    PROVE  ResumeStep
  <1>1. /\ progress' = 0 /\ stamp' = 0 /\ writer' = "delete"
        /\ log' = [tr \in Translations |-> [l \in Labels |-> Absent]] /\ live' = [tr \in Translations |-> {}]
        /\ before' = Episodes + 1 /\ member' = FALSE
    BY DEF DeleteRow, ProgressMoves
  <1>2. before' \in Nat
    BY <1>1, ResumeAssumption
  <1>3. \A tr \in Translations, l \in Labels : log'[tr][l] = Absent
    BY <1>1
  <1>4. ResumeTypes'
    <2>1. unstamped' \in BOOLEAN
      BY UnstampedMoves DEF DeleteRow, ResumeInv, ResumeTypes
    <2>2. Episodes + 1 > Episodes
      BY ResumeAssumption
    <2> QED
      BY <1>1, <1>2, <2>1, <2>2 DEF ResumeInv, ResumeTypes, EpisodeRow
  <1>5. DatedInTime'
    BY <1>1, <1>3 DEF ResumeInv, ResumeTypes, DatedInTime
  <1>6. OfferedLive'
    BY <1>3 DEF OfferedLive, Offered
  <1> QED
    BY <1>1, <1>4, <1>5, <1>6 DEF ResumeStep, ResumeInv, FinishStep, CorrectionStep

LEMMA ImportGood ==
    ASSUME ResumeInv, NEW p \in Nat, NEW tr \in Translations, NEW l \in Labels, NEW class \in Classes,
           ImportLegacy(p, tr, l, class), UNCHANGED clock
    PROVE  ResumeStep
  <1>1. /\ ~member /\ progress = 0 /\ 1 \in Nat /\ 1 <= clock
        /\ progress' = p /\ stamp' = stamp /\ writer' = "import" /\ member' = TRUE /\ UNCHANGED before
        /\ log' = [log EXCEPT ![tr][l] = [class |-> class, at |-> 1]]
    BY DEF ImportLegacy, ProgressMoves, ResumeInv, ResumeTypes
  <1>2. /\ log' \in [Translations -> [Labels -> EpisodeRow]]
        /\ \A s \in Translations, k \in Labels : log'[s][k] # Absent => log'[s][k].at <= clock
        /\ \A s \in Translations, k \in Labels : s # tr \/ k # l => log'[s][k] = log[s][k]
    BY <1>1, RowWritten
  <1>3. live' = [t \in Translations |->
                   IF p > 0 THEN {k \in {l} : t = tr /\ k > p} ELSE live[t] \cup {k \in {l} : t = tr}]
    BY DEF ImportLegacy
  <1>4. live' \in [Translations -> SUBSET Labels]
    BY <1>3 DEF ResumeInv, ResumeTypes
  <1>5. ResumeTypes' /\ DatedInTime'
    <2>1. unstamped' \in BOOLEAN
      BY UnstampedMoves DEF ImportLegacy, ResumeInv, ResumeTypes
    <2> QED
      BY <2>1, <1>1, <1>2, <1>4 DEF ResumeInv, ResumeTypes, DatedInTime
  <1>6. OfferedLive'
    <2>1. CASE p > 0
      BY <1>1, <2>1 DEF ImportLegacy, ProgressMoves, OfferedLive
    <2>2. CASE ~(p > 0)
      <3>1. unstamped' <=> unstamped
        BY <1>1, <2>2 DEF ImportLegacy, ProgressMoves
      <3>2. \A s \in Translations : live[s] \subseteq live'[s] /\ (s = tr => l \in live'[s])
        BY <1>3, <2>2
      <3>3. \A s \in Translations : Offered(s)' \subseteq Offered(s) \cup (IF s = tr THEN {l} ELSE {})
        BY <1>1, <1>2 DEF Offered, Since
      <3> QED
        BY <3>1, <3>2, <3>3 DEF ResumeInv, OfferedLive
    <2> QED
      BY <2>1, <2>2
  <1> QED
    BY <1>1, <1>5, <1>6 DEF ResumeStep, ResumeInv, FinishStep, CorrectionStep

LEMMA ResumeNextGood ==
    ASSUME ResumeInv, [ResumeNext]_resumeVars
    PROVE  ResumeStep
  <1>1. CASE UNCHANGED resumeVars
    BY <1>1 DEF resumeVars, ResumeStep, ResumeInv, ResumeTypes, DatedInTime, OfferedLive, Offered, Since,
                FinishStep, CorrectionStep
  <1>2. CASE ClockTicks
    <2>1. clock' = clock + 1 /\ UNCHANGED <<progress, stamp, log, member, before, live, writer, unstamped>>
      BY <1>2 DEF ClockTicks
    <2>2. clock \in Nat /\ clock' \in Nat /\ clock <= clock'
      BY <2>1 DEF ResumeInv, ResumeTypes
    <2>3. ResumeTypes'
      BY <2>1, <2>2 DEF ResumeInv, ResumeTypes
    <2>4. DatedInTime'
      <3>1. \A tr \in Translations, l \in Labels : log[tr][l] # Absent => log[tr][l].at \in Nat
        BY DEF ResumeInv, ResumeTypes, EpisodeRow
      <3>2. stamp \in Nat /\ stamp <= clock
        BY DEF ResumeInv, ResumeTypes, DatedInTime
      <3> QED
        BY <2>1, <2>2, <3>1, <3>2 DEF ResumeInv, DatedInTime
    <2>5. OfferedLive'
      BY <2>1 DEF ResumeInv, OfferedLive, Offered, Since
    <2>6. progress' = progress /\ progress \in Nat
      BY <2>1 DEF ResumeInv, ResumeTypes
    <2> QED
      BY <2>3, <2>4, <2>5, <2>6 DEF ResumeStep, ResumeInv, FinishStep, CorrectionStep
  <1>3. ASSUME ResumeWrites, UNCHANGED clock
        PROVE  ResumeStep
    <2>1. \A p \in 0 .. Episodes : p \in Nat
      OBVIOUS
    <2>2. ASSUME NEW tr \in Translations, NEW l \in Labels, NEW class \in Classes,
                 Checkpoint(tr, l, class) \/ Finish(tr, l, class)
          PROVE  ResumeStep
      BY <1>3, <2>2, CheckpointGood, FinishGood
    <2>3. ASSUME NEW p \in 0 .. Episodes, StatusKey(p)
          PROVE  ResumeStep
      <3>1. before' \in Nat /\ p \in Nat
        BY <2>3 DEF StatusKey, ResumeInv, ResumeTypes
      <3>2. /\ ProgressMoves(p, Stamped(p), "status") /\ Risen(p) /\ UNCHANGED <<log, member>> /\ member
        BY <2>3 DEF StatusKey
      <3> QED
        BY <1>3, <3>1, <3>2, MovesGood
    <2>4. ASSUME NEW p \in 0 .. Episodes, Adopt(p)
          PROVE  ResumeStep
      BY <1>3, <2>1, <2>4, AdoptGood
    <2>5. CASE Undo
      <3>1. before' \in Nat /\ before \in Nat /\ member
        BY <2>5, ResumeAssumption DEF Undo, ResumeInv, ResumeTypes
      <3>2. /\ ProgressMoves(before, Stamped(before), "undo") /\ Risen(before) /\ UNCHANGED <<log, member>>
        BY <2>5 DEF Undo
      <3> QED
        BY <1>3, <3>1, <3>2, MovesGood
    <2>6. CASE DeleteRow
      BY <1>3, <2>6, DeleteRowGood
    <2>7. ASSUME NEW tr \in Translations, Recompute(tr)
          PROVE  ResumeStep
      <3>1. before' \in Nat /\ HighWater(tr) \in Nat
        BY <2>7, ResumeAssumption, HighWaterType DEF Recompute
      <3>2. /\ ProgressMoves(HighWater(tr), Stamped(HighWater(tr)), "recompute") /\ Risen(HighWater(tr))
            /\ UNCHANGED <<log, member>> /\ member
        BY <2>7 DEF Recompute
      <3> QED
        BY <1>3, <3>1, <3>2, MovesGood
    <2>8. ASSUME NEW p \in 0 .. Episodes, NEW tr \in Translations, NEW l \in Labels, NEW class \in Classes,
                 ImportLegacy(p, tr, l, class)
          PROVE  ResumeStep
      BY <1>3, <2>1, <2>8, ImportGood
    <2> QED
      BY <1>3, <2>2, <2>3, <2>4, <2>5, <2>6, <2>7, <2>8 DEF ResumeWrites
  <1> QED
    BY <1>1, <1>2, <1>3 DEF ResumeNext

\* The mark offered is one the user left, unless an import raised the frontier last; a
\* finished play opens the grid on the next episode; a correction downwards keeps the
\* mark: for any listing, tracks and length of the run (store.rs, progress_stamped_at).
THEOREM ResumesAreHonest == ResumeSpec => ResumeHonest
  <1>1. ResumeInit => ResumeInv
    BY ResumeInitGood
  <1>2. ResumeInv /\ [ResumeNext]_resumeVars => ResumeInv'
    BY ResumeNextGood DEF ResumeStep
  <1>3. ResumeInv => DeadOnlyByImport
    BY DEF ResumeInv, OfferedLive, DeadOnlyByImport, NoDeadResume, LatestResume
  <1>4. ResumeInv /\ [ResumeNext]_resumeVars =>
          [writer' = "finish" /\ progress' > progress =>
             \A tr \in Translations : Cursor(tr)' = {IF progress' = Episodes THEN 1 ELSE progress' + 1}]_resumeVars
    BY ResumeNextGood DEF ResumeStep, FinishStep
  <1>5. ResumeInv /\ [ResumeNext]_resumeVars =>
          [writer' = "sync" /\ progress' < progress =>
             \A tr \in Translations : LatestResume(tr)' = LatestResume(tr)]_resumeVars
    BY ResumeNextGood DEF ResumeStep, CorrectionStep
  <1> QED
    BY <1>1, <1>2, <1>3, <1>4, <1>5, PTL DEF ResumeSpec, ResumeHonest, FinishAdvances, CorrectionKeepsResume

DatedRow == [class : Classes, at : 1 .. clock] \cup {Absent}

\* The frontier and what would restore it stay among the episodes, the clock within the
\* run, and what is dated is dated within it.
RangesKept ==
    /\ clock \in 1 .. MaxClock /\ progress \in 0 .. Episodes /\ stamp \in 0 .. clock
    /\ log \in [Translations -> [Labels -> DatedRow]]
    /\ member \in BOOLEAN /\ before \in 0 .. (Episodes + 1)
    /\ live \in [Translations -> SUBSET Labels]

LEMMA RangesStart == ResumeInit => RangesKept
  <1> SUFFICES ASSUME ResumeInit
               PROVE  RangesKept
    OBVIOUS
  <1>1. Episodes \in Nat \ {0} /\ MaxClock \in Nat \ {0}
    BY ResumeAssumption
  <1>2. log \in [Translations -> [Labels -> DatedRow]]
    BY DEF ResumeInit, DatedRow
  <1>3. clock = 1 /\ progress = 0 /\ stamp = 0 /\ member = FALSE /\ before = Episodes + 1
        /\ live = [tr \in Translations |-> {}]
    BY DEF ResumeInit
  <1>4. clock \in 1 .. MaxClock /\ progress \in 0 .. Episodes /\ stamp \in 0 .. clock
        /\ before \in 0 .. (Episodes + 1)
    BY <1>1, <1>3
  <1>5. live \in [Translations -> SUBSET Labels] /\ member \in BOOLEAN
    BY <1>3
  <1> QED
    BY <1>2, <1>4, <1>5 DEF RangesKept

\* A writer keeps the clock; the rows it leaves are those of before and its own.
LEMMA HighWaterBounded ==
    ASSUME NEW tr \in Translations
    PROVE  HighWater(tr) \in 0 .. Episodes
  <1> DEFINE rows == {l \in Labels : log[tr][l] # Absent}
             watched == {l \in rows : log[tr][l].class = "watched"}
             below == {l \in rows : \E w \in watched : l <= w}
  <1>1. Episodes \in Nat
    BY ResumeAssumption
  <1>2. IsFiniteSet(1 .. Episodes) /\ Cardinality(1 .. Episodes) = Episodes
    BY <1>1, FS_Interval
  <1>3. below \in SUBSET (1 .. Episodes)
    BY DEF Labels
  <1>4. HighWater(tr) = IF watched = {} THEN 0 ELSE Cardinality(below)
    BY Zenon DEF HighWater
  <1> HIDE DEF below, watched
  <1>5. IsFiniteSet(below) /\ Cardinality(below) <= Episodes
    BY <1>2, <1>3, FS_Subset
  <1>6. Cardinality(below) \in Nat
    BY <1>5, FS_CardinalityType
  <1> QED
    BY <1>1, <1>4, <1>5, <1>6

LEMMA RangesStep ==
    ASSUME RangesKept, [ResumeNext]_resumeVars
    PROVE  RangesKept'
  <1>1. Episodes \in Nat \ {0} /\ MaxClock \in Nat \ {0}
    BY ResumeAssumption
  <1>2. /\ clock \in 1 .. MaxClock /\ progress \in 0 .. Episodes /\ stamp \in 0 .. clock
        /\ log \in [Translations -> [Labels -> DatedRow]]
        /\ member \in BOOLEAN /\ before \in 0 .. (Episodes + 1)
        /\ live \in [Translations -> SUBSET Labels]
    BY DEF RangesKept
  <1>3. CASE UNCHANGED resumeVars
    BY <1>3 DEF RangesKept, resumeVars, DatedRow
  <1>4. CASE ClockTicks
    <2>1. clock' = clock + 1 /\ clock < MaxClock /\ UNCHANGED <<progress, stamp, log, member, before, live>>
      BY <1>4 DEF ClockTicks
    <2>2. clock' \in 1 .. MaxClock /\ stamp' \in 0 .. clock'
      BY <1>1, <1>2, <2>1
    <2>3. DatedRow \subseteq DatedRow'
      BY <1>1, <1>2, <2>1 DEF DatedRow
    <2>4. log' \in [Translations -> [Labels -> DatedRow']]
      BY <1>2, <2>1, <2>3
    <2> QED
      BY <1>2, <2>1, <2>2, <2>4 DEF RangesKept
  <1>5. ASSUME UNCHANGED clock, progress' \in 0 .. Episodes, stamp' \in 0 .. clock,
               log' \in [Translations -> [Labels -> DatedRow]], member' \in BOOLEAN, before' \in 0 .. (Episodes + 1),
               live' \in [Translations -> SUBSET Labels]
        PROVE  RangesKept'
    <2>1. DatedRow' = DatedRow
      BY <1>5 DEF DatedRow
    <2> QED
      BY <1>2, <1>5, <2>1 DEF RangesKept
  <1>6. ASSUME NEW p \in 0 .. Episodes
        PROVE  Stamped(p) \in 0 .. clock /\ StampedByRise(p) \in 0 .. clock
    BY <1>1, <1>2 DEF Stamped, StampedByRise
  <1>7. ASSUME NEW tr \in Translations, NEW l \in Labels, NEW class \in Classes, Wrote(tr, l, class)
        PROVE  log' \in [Translations -> [Labels -> DatedRow]]
    <2> DEFINE r == [class |-> class, at |-> clock]
    <2>1. r \in DatedRow
      BY <1>1, <1>2 DEF DatedRow
    <2>2. log' = [log EXCEPT ![tr][l] = r]
      BY <1>7 DEF Wrote
    <2> HIDE DEF r
    <2> QED
      BY <1>2, <2>1, <2>2
  <1>8. [tr \in Translations |-> {}] \in [Translations -> SUBSET Labels]
        /\ [tr \in Translations |-> [l \in Labels |-> Absent]] \in [Translations -> [Labels -> DatedRow]]
    BY DEF DatedRow
  <1>9. ASSUME NEW tr \in Translations, NEW l \in Labels
        PROVE  [live EXCEPT ![tr] = @ \cup {l}] \in [Translations -> SUBSET Labels]
    BY <1>2
  <1>10. ASSUME NEW p \in 0 .. Episodes, Risen(p)
         PROVE  live' \in [Translations -> SUBSET Labels]
    BY <1>2, <1>8, <1>10 DEF Risen
  <1>11. ASSUME UNCHANGED clock, NEW tr \in Translations, NEW l \in Labels, NEW class \in Classes, Checkpoint(tr, l, class)
         PROVE  RangesKept'
    <2>1. /\ UNCHANGED <<progress, stamp, before>> /\ member' = TRUE /\ Wrote(tr, l, class)
          /\ live' = [live EXCEPT ![tr] = @ \cup {l}]
      BY <1>11 DEF Checkpoint
    <2> QED
      BY <1>2, <1>5, <1>7, <1>9, <1>11, <2>1
  <1>12. ASSUME UNCHANGED clock, NEW tr \in Translations, NEW l \in Labels, NEW class \in Classes, Finish(tr, l, class)
         PROVE  RangesKept'
    <2> DEFINE p == IF NaturalEnd(class) THEN Ratchet(l) ELSE progress
    <2>1. p \in 0 .. Episodes
      BY <1>1, <1>2 DEF Ratchet, Labels
    <2>2. /\ Wrote(tr, l, class) /\ progress' = p /\ stamp' = Stamped(p) /\ member' = TRUE /\ UNCHANGED before
          /\ live' = IF p > progress THEN [t \in Translations |-> {}]
                     ELSE [live EXCEPT ![tr] = @ \cup {l}]
      BY <1>12, Zenon DEF Finish, ProgressMoves
    <2> HIDE DEF p
    <2>3. stamp' \in 0 .. clock /\ live' \in [Translations -> SUBSET Labels]
      BY <1>6, <1>8, <1>9, <2>1, <2>2
    <2> QED
      BY <1>2, <1>5, <1>7, <1>12, <2>1, <2>2, <2>3
  <1>13. ASSUME UNCHANGED clock, NEW p \in 0 .. Episodes, StatusKey(p) \/ Adopt(p)
         PROVE  RangesKept'
    <2>1. /\ progress' = p /\ stamp' \in {Stamped(p), StampedByRise(p)} /\ Risen(p)
          /\ before' \in {before, progress} /\ UNCHANGED <<log, member>>
      BY <1>13 DEF StatusKey, Adopt, ProgressMoves
    <2>2. stamp' \in 0 .. clock /\ before' \in 0 .. (Episodes + 1)
      BY <1>1, <1>2, <1>6, <2>1
    <2> QED
      BY <1>2, <1>5, <1>10, <1>13, <2>1, <2>2
  <1>14. ASSUME UNCHANGED clock, Undo
         PROVE  RangesKept'
    <2>1. before \in 0 .. Episodes
      BY <1>1, <1>2, <1>14 DEF Undo
    <2>2. progress' = before /\ stamp' = Stamped(before) /\ Risen(before) /\ before' = Episodes + 1 /\ UNCHANGED <<log, member>>
      BY <1>14 DEF Undo, ProgressMoves
    <2>3. before' \in 0 .. (Episodes + 1)
      BY <1>1, <2>2
    <2> QED
      BY <1>2, <1>5, <1>6, <1>10, <1>14, <2>1, <2>2, <2>3
  <1>15. ASSUME UNCHANGED clock, DeleteRow
         PROVE  RangesKept'
    <2>1. /\ progress' = 0 /\ stamp' = 0 /\ member' = FALSE /\ before' = Episodes + 1
          /\ log' = [tr \in Translations |-> [l \in Labels |-> Absent]]
          /\ live' = [tr \in Translations |-> {}]
      BY <1>15 DEF DeleteRow, ProgressMoves
    <2>2. 0 \in 0 .. Episodes /\ 0 \in 0 .. clock /\ Episodes + 1 \in 0 .. (Episodes + 1)
      BY <1>1, <1>2
    <2> QED
      BY <1>5, <1>8, <1>15, <2>1, <2>2
  <1>16. ASSUME UNCHANGED clock, NEW tr \in Translations, Recompute(tr)
         PROVE  RangesKept'
    <2> DEFINE p == HighWater(tr)
    <2>1. p \in 0 .. Episodes
      BY HighWaterBounded
    <2>2. progress' = p /\ stamp' = Stamped(p) /\ Risen(p) /\ before' = Episodes + 1 /\ UNCHANGED <<log, member>>
      BY <1>16 DEF Recompute, ProgressMoves
    <2> HIDE DEF p
    <2>3. before' \in 0 .. (Episodes + 1)
      BY <1>1, <2>2
    <2> QED
      BY <1>2, <1>5, <1>6, <1>10, <1>16, <2>1, <2>2, <2>3
  <1>17. ASSUME UNCHANGED clock, NEW p \in 0 .. Episodes, NEW tr \in Translations, NEW l \in Labels, NEW class \in Classes,
                ImportLegacy(p, tr, l, class)
         PROVE  RangesKept'
    <2> DEFINE r == [class |-> class, at |-> 1]
    <2>1. /\ log' = [log EXCEPT ![tr][l] = r] /\ progress' = p /\ stamp' = stamp /\ member' = TRUE /\ UNCHANGED before
          /\ live' = [t \in Translations |->
                   IF p > 0 THEN {k \in {l} : t = tr /\ k > p} ELSE live[t] \cup {k \in {l} : t = tr}]
      BY <1>17 DEF ImportLegacy, ProgressMoves
    <2>2. r \in DatedRow
      BY <1>1, <1>2 DEF DatedRow
    <2> HIDE DEF r
    <2>3. log' \in [Translations -> [Labels -> DatedRow]]
      BY <1>2, <2>1, <2>2
    <2>4. live' \in [Translations -> SUBSET Labels]
      BY <1>2, <2>1
    <2> QED
      BY <1>2, <1>5, <1>17, <2>1, <2>3, <2>4
  <1> QED
    BY <1>3, <1>4, <1>11, <1>12, <1>13, <1>14, <1>15, <1>16, <1>17 DEF ResumeNext, ResumeWrites

LEMMA ResumeTyped == RangesKept => ResumeTypeOK
  <1>1. RangesKept => before \in Undoable
    BY ResumeAssumption DEF RangesKept, Undoable
  <1> QED
    BY <1>1 DEF RangesKept, ResumeTypeOK, DatedRow

\* The rows of a show and its frontier stay in their types.
LEMMA ResumesTyped == ResumeSpec => []ResumeTypeOK
  <1> QED
    BY RangesStart, RangesStep, ResumeTyped, PTL DEF ResumeSpec

-----------------------------------------------------------------------------
(***************************************************************************)
(* The Discover grid.                                                      *)
(***************************************************************************)
Slot == [page : Nat, rows : Seq(Axes \X Nat), failed : BOOLEAN, exhausted : BOOLEAN, cursor : Nat, top : Nat]

FeedTypes ==
    /\ axis \in Axes /\ loading \subseteq Axes
    /\ feed \in [Axes -> Slot]
    /\ feedAsked \subseteq Axes \X Nat \X Nat

\* The cards of a slot are its own, and one that is not exhausted has room for a page.
SlotOk(a, s) ==
    /\ Len(s.rows) = PageSize * s.page
    /\ \A k \in DOMAIN s.rows : s.rows[k] = <<a, k>>
    /\ s.page <= FeedPages[a] /\ Len(s.rows) < MaxFeedRows + PageSize
    /\ s.cursor < Len(s.rows) \/ (s.rows = <<>> /\ s.cursor = 0)
    /\ ~s.exhausted => s.page < FeedPages[a] /\ Len(s.rows) < MaxFeedRows

Asked(a) == {r \in feedAsked : r[1] = a}

\* What is asked is the next page of a slot that waits for it.
AskedOk ==
    /\ \A a \in Axes : IF a \in loading THEN \E r \in feedAsked : Asked(a) = {r} ELSE Asked(a) = {}
    /\ \A r \in feedAsked : r[2] = feed[r[1]].page + 1 /\ ~feed[r[1]].exhausted

FeedInv == FeedTypes /\ (\A a \in Axes : SlotOk(a, feed[a])) /\ AskedOk

CoverInv ==
    /\ cover \in [Urls -> {"absent", "idle", "loading", "ready", "failed"}]
    /\ fetching \subseteq Urls /\ arriving \subseteq Urls
    /\ IsFiniteSet(fetching) /\ Cardinality(fetching) <= CoverCap
    /\ CoverSingleFlight

GridInv == FeedInv /\ CoverInv

\* A slot, its fields given one by one.
Made(p, rs, f, e, c, top) == [page |-> p, rows |-> rs, failed |-> f, exhausted |-> e, cursor |-> c, top |-> top]
WithCursor(s, n) == [s EXCEPT !.cursor = n]
WithTop(s, n) == [s EXCEPT !.top = n]
WithPage(s, rs, p, f, e) == [s EXCEPT !.rows = rs, !.page = p, !.failed = f, !.exhausted = e]

ScreenStep == \A u \in ToSet(Window) : cover[u] = "ready" => cover'[u] = "ready"

LEMMA SlotMade ==
    ASSUME NEW p \in Nat, NEW rs \in Seq(Axes \X Nat), NEW f, NEW e, f \in BOOLEAN, e \in BOOLEAN, NEW c \in Nat, NEW top \in Nat
    PROVE  Made(p, rs, f, e, c, top) \in Slot
  BY DEF Made, Slot

LEMMA MadeFields ==
    ASSUME NEW p, NEW rs, NEW f, NEW e, NEW c, NEW top
    PROVE  /\ Made(p, rs, f, e, c, top).page = p /\ Made(p, rs, f, e, c, top).rows = rs
           /\ Made(p, rs, f, e, c, top).exhausted = e /\ Made(p, rs, f, e, c, top).cursor = c
           /\ Made(p, rs, f, e, c, top).top = top
  BY DEF Made

LEMMA SlotWhole ==
    ASSUME NEW s \in Slot
    PROVE  s = Made(s.page, s.rows, s.failed, s.exhausted, s.cursor, s.top)
  BY DEF Made, Slot

LEMMA SlotFields ==
    ASSUME NEW s \in Slot
    PROVE  /\ s.page \in Nat /\ s.rows \in Seq(Axes \X Nat) /\ s.failed \in BOOLEAN
           /\ s.exhausted \in BOOLEAN /\ s.cursor \in Nat /\ s.top \in Nat
  BY DEF Slot

LEMMA CursorMade ==
    ASSUME NEW p, NEW rs, NEW f, NEW e, NEW c, NEW top, NEW x
    PROVE  WithCursor(Made(p, rs, f, e, c, top), x) = Made(p, rs, f, e, x, top)
  BY DEF Made, WithCursor

LEMMA TopMade ==
    ASSUME NEW p, NEW rs, NEW f, NEW e, NEW c, NEW top, NEW x
    PROVE  WithTop(Made(p, rs, f, e, c, top), x) = Made(p, rs, f, e, c, x)
  BY DEF Made, WithTop

LEMMA PageMade ==
    ASSUME NEW p, NEW rs, NEW f, NEW e, NEW c, NEW top, NEW x, NEW y, NEW z, NEW w
    PROVE  WithPage(Made(p, rs, f, e, c, top), x, y, z, w) = Made(y, x, z, w, c, top)
  <1> DEFINE s == Made(p, rs, f, e, c, top)
  <1>1. WithPage(s, x, y, z, w) = [[[[s EXCEPT !.rows = x] EXCEPT !.page = y] EXCEPT !.failed = z] EXCEPT !.exhausted = w]
    BY DEF WithPage
  <1>2. [s EXCEPT !.rows = x] = Made(p, x, f, e, c, top)
    BY DEF Made
  <1>3. [Made(p, x, f, e, c, top) EXCEPT !.page = y] = Made(y, x, f, e, c, top)
    BY DEF Made
  <1>4. [Made(y, x, f, e, c, top) EXCEPT !.failed = z] = Made(y, x, z, e, c, top)
    BY DEF Made
  <1>5. [Made(y, x, z, e, c, top) EXCEPT !.exhausted = w] = Made(y, x, z, w, c, top)
    BY DEF Made
  <1> QED
    BY <1>1, <1>2, <1>3, <1>4, <1>5

LEMMA GridInitGood ==
    ASSUME DiscoverInit
    PROVE  GridInv
  <1>1. PageSize \in Nat /\ MaxFeedRows \in Nat \ {0} /\ CoverCap \in Nat /\ \A a \in Axes : FeedPages[a] \in Nat \ {0}
    BY DiscoverAssumption
  <1>2. EmptySlot \in Slot
    BY DEF EmptySlot, Slot
  <1>3. \A a \in Axes : feed[a] = EmptySlot
    BY DEF DiscoverInit
  <1>4. FeedTypes
    BY <1>2 DEF DiscoverInit, FeedTypes
  <1>5. \A a \in Axes : SlotOk(a, EmptySlot)
    BY <1>1 DEF SlotOk, EmptySlot
  <1>6. AskedOk
    BY DEF DiscoverInit, AskedOk, Asked
  <1>7. CoverInv
    BY <1>1, FS_EmptySet DEF DiscoverInit, CoverInv, CoverSingleFlight
  <1> QED
    BY <1>3, <1>4, <1>5, <1>6, <1>7 DEF GridInv, FeedInv

\* The card-row of the cursor, and a cursor moved within what there is.
LEMMA PicksMove ==
    ASSUME NEW c \in Nat, NEW len \in Nat, c < len
    PROVE  LET start == (c \div Cols) * Cols
               width == IF len - start < Cols THEN len - start ELSE Cols
           IN  \A dx \in {-1, 0, 1} :
                  LET n == start + ((c - start + dx) % width) IN n \in Nat /\ n < len
  <1> DEFINE start == (c \div Cols) * Cols
             width == IF len - start < Cols THEN len - start ELSE Cols
  <1>1. Cols \in Nat \ {0}
    BY DiscoverAssumption
  <1>2. c \div Cols \in Nat
    BY <1>1
  <1>3. start \in Nat
    BY <1>1, <1>2
  <1>4. start <= c
    BY <1>1
  <1> HIDE DEF start
  <1>5. width \in Nat \ {0} /\ width <= len - start
    BY <1>1, <1>3, <1>4
  <1> HIDE DEF width
  <1>6. ASSUME NEW dx \in {-1, 0, 1}
        PROVE  (c - start + dx) % width \in 0 .. (width - 1)
    BY <1>3, <1>5
  <1>7. ASSUME NEW dx \in {-1, 0, 1}
        PROVE  LET n == start + ((c - start + dx) % width) IN n \in Nat /\ n < len
    BY <1>3, <1>5, <1>6
  <1> QED
    BY <1>7 DEF start, width

\* The slot with a cursor of its own keeps its cards.
LEMMA ClampedSlot ==
    ASSUME NEW a \in Axes, NEW s \in Slot, SlotOk(a, s), NEW n \in Nat, n < Len(s.rows)
    PROVE  LET t == ClampTop(WithCursor(s, n)) IN
           /\ t \in Slot /\ SlotOk(a, t)
           /\ t.page = s.page /\ t.exhausted = s.exhausted
  <1> DEFINE t == WithCursor(s, n)
             line == t.cursor \div Cols
             top == IF t.top > line THEN line ELSE t.top
             up == IF line >= top + Rows THEN line + 1 - Rows ELSE top
             moved(x) == Made(s.page, s.rows, s.failed, s.exhausted, n, x)
  <1>1. t = moved(s.top)
    BY SlotWhole, CursorMade
  <1>2. Cols \in Nat \ {0} /\ Rows \in Nat \ {0}
    BY DiscoverAssumption
  <1>3. t.cursor = n /\ t.top = s.top /\ s.top \in Nat
    BY <1>1, SlotFields, MadeFields
  <1>4. line \in Nat
    BY <1>2, <1>3
  <1>5. ClampTop(t) = WithTop(t, up)
    BY DEF ClampTop, WithTop
  <1> HIDE DEF t, line
  <1>6. up \in Nat
    BY <1>2, <1>3, <1>4
  <1> HIDE DEF up
  <1>7. ClampTop(t) = moved(up)
    BY <1>1, <1>5, TopMade
  <1>8. moved(up) \in Slot
    BY <1>6, SlotFields, SlotMade
  <1>10. moved(up).rows = s.rows /\ moved(up).page = s.page /\ moved(up).cursor = n
    BY MadeFields
  <1>11. moved(up).exhausted = s.exhausted
    BY MadeFields
  <1> HIDE DEF moved
  <1>9. SlotOk(a, moved(up))
    BY <1>10, <1>11 DEF SlotOk
  <1> QED
    BY <1>7, <1>8, <1>9, <1>10, <1>11 DEF t

\* One slot is replaced by another that is no less in order.
LEMMA SlotGood ==
    ASSUME FeedInv, NEW a \in Axes, NEW s \in Slot, SlotOk(a, s), feed' = [feed EXCEPT ![a] = s],
           s.page = feed[a].page, s.exhausted = feed[a].exhausted, UNCHANGED <<loading, feedAsked>>, axis' \in Axes
    PROVE  FeedInv'
  <1>1. FeedTypes'
    BY DEF FeedInv, FeedTypes
  <1>2. \A b \in Axes : feed'[b] = IF b = a THEN s ELSE feed[b]
    BY DEF FeedInv, FeedTypes
  <1>3. \A b \in Axes : SlotOk(b, feed'[b])
    BY <1>2 DEF FeedInv
  <1>4. \A r \in feedAsked : r[1] \in Axes
    BY DEF FeedInv, FeedTypes
  <1>5. \A b \in Axes : feed'[b].page = feed[b].page /\ feed'[b].exhausted = feed[b].exhausted
    BY <1>2
  <1>6. AskedOk'
    BY <1>4, <1>5 DEF FeedInv, AskedOk, Asked
  <1> QED
    BY <1>1, <1>3, <1>6 DEF FeedInv

LEMMA CursorGood ==
    ASSUME FeedInv, \/ \E a \in Axes : SelectAxis(a)
                    \/ \E d \in {-1, 1} : Nav(d, 0) \/ Nav(0, d)
    PROVE  FeedInv'
  <1>1. ASSUME NEW a \in Axes, SelectAxis(a)
        PROVE  FeedInv'
    <2> DEFINE s == [feed[a] EXCEPT !.failed = FALSE]
    <2>1. feed[a] \in Slot /\ SlotOk(a, feed[a])
      BY DEF FeedInv, FeedTypes
    <2>2. s \in Slot /\ s.rows = feed[a].rows /\ s.page = feed[a].page /\ s.exhausted = feed[a].exhausted /\ s.cursor = feed[a].cursor
      BY <2>1 DEF Slot
    <2>3. feed' = [feed EXCEPT ![a] = s] /\ UNCHANGED <<loading, feedAsked>> /\ axis' = a
      BY <1>1 DEF SelectAxis
    <2> HIDE DEF s
    <2>4. SlotOk(a, s)
      BY <2>1, <2>2 DEF SlotOk
    <2> QED
      BY <2>2, <2>3, <2>4, SlotGood
  <1>2. ASSUME NEW dx \in {-1, 0, 1}, NEW dy \in {-1, 0, 1}, Nav(dx, dy)
        PROVE  FeedInv'
    <2> DEFINE s == feed[axis]
               len == Len(s.rows)
               start == (s.cursor \div Cols) * Cols
               width == IF len - start < Cols THEN len - start ELSE Cols
               n == IF dx # 0 THEN start + ((s.cursor - start + dx) % width) ELSE GridClamp(s.cursor + dy * Cols, len)
    <2>1. axis \in Axes /\ s \in Slot /\ SlotOk(axis, s)
      BY DEF FeedInv, FeedTypes
    <2>2. len \in Nat /\ len > 0 /\ s.cursor \in Nat /\ s.cursor < len
      BY <1>2, <2>1 DEF Nav, SlotOk, Slot
    <2>3. feed' = [feed EXCEPT ![axis] = ClampTop(WithCursor(s, n))] /\ UNCHANGED <<axis, loading, feedAsked>>
      BY <1>2 DEF Nav, WithCursor
    <2>4. n \in Nat /\ n < len
      <3>1. CASE dx # 0
        BY <2>2, <3>1, PicksMove
      <3>2. CASE dx = 0
        <4>1. s.cursor + dy * Cols \in Int
          BY <2>2, DiscoverAssumption
        <4> HIDE DEF len, s
        <4> QED
          BY <2>2, <3>2, <4>1 DEF GridClamp
      <3> QED
        BY <3>1, <3>2
    <2>5. /\ ClampTop(WithCursor(s, n)) \in Slot /\ SlotOk(axis, ClampTop(WithCursor(s, n)))
          /\ ClampTop(WithCursor(s, n)).page = s.page
          /\ ClampTop(WithCursor(s, n)).exhausted = s.exhausted
      <3> HIDE DEF n, s
      <3> QED
        BY <2>1, <2>4, ClampedSlot
    <2> HIDE DEF n
    <2> QED
      BY <2>1, <2>3, <2>5, SlotGood
  <1> QED
    BY <1>1, <1>2

LEMMA FireFetchGood ==
    ASSUME FeedInv, FireFetch
    PROVE  FeedInv'
  <1> DEFINE p == IF feed[axis].rows = <<>> THEN 1 ELSE feed[axis].page + 1
             n == 1 + Cardinality({r \in feedAsked : r[1] = axis /\ r[2] = p})
             new == <<axis, p, n>>
  <1>1. /\ axis \in Axes /\ axis \notin loading /\ ~feed[axis].exhausted
        /\ feed[axis] \in Slot /\ SlotOk(axis, feed[axis]) /\ Asked(axis) = {}
    BY DEF FireFetch, Wanted, Holds, FeedInv, FeedTypes, AskedOk
  <1>2. loading' = loading \cup {axis} /\ feedAsked' = feedAsked \cup {new} /\ UNCHANGED <<axis, feed>>
    BY DEF FireFetch
  <1>3. p = feed[axis].page + 1 /\ p \in Nat
    <2>1. PageSize \in Nat \ {0}
      BY DiscoverAssumption
    <2>2. feed[axis].rows = <<>> => feed[axis].page = 0
      BY <1>1, <2>1 DEF SlotOk, Slot
    <2> QED
      BY <1>1, <2>2 DEF Slot
  <1>4. {r \in feedAsked : r[1] = axis /\ r[2] = p} = {}
    BY <1>1 DEF Asked
  <1>5. n = 1
    BY <1>4, FS_EmptySet
  <1> HIDE DEF p, n
  <1>6. new \in Axes \X Nat \X Nat /\ new[1] = axis /\ new[2] = p
    BY <1>1, <1>3, <1>5
  <1> HIDE DEF new
  <1>7. FeedTypes'
    BY <1>1, <1>2, <1>6 DEF FeedInv, FeedTypes
  <1>8. AskedOk'
    <2>1. \A a \in Axes : Asked(a)' = IF a = axis THEN {new} ELSE Asked(a)
      BY <1>1, <1>2, <1>6 DEF Asked
    <2>2. \A a \in Axes : IF a \in loading' THEN \E r \in feedAsked' : Asked(a)' = {r} ELSE Asked(a)' = {}
      BY <1>1, <1>2, <2>1 DEF FeedInv, AskedOk
    <2>3. \A r \in feedAsked' : r[2] = feed'[r[1]].page + 1 /\ ~feed'[r[1]].exhausted
      BY <1>1, <1>2, <1>3, <1>6 DEF FeedInv, AskedOk
    <2> QED
      BY <2>2, <2>3 DEF AskedOk
  <1> QED
    BY <1>2, <1>7, <1>8 DEF FeedInv

\* The answer of a slot's one request is gone, whatever becomes of its slot.
LEMMA AnswerGood ==
    ASSUME FeedInv, NEW r \in feedAsked, NEW s \in Slot, SlotOk(r[1], s), feed' = [feed EXCEPT ![r[1]] = s],
           feedAsked' = feedAsked \ {r}, loading' = loading \ {r[1]}, UNCHANGED axis
    PROVE  FeedInv'
  <1>1. r[1] \in Axes
    BY DEF FeedInv, FeedTypes
  <1>2. FeedTypes'
    BY <1>1 DEF FeedInv, FeedTypes
  <1>3. \A b \in Axes : feed'[b] = IF b = r[1] THEN s ELSE feed[b]
    BY DEF FeedInv, FeedTypes
  <1>4. \A b \in Axes : SlotOk(b, feed'[b])
    BY <1>3 DEF FeedInv
  <1>5. r \in Asked(r[1]) /\ Asked(r[1]) = {r}
    <2>1. r \in Asked(r[1])
      BY DEF Asked
    <2> QED
      BY <1>1, <2>1 DEF FeedInv, AskedOk
  <1>6. \A b \in Axes : Asked(b)' = IF b = r[1] THEN {} ELSE Asked(b)
    BY <1>1, <1>5 DEF Asked
  <1>7. \A b \in Axes : IF b \in loading' THEN \E q \in feedAsked' : Asked(b)' = {q} ELSE Asked(b)' = {}
    <2>1. ASSUME NEW b \in Axes, b \in loading'
          PROVE  \E q \in feedAsked' : Asked(b)' = {q}
      <3>1. b \in loading /\ b # r[1]
        BY <2>1
      <3>2. PICK q \in feedAsked : Asked(b) = {q}
        BY <3>1 DEF FeedInv, AskedOk
      <3>3. q[1] = b /\ q # r
        BY <3>1, <3>2 DEF Asked
      <3> QED
        BY <1>6, <3>1, <3>2, <3>3
    <2>2. ASSUME NEW b \in Axes, b \notin loading'
          PROVE  Asked(b)' = {}
      BY <1>6, <2>2 DEF FeedInv, AskedOk
    <2> QED
      BY <2>1, <2>2
  <1>8. \A q \in feedAsked' : q[2] = feed'[q[1]].page + 1 /\ ~feed'[q[1]].exhausted
    <2> SUFFICES ASSUME NEW q \in feedAsked'
                 PROVE  q[2] = feed'[q[1]].page + 1 /\ ~feed'[q[1]].exhausted
      OBVIOUS
    <2>1. q \in feedAsked /\ q # r /\ q[1] \in Axes
      BY DEF FeedInv, FeedTypes
    <2>2. q[1] # r[1]
      BY <1>5, <2>1 DEF Asked
    <2>3. feed'[q[1]] = feed[q[1]]
      BY <1>3, <2>1, <2>2
    <2> QED
      BY <2>1, <2>3 DEF FeedInv, AskedOk
  <1> QED
    BY <1>2, <1>4, <1>7, <1>8 DEF FeedInv, AskedOk

\* A page that follows what is there.
LEMMA GrownRows ==
    ASSUME NEW a \in Axes, NEW old \in Seq(Axes \X Nat), \A k \in DOMAIN old : old[k] = <<a, k>>,
           NEW p \in Nat, PageSize * (p - 1) = Len(old)
    PROVE  LET rows == old \o PageCards(a, p) IN
           /\ rows \in Seq(Axes \X Nat) /\ Len(rows) = Len(old) + PageSize
           /\ \A k \in DOMAIN rows : rows[k] = <<a, k>>
  <1> DEFINE page == PageCards(a, p)
             rows == old \o page
  <1>1. PageSize \in Nat
    BY DiscoverAssumption
  <1>2. page = [k \in 1 .. PageSize |-> <<a, Len(old) + k>>]
    BY DEF PageCards
  <1>3. \A k \in 1 .. PageSize : <<a, Len(old) + k>> \in Axes \X Nat
    BY <1>1
  <1> HIDE DEF page
  <1>4. page \in Seq(Axes \X Nat) /\ Len(page) = PageSize /\ \A k \in 1 .. PageSize : page[k] = <<a, Len(old) + k>>
    BY <1>1, <1>2, <1>3, SeqDef
  <1>5. rows \in Seq(Axes \X Nat) /\ Len(rows) = Len(old) + PageSize
    BY <1>4
  <1>6. \A k \in 1 .. Len(old) + PageSize : rows[k] = IF k <= Len(old) THEN old[k] ELSE page[k - Len(old)]
    BY <1>4
  <1> HIDE DEF rows
  <1>7. ASSUME NEW k \in 1 .. Len(old) + PageSize
        PROVE  rows[k] = <<a, k>>
    <2>1. CASE k <= Len(old)
      <3>1. k \in DOMAIN old
        BY <2>1
      <3> QED
        BY <1>6, <2>1, <3>1
    <2>2. CASE k > Len(old)
      <3>1. k - Len(old) \in 1 .. PageSize /\ Len(old) + (k - Len(old)) = k
        BY <1>1, <2>2
      <3>2. page[k - Len(old)] = <<a, k>>
        BY <1>4, <3>1
      <3> QED
        BY <1>6, <2>2, <3>2
    <2> QED
      BY <2>1, <2>2
  <1>8. DOMAIN rows = 1 .. Len(rows)
    BY <1>5
  <1>9. \A k \in DOMAIN rows : rows[k] = <<a, k>>
    BY <1>5, <1>7, <1>8
  <1> QED
    BY <1>5, <1>9 DEF rows, page

LEMMA GrownSlot ==
    ASSUME NEW a \in Axes, NEW s \in Slot, SlotOk(a, s), ~s.exhausted, NEW p \in Nat, p = s.page + 1
    PROVE  LET rows == s.rows \o PageCards(a, p)
               t == WithPage(s, rows, p, FALSE, Full(a, p, rows))
           IN  t \in Slot /\ SlotOk(a, t)
  <1> DEFINE rows == s.rows \o PageCards(a, p)
             full == Full(a, p, rows)
             no == FALSE
             t == Made(p, rows, no, full, s.cursor, s.top)
  <1>1. PageSize \in Nat \ {0} /\ MaxFeedRows \in Nat /\ FeedPages[a] \in Nat
    BY DiscoverAssumption
  <1>2. s.page \in Nat /\ s.rows \in Seq(Axes \X Nat) /\ s.cursor \in Nat /\ s.top \in Nat
    BY SlotFields
  <1>3. /\ Len(s.rows) = PageSize * s.page /\ \A k \in DOMAIN s.rows : s.rows[k] = <<a, k>>
        /\ s.cursor < Len(s.rows) \/ s.cursor = 0
        /\ s.page < FeedPages[a] /\ Len(s.rows) < MaxFeedRows
    BY DEF SlotOk
  <1>4. PageSize * p = Len(s.rows) + PageSize /\ PageSize * (p - 1) = Len(s.rows)
    <2>1. PageSize * (s.page + 1) = PageSize * s.page + PageSize
      BY <1>1, <1>2
    <2>2. p - 1 = s.page
      BY <1>2
    <2> QED
      BY <1>3, <2>1, <2>2
  <1>5. rows \in Seq(Axes \X Nat) /\ Len(rows) = Len(s.rows) + PageSize /\ \A k \in DOMAIN rows : rows[k] = <<a, k>>
    BY <1>2, <1>3, <1>4, GrownRows
  <1> HIDE DEF rows
  <1>6. Len(s.rows) \in Nat /\ Len(rows) \in Nat
    BY <1>2, <1>5
  <1>7. full <=> (p >= FeedPages[a] \/ Len(rows) >= MaxFeedRows)
    BY DEF Full
  <1>8. full \in BOOLEAN
    BY DEF Full
  <1>17. no \in BOOLEAN
    OBVIOUS
  <1> HIDE DEF full, no
  <1>9. t \in Slot
    BY <1>2, <1>5, <1>8, <1>17, SlotMade
  <1>10. t.page = p /\ t.rows = rows /\ t.cursor = s.cursor
    BY MadeFields
  <1>11. t.exhausted = full
    BY MadeFields
  <1>12. WithPage(s, rows, p, no, full) = t
    BY SlotWhole, PageMade
  <1> HIDE DEF t
  <1> DEFINE old == Len(s.rows)
             new == Len(rows)
             size == PageSize * p
  <1>18. old \in Nat /\ new = old + PageSize /\ size = old + PageSize
    BY <1>4, <1>5, <1>6
  <1>19. s.cursor < old \/ s.cursor = 0
    BY <1>3
  <1>20. s.page < FeedPages[a] /\ old < MaxFeedRows
    BY <1>3
  <1> HIDE DEF old, new, size
  <1>13. Len(rows) = PageSize * p /\ s.cursor < Len(rows)
    <2>1. new = size /\ s.cursor < new
      BY <1>1, <1>2, <1>18, <1>19
    <2> QED
      BY <2>1 DEF new, size
  <1>14. p <= FeedPages[a] /\ Len(rows) < MaxFeedRows + PageSize
    <2>1. new < MaxFeedRows + PageSize /\ p <= FeedPages[a]
      BY <1>1, <1>2, <1>18, <1>20
    <2> QED
      BY <2>1 DEF new
  <1>15. ~full => p < FeedPages[a] /\ Len(rows) < MaxFeedRows
    BY <1>1, <1>6, <1>7
  <1>16. SlotOk(a, t)
    BY <1>5, <1>10, <1>11, <1>13, <1>14, <1>15 DEF SlotOk
  <1> QED
    BY <1>9, <1>12, <1>16 DEF full, rows, no

LEMMA FeedDoneGood ==
    ASSUME FeedInv, NEW r \in feedAsked, FeedDone(r)
    PROVE  FeedInv'
  <1> DEFINE a == r[1]
             s == feed[a]
             rows == s.rows \o PageCards(a, r[2])
             t == WithPage(s, rows, r[2], FALSE, Full(a, r[2], rows))
  <1>1. a \in Axes /\ s \in Slot /\ SlotOk(a, s) /\ r[2] = s.page + 1 /\ ~s.exhausted
    BY DEF FeedInv, FeedTypes, AskedOk
  <1>2. feedAsked' = feedAsked \ {r} /\ loading' = loading \ {a} /\ UNCHANGED axis /\ feed' = [feed EXCEPT ![a] = t]
    BY <1>1 DEF FeedDone, FiledOn, WithPage
  <1>3. r[2] \in Nat
    BY <1>1, SlotFields
  <1>4. t \in Slot /\ SlotOk(a, t)
    <2> HIDE DEF s, a
    <2> QED
      BY <1>1, <1>3, GrownSlot
  <1> HIDE DEF t
  <1> QED
    BY <1>2, <1>4, AnswerGood

LEMMA FeedFailsGood ==
    ASSUME FeedInv, NEW r \in feedAsked, FeedFails(r)
    PROVE  FeedInv'
  <1> DEFINE a == r[1]
             s == [feed[a] EXCEPT !.failed = TRUE]
  <1>1. a \in Axes /\ feed[a] \in Slot /\ SlotOk(a, feed[a])
    BY DEF FeedInv, FeedTypes
  <1>2. s \in Slot /\ s.rows = feed[a].rows /\ s.page = feed[a].page /\ s.exhausted = feed[a].exhausted /\ s.cursor = feed[a].cursor
    BY <1>1 DEF Slot
  <1>3. feedAsked' = feedAsked \ {r} /\ loading' = loading \ {a} /\ UNCHANGED axis /\ feed' = [feed EXCEPT ![a] = s]
    BY DEF FeedFails
  <1> HIDE DEF s
  <1>4. SlotOk(a, s)
    BY <1>1, <1>2 DEF SlotOk
  <1> QED
    BY <1>2, <1>3, <1>4, AnswerGood

\* What is on screen is part of the cards there are.
LEMMA WindowGood ==
    ASSUME FeedInv
    PROVE  Window \in Seq(Urls)
  <1> DEFINE s == feed[axis]
             from == s.top * Cols + 1
             end == (s.top + Rows + 1) * Cols
             upto == IF Len(s.rows) < end THEN Len(s.rows) ELSE end
  <1>1. axis \in Axes /\ s \in Slot /\ SlotOk(axis, s)
    BY DEF FeedInv, FeedTypes
  <1>2. PageSize \in Nat \ {0} /\ Cols \in Nat /\ Rows \in Nat /\ FeedPages[axis] \in Nat
    BY <1>1, DiscoverAssumption
  <1>3. s.top \in Nat /\ s.page \in Nat /\ s.rows \in Seq(Axes \X Nat)
    BY <1>1, SlotFields
  <1>4. /\ Len(s.rows) = PageSize * s.page /\ s.page <= FeedPages[axis]
        /\ \A k \in DOMAIN s.rows : s.rows[k] = <<axis, k>>
    BY <1>1 DEF SlotOk
  <1>5. Len(s.rows) <= PageSize * FeedPages[axis] /\ PageSize * FeedPages[axis] \in Nat
    <2>1. PageSize * s.page <= PageSize * FeedPages[axis]
      BY <1>2, <1>3, <1>4
    <2> QED
      BY <1>2, <1>4, <2>1
  <1>6. \A k \in DOMAIN s.rows : s.rows[k] \in Urls
    <2>1. ASSUME NEW k \in DOMAIN s.rows
          PROVE  s.rows[k] \in Urls
      <3>1. k \in 1 .. PageSize * FeedPages[axis]
        BY <1>3, <1>5
      <3>2. <<axis, k>> \in Cards(axis)
        BY <3>1 DEF Cards
      <3> QED
        BY <1>1, <1>4, <3>2 DEF Urls
    <2> QED
      BY <2>1
  <1>7. s.top * Cols \in Nat /\ end \in Nat
    BY <1>2, <1>3
  <1>8. from \in Int /\ upto \in Int /\ 1 <= from /\ upto <= Len(s.rows)
    <2> HIDE DEF end
    <2> QED
      BY <1>3, <1>7
  <1>9. Window = SubSeq(s.rows, from, upto)
    BY DEF Window
  <1>10. DOMAIN s.rows = 1 .. Len(s.rows)
    BY <1>3
  <1> HIDE DEF s, from, upto
  <1>11. \A i \in from .. upto : s.rows[i] \in Urls
    <2>1. Len(s.rows) \in Nat
      BY <1>3
    <2>2. ASSUME NEW i \in from .. upto
          PROVE  i \in 1 .. Len(s.rows)
      BY <1>8, <2>1
    <2> QED
      BY <1>6, <1>10, <2>2
  <1> QED
    BY <1>8, <1>9, <1>11, SubSeqProperties

\* Whoever is served in one go fits in the room there is.
LEMMA ServedFit ==
    ASSUME NEW seq \in Seq(Urls), NEW wants \in SUBSET DOMAIN seq, NEW places \in SUBSET wants, InFront(places, wants),
           NEW busy \in SUBSET {seq[k] : k \in places}, CoverInv
    PROVE  /\ IsFiniteSet(fetching \cup busy) /\ Cardinality(fetching \cup busy) <= CoverCap
           /\ busy \subseteq Urls
  <1> DEFINE chosen == {seq[k] : k \in places}
             f == [k \in places |-> seq[k]]
  <1>1. CoverCap \in Nat /\ IsFiniteSet(fetching) /\ Cardinality(fetching) <= CoverCap
    BY DiscoverAssumption DEF CoverInv
  <1>2. Cardinality(fetching) \in Nat
    BY <1>1, FS_CardinalityType
  <1>3. Len(seq) \in Nat /\ DOMAIN seq = 1 .. Len(seq)
    OBVIOUS
  <1>4. IsFiniteSet(wants) /\ IsFiniteSet(places)
    <2>1. IsFiniteSet(1 .. Len(seq))
      BY <1>3, FS_Interval
    <2>2. IsFiniteSet(wants)
      BY <1>3, <2>1, FS_Subset
    <2> QED
      BY <2>2, FS_Subset
  <1>5. Cardinality(wants) \in Nat /\ Cardinality(places) \in Nat
    BY <1>4, FS_CardinalityType
  <1>6. Cardinality(places) <= CoverCap - Cardinality(fetching)
    BY <1>1, <1>2, <1>5 DEF InFront, Room
  <1>7. f \in Surjection(places, chosen)
    BY DEF Surjection
  <1>8. IsFiniteSet(chosen) /\ Cardinality(chosen) <= Cardinality(places)
    BY <1>4, <1>7, FS_Surjection
  <1>9. IsFiniteSet(busy) /\ Cardinality(busy) <= Cardinality(chosen)
    BY <1>8, FS_Subset
  <1>10. Cardinality(busy) \in Nat /\ Cardinality(chosen) \in Nat
    BY <1>8, <1>9, FS_CardinalityType
  <1>11. /\ IsFiniteSet(fetching \cup busy)
         /\ Cardinality(fetching \cup busy) = Cardinality(fetching) + Cardinality(busy) - Cardinality(fetching \cap busy)
    BY <1>1, <1>9, FS_Union
  <1>12. Cardinality(fetching \cap busy) \in Nat
    <2>1. IsFiniteSet(fetching \cap busy)
      BY <1>1, FS_Subset
    <2> QED
      BY <2>1, FS_CardinalityType
  <1>13. chosen \subseteq Urls
    BY <1>3
  <1> HIDE DEF chosen
  <1>14. busy \subseteq chosen
    BY DEF chosen
  <1> QED
    BY <1>1, <1>2, <1>5, <1>6, <1>8, <1>9, <1>10, <1>11, <1>12, <1>13, <1>14

LEMMA PumpGood ==
    ASSUME FeedInv, CoverInv, Pump
    PROVE  CoverInv' /\ ScreenStep
  <1>1. PICK gone \in SUBSET Pool, cooled \in SUBSET FailedCovers :
           LET wants == {k \in DOMAIN Window : NeedsFetch(Window[k]) \/ Window[k] \in cooled}
           IN \E places \in SUBSET wants :
              LET chosen == {Window[k] : k \in places} IN
              /\ InFront(places, wants)
              /\ Evicts(gone)
              /\ \E refused \in SUBSET chosen :
                  /\ cover' = [u \in Urls |-> IF u \in refused THEN AfterRefusal
                                              ELSE IF u \in chosen THEN "loading"
                                              ELSE IF u \in gone THEN "absent" ELSE cover[u]]
                  /\ fetching' = fetching \cup (chosen \ refused)
    BY DEF Pump
  <1> DEFINE wants == {k \in DOMAIN Window : NeedsFetch(Window[k]) \/ Window[k] \in cooled}
  <1>2. PICK places \in SUBSET wants :
              LET chosen == {Window[k] : k \in places} IN
              /\ InFront(places, wants)
              /\ Evicts(gone)
              /\ \E refused \in SUBSET chosen :
                  /\ cover' = [u \in Urls |-> IF u \in refused THEN AfterRefusal
                                              ELSE IF u \in chosen THEN "loading"
                                              ELSE IF u \in gone THEN "absent" ELSE cover[u]]
                  /\ fetching' = fetching \cup (chosen \ refused)
    BY <1>1
  <1> DEFINE chosen == {Window[k] : k \in places}
  <1>3. PICK refused \in SUBSET chosen :
                  /\ cover' = [u \in Urls |-> IF u \in refused THEN AfterRefusal
                                              ELSE IF u \in chosen THEN "loading"
                                              ELSE IF u \in gone THEN "absent" ELSE cover[u]]
                  /\ fetching' = fetching \cup (chosen \ refused)
    BY <1>2
  <1>4. InFront(places, wants) /\ Evicts(gone) /\ UNCHANGED arriving /\ UNCHANGED feedVars
    BY <1>2 DEF Pump
  <1>5. Window \in Seq(Urls)
    BY WindowGood
  <1>6. IsFiniteSet(fetching') /\ Cardinality(fetching') <= CoverCap /\ fetching' \subseteq Urls
    <2> DEFINE busy == chosen \ refused
    <2>1. busy \in SUBSET {Window[k] : k \in places}
      OBVIOUS
    <2>2. wants \in SUBSET DOMAIN Window
      OBVIOUS
    <2>3. fetching' = fetching \cup busy
      BY <1>3
    <2> HIDE DEF busy, wants
    <2>4. IsFiniteSet(fetching \cup busy) /\ Cardinality(fetching \cup busy) <= CoverCap /\ busy \subseteq Urls
      BY <1>4, <1>5, <2>1, <2>2, ServedFit
    <2> QED
      BY <2>3, <2>4 DEF CoverInv
  <1>7. \A u \in chosen : u \in Urls /\ cover[u] \in {"absent", "idle", "failed"}
    BY <1>5 DEF NeedsFetch, FailedCovers
  <1>8. \A u \in gone : cover[u] # "loading" /\ u \notin ToSet(Window) /\ u \in Urls
    BY <1>4 DEF Evicts, Evictable, Pool
  <1> HIDE DEF chosen, wants
  <1>9. \A u \in Urls : cover'[u] = IF u \in refused THEN "idle" ELSE IF u \in chosen THEN "loading"
                                   ELSE IF u \in gone THEN "absent" ELSE cover[u]
    BY <1>3 DEF AfterRefusal
  <1>10. cover' \in [Urls -> {"absent", "idle", "loading", "ready", "failed"}]
    BY <1>3 DEF AfterRefusal, CoverInv
  <1>11. CoverSingleFlight'
    <2>1. fetching \cap arriving = {} /\ \A u \in Urls : cover[u] = "loading" <=> u \in fetching \cup arriving
      BY DEF CoverInv, CoverSingleFlight
    <2>2. \A u \in chosen : u \notin fetching /\ u \notin arriving
      BY <1>7, <2>1
    <2>3. fetching' \cap arriving' = {}
      BY <1>3, <1>4, <2>1, <2>2
    <2>4. ASSUME NEW u \in Urls
          PROVE  cover'[u] = "loading" <=> u \in fetching' \cup arriving'
      <3>1. CASE u \in refused
        <4>1. u \in chosen
          BY <3>1
        <4> QED
          BY <1>3, <1>4, <1>9, <2>2, <3>1, <4>1
      <3>2. CASE u \notin refused /\ u \in chosen
        BY <1>3, <1>9, <3>2
      <3>3. CASE u \notin refused /\ u \notin chosen
        BY <1>3, <1>4, <1>8, <1>9, <2>1, <3>3
      <3> QED
        BY <3>1, <3>2, <3>3
    <2> QED
      BY <2>3, <2>4 DEF CoverSingleFlight
  <1>12. arriving' \subseteq Urls
    BY <1>4 DEF CoverInv
  <1>13. ScreenStep
    <2> SUFFICES ASSUME NEW u \in ToSet(Window), cover[u] = "ready"
                 PROVE  cover'[u] = "ready"
      BY DEF ScreenStep
    <2>1. u \in Urls
      BY <1>5 DEF ToSet
    <2>2. u \notin gone /\ u \notin chosen /\ u \notin refused
      BY <1>7, <1>8
    <2> QED
      BY <1>9, <2>1, <2>2
  <1> QED
    BY <1>6, <1>10, <1>11, <1>12, <1>13 DEF CoverInv

LEMMA CoverAnswers ==
    ASSUME FeedInv, CoverInv, NEW u \in Urls, CoverPosted(u) \/ CoverLands(u) \/ CoverFails(u)
    PROVE  CoverInv' /\ ScreenStep
  <1>1. /\ cover \in [Urls -> {"absent", "idle", "loading", "ready", "failed"}]
        /\ fetching \subseteq Urls /\ arriving \subseteq Urls /\ fetching \cap arriving = {}
        /\ \A v \in Urls : cover[v] = "loading" <=> v \in fetching \cup arriving
        /\ IsFiniteSet(fetching) /\ Cardinality(fetching) <= CoverCap
    BY DEF CoverInv, CoverSingleFlight
  <1>2. Window \in Seq(Urls)
    BY WindowGood
  <1>3. \A v \in ToSet(Window) : v \in Urls
    BY <1>2 DEF ToSet
  <1>4. ASSUME CoverPosted(u)
        PROVE  CoverInv' /\ ScreenStep
    <2>1. u \in fetching /\ fetching' = fetching \ {u} /\ arriving' = arriving \cup {u} /\ cover' = cover
      BY <1>4 DEF CoverPosted
    <2>2. IsFiniteSet(fetching') /\ Cardinality(fetching') <= CoverCap
      <3>1. IsFiniteSet(fetching \ {u}) /\ Cardinality(fetching \ {u}) = Cardinality(fetching) - 1
        BY <1>1, <2>1, FS_RemoveElement
      <3>2. Cardinality(fetching) \in Nat /\ CoverCap \in Nat
        BY <1>1, FS_CardinalityType, DiscoverAssumption
      <3> QED
        BY <1>1, <2>1, <3>1, <3>2
    <2>3. CoverSingleFlight'
      BY <1>1, <2>1 DEF CoverSingleFlight
    <2> QED
      BY <1>1, <2>1, <2>2, <2>3 DEF CoverInv, ScreenStep
  <1>5. ASSUME CoverLands(u) \/ CoverFails(u)
        PROVE  CoverInv' /\ ScreenStep
    <2>1. PICK got \in {"ready", "failed"} :
            u \in arriving /\ arriving' = arriving \ {u} /\ cover' = [cover EXCEPT ![u] = got] /\ fetching' = fetching
      BY <1>5 DEF CoverLands, CoverFails
    <2>2. cover[u] = "loading"
      BY <1>1, <2>1
    <2>3. \A v \in Urls : cover'[v] = IF v = u THEN got ELSE cover[v]
      BY <1>1, <2>1
    <2>4. CoverSingleFlight'
      BY <1>1, <2>1, <2>3 DEF CoverSingleFlight
    <2>5. cover' \in [Urls -> {"absent", "idle", "loading", "ready", "failed"}]
      BY <1>1, <2>1
    <2>6. ScreenStep
      BY <1>3, <2>2, <2>3 DEF ScreenStep
    <2> QED
      BY <1>1, <2>1, <2>4, <2>5, <2>6 DEF CoverInv
  <1> QED
    BY <1>4, <1>5

LEMMA GridStep ==
    ASSUME GridInv, [DiscoverNext]_discoverVars
    PROVE  GridInv' /\ ScreenStep
  <1>1. FeedInv /\ CoverInv
    BY DEF GridInv
  <1>2. ASSUME UNCHANGED coverVars
        PROVE  CoverInv' /\ ScreenStep
    BY <1>1, <1>2 DEF coverVars, CoverInv, CoverSingleFlight, ScreenStep
  <1>3. ASSUME UNCHANGED feedVars
        PROVE  FeedInv'
    BY <1>1, <1>3 DEF feedVars, FeedInv, FeedTypes, AskedOk, Asked
  <1>4. ASSUME NEW a \in Axes, SelectAxis(a)
        PROVE  GridInv' /\ ScreenStep
    BY <1>1, <1>2, <1>4, CursorGood DEF SelectAxis, GridInv
  <1>5. ASSUME NEW d \in {-1, 1}, Nav(d, 0) \/ Nav(0, d)
        PROVE  GridInv' /\ ScreenStep
    BY <1>1, <1>2, <1>5, CursorGood DEF Nav, GridInv
  <1>6. ASSUME FireFetch
        PROVE  GridInv' /\ ScreenStep
    BY <1>1, <1>2, <1>6, FireFetchGood DEF FireFetch, GridInv
  <1>7. ASSUME Pump
        PROVE  GridInv' /\ ScreenStep
    BY <1>1, <1>3, <1>7, PumpGood DEF Pump, GridInv
  <1>8. ASSUME NEW r \in feedAsked, FeedDone(r)
        PROVE  GridInv' /\ ScreenStep
    BY <1>1, <1>2, <1>8, FeedDoneGood DEF FeedDone, GridInv
  <1>9. ASSUME NEW r \in feedAsked, FeedFails(r)
        PROVE  GridInv' /\ ScreenStep
    BY <1>1, <1>2, <1>9, FeedFailsGood DEF FeedFails, GridInv
  <1>10. ASSUME NEW u \in Urls, CoverPosted(u) \/ CoverLands(u) \/ CoverFails(u)
         PROVE  GridInv' /\ ScreenStep
    BY <1>1, <1>3, <1>10, CoverAnswers DEF CoverPosted, CoverLands, CoverFails, GridInv
  <1>11. CASE UNCHANGED discoverVars
    BY <1>1, <1>2, <1>3, <1>11 DEF discoverVars, feedVars, coverVars, GridInv
  <1> QED
    BY <1>4, <1>5, <1>6, <1>7, <1>8, <1>9, <1>10, <1>11 DEF DiscoverNext

LEMMA GridInvSays ==
    ASSUME GridInv
    PROVE  FeedInOrder /\ FeedSingleFlight /\ PumpBounded /\ CoverSingleFlight
  <1>1. FeedInOrder
    BY DEF GridInv, FeedInv, SlotOk, FeedInOrder
  <1>2. FeedSingleFlight
    <2> SUFFICES ASSUME NEW a \in Axes
                 PROVE  Cardinality(Asked(a)) = IF a \in loading THEN 1 ELSE 0
      BY DEF FeedSingleFlight, Asked
    <2>1. CASE a \in loading
      <3>1. PICK r \in feedAsked : Asked(a) = {r}
        BY <2>1 DEF GridInv, FeedInv, AskedOk
      <3> QED
        BY <2>1, <3>1, FS_Singleton
    <2>2. CASE a \notin loading
      BY <2>2, FS_EmptySet DEF GridInv, FeedInv, AskedOk
    <2> QED
      BY <2>1, <2>2
  <1> QED
    BY <1>1, <1>2 DEF GridInv, CoverInv, PumpBounded

\* The cards of an axis are its own pages in order whatever axis is on screen,
\* a slot waits for one fetch, the covers under way are counted and bounded,
\* none is stuck, and what is on screen stays.
THEOREM GridsAreSound == DiscoverSpec => DiscoverSound
  <1>1. DiscoverInit => GridInv
    BY GridInitGood
  <1>2. GridInv /\ [DiscoverNext]_discoverVars => GridInv'
    BY GridStep
  <1>3. GridInv => FeedInOrder /\ FeedSingleFlight /\ PumpBounded /\ CoverSingleFlight
    BY GridInvSays
  <1>4. GridInv /\ [DiscoverNext]_discoverVars => [\A u \in ToSet(Window) : cover[u] = "ready" => cover'[u] = "ready"]_discoverVars
    BY GridStep DEF ScreenStep
  <1> QED
    BY <1>1, <1>2, <1>3, <1>4, PTL DEF DiscoverSpec, DiscoverSound, ScreenKept

-----------------------------------------------------------------------------
\* The card-row of the cursor is one of those on screen.
CursorShown(s) == s.cursor \div Cols \in s.top .. (s.top + Rows - 1)
CursorsShown == \A a \in Axes : CursorShown(feed[a])

LEMMA ClampShows ==
    ASSUME NEW s \in Slot, NEW n \in Nat
    PROVE  CursorShown(ClampTop(WithCursor(s, n)))
  <1> DEFINE t == WithCursor(s, n)
             line == n \div Cols
             low == IF s.top > line THEN line ELSE s.top
             up == IF line >= low + Rows THEN line + 1 - Rows ELSE low
  <1>1. t \in Slot /\ t.cursor = n /\ t.top = s.top
    BY DEF WithCursor, Slot
  <1>2. ClampTop(t) = [t EXCEPT !.top = up]
    BY <1>1 DEF ClampTop
  <1> HIDE DEF t, up
  <1>3. ClampTop(t).cursor = n /\ ClampTop(t).top = up
    BY <1>1, <1>2 DEF Slot
  <1>6. Cols \in Nat \ {0} /\ Rows \in Nat \ {0}
    BY DiscoverAssumption
  <1>7. line \in Nat
    BY <1>6
  <1>4. line \in Nat /\ s.top \in Nat /\ Rows \in Nat \ {0}
    BY <1>6, <1>7, SlotFields
  <1> HIDE DEF line
  <1>5. line \in up .. (up + Rows - 1)
    BY <1>4 DEF up
  <1> QED
    BY <1>3, <1>5 DEF CursorShown, t, line

LEMMA CursorsStart ==
    ASSUME DiscoverInit
    PROVE  CursorsShown
  <1>1. Cols \in Nat \ {0} /\ Rows \in Nat \ {0}
    BY DiscoverAssumption
  <1>2. \A a \in Axes : feed[a].cursor = 0 /\ feed[a].top = 0
    BY DEF DiscoverInit, EmptySlot
  <1>3. 0 \div Cols = 0
    BY <1>1
  <1>4. 0 \in 0 .. (0 + Rows - 1)
    BY <1>1
  <1> QED
    BY <1>2, <1>3, <1>4 DEF CursorsShown, CursorShown

\* A slot whose cursor and window stay as they are.
LEMMA CursorStays ==
    ASSUME FeedInv, CursorsShown, NEW a \in Axes, NEW s, feed' = [feed EXCEPT ![a] = s],
           s.cursor = feed[a].cursor, s.top = feed[a].top
    PROVE  CursorsShown'
  BY DEF FeedInv, FeedTypes, CursorsShown, CursorShown

LEMMA CursorsStep ==
    ASSUME FeedInv, CursorsShown, [DiscoverNext]_discoverVars
    PROVE  CursorsShown'
  <1>1. ASSUME UNCHANGED feed
        PROVE  CursorsShown'
    BY <1>1 DEF CursorsShown, CursorShown
  <1>2. \A a \in Axes : feed[a] \in Slot /\ SlotOk(a, feed[a])
    BY DEF FeedInv, FeedTypes
  <1>3. ASSUME NEW a \in Axes, SelectAxis(a)
        PROVE  CursorsShown'
    <2> DEFINE s == [feed[a] EXCEPT !.failed = FALSE]
    <2>1. s.cursor = feed[a].cursor /\ s.top = feed[a].top
      BY <1>2 DEF Slot
    <2>2. feed' = [feed EXCEPT ![a] = s]
      BY <1>3 DEF SelectAxis
    <2> HIDE DEF s
    <2> QED
      BY <2>1, <2>2, CursorStays
  <1>4. ASSUME NEW dx \in {-1, 0, 1}, NEW dy \in {-1, 0, 1}, Nav(dx, dy)
        PROVE  CursorsShown'
    <2> DEFINE s == feed[axis]
               len == Len(s.rows)
               start == (s.cursor \div Cols) * Cols
               width == IF len - start < Cols THEN len - start ELSE Cols
               n == IF dx # 0 THEN start + ((s.cursor - start + dx) % width) ELSE GridClamp(s.cursor + dy * Cols, len)
    <2>1. axis \in Axes /\ s \in Slot /\ SlotOk(axis, s)
      BY DEF FeedInv, FeedTypes
    <2>2. len \in Nat /\ len > 0 /\ s.cursor \in Nat /\ s.cursor < len
      BY <1>4, <2>1 DEF Nav, SlotOk, Slot
    <2>3. feed' = [feed EXCEPT ![axis] = ClampTop(WithCursor(s, n))]
      BY <1>4 DEF Nav, WithCursor
    <2>4. n \in Nat
      <3>1. CASE dx # 0
        BY <2>2, <3>1, PicksMove
      <3>2. CASE dx = 0
        <4>1. s.cursor + dy * Cols \in Int
          BY <2>2, DiscoverAssumption
        <4> HIDE DEF len, s
        <4> QED
          BY <2>2, <3>2, <4>1 DEF GridClamp
      <3> QED
        BY <3>1, <3>2
    <2>5. CursorShown(ClampTop(WithCursor(s, n)))
      <3> HIDE DEF n, s
      <3> QED
        BY <2>1, <2>4, ClampShows
    <2> HIDE DEF n
    <2>6. \A b \in Axes : feed'[b] = IF b = axis THEN ClampTop(WithCursor(s, n)) ELSE feed[b]
      BY <2>3 DEF FeedInv, FeedTypes
    <2>7. \A b \in Axes : CursorShown(feed'[b])
      BY <2>5, <2>6 DEF CursorsShown
    <2> QED
      BY <2>7 DEF CursorsShown, CursorShown
  <1>5. ASSUME NEW r \in feedAsked, FeedDone(r)
        PROVE  CursorsShown'
    <2> DEFINE a == r[1]
               s == feed[a]
               rows == s.rows \o PageCards(a, r[2])
               t == IF r[2] # s.page + 1 THEN s
                    ELSE [s EXCEPT !.rows = rows, !.page = r[2], !.failed = FALSE, !.exhausted = Full(a, r[2], rows)]
    <2>1. a \in Axes
      BY DEF FeedInv, FeedTypes
    <2>2. feed' = [feed EXCEPT ![a] = t]
      BY <1>5 DEF FeedDone, FiledOn
    <2>3. t.cursor = s.cursor /\ t.top = s.top
      <3> HIDE DEF rows
      <3>1. s = [page |-> s.page, rows |-> s.rows, failed |-> s.failed, exhausted |-> s.exhausted,
                 cursor |-> s.cursor, top |-> s.top]
        BY <1>2, <2>1 DEF Slot
      <3> HIDE DEF s
      <3> QED
        BY <3>1
    <2> HIDE DEF t, a
    <2> QED
      BY <2>1, <2>2, <2>3, CursorStays
  <1>6. ASSUME NEW r \in feedAsked, FeedFails(r)
        PROVE  CursorsShown'
    <2> DEFINE a == r[1]
               s == [feed[a] EXCEPT !.failed = TRUE]
    <2>1. a \in Axes
      BY DEF FeedInv, FeedTypes
    <2>2. feed' = [feed EXCEPT ![a] = s]
      BY <1>6 DEF FeedFails
    <2>3. s.cursor = feed[a].cursor /\ s.top = feed[a].top
      BY <1>2, <2>1 DEF Slot
    <2> HIDE DEF s, a
    <2> QED
      BY <2>1, <2>2, <2>3, CursorStays
  <1>7. CASE FireFetch \/ Pump \/ UNCHANGED discoverVars
    BY <1>1, <1>7 DEF FireFetch, Pump, feedVars, discoverVars
  <1>8. ASSUME NEW u \in Urls, CoverPosted(u) \/ CoverLands(u) \/ CoverFails(u)
        PROVE  CursorsShown'
    BY <1>1, <1>8 DEF CoverPosted, CoverLands, CoverFails, feedVars
  <1> QED
    BY <1>3, <1>4, <1>5, <1>6, <1>7, <1>8 DEF DiscoverNext

LEMMA DiscoverTyped ==
    ASSUME GridInv, CursorsShown
    PROVE  DiscoverTypeOK
  <1>1. ASSUME NEW a \in Axes
        PROVE  feed[a].cursor \in 0 .. (IF feed[a].rows = <<>> THEN 0 ELSE Len(feed[a].rows) - 1)
    <2> DEFINE s == feed[a]
    <2>1. s \in Slot /\ SlotOk(a, s)
      BY DEF GridInv, FeedInv, FeedTypes
    <2> HIDE DEF s
    <2>2. s.cursor \in Nat /\ s.rows \in Seq(Axes \X Nat) /\ Len(s.rows) \in Nat
      BY <2>1, SlotFields
    <2>3. s.cursor < Len(s.rows) \/ (s.rows = <<>> /\ s.cursor = 0)
      BY <2>1 DEF SlotOk
    <2>4. s.rows = <<>> => Len(s.rows) = 0
      OBVIOUS
    <2>5. s.cursor \in 0 .. (IF s.rows = <<>> THEN 0 ELSE Len(s.rows) - 1)
      BY <2>2, <2>3, <2>4
    <2> QED
      BY <2>5 DEF s
  <1> QED
    BY <1>1 DEF GridInv, FeedInv, FeedTypes, CoverInv, CursorsShown, CursorShown, DiscoverTypeOK

\* The cursor of every axis is on a card, and the card's row on screen (clamp_scroll).
LEMMA GridsTyped == DiscoverSpec => []DiscoverTypeOK
  <1>1. DiscoverInit => GridInv /\ CursorsShown
    BY GridInitGood, CursorsStart
  <1>2. GridInv /\ CursorsShown /\ [DiscoverNext]_discoverVars => GridInv' /\ CursorsShown'
    BY GridStep, CursorsStep DEF GridInv
  <1>3. GridInv /\ CursorsShown => DiscoverTypeOK
    BY DiscoverTyped
  <1> QED
    BY <1>1, <1>2, <1>3, PTL DEF DiscoverSpec

-----------------------------------------------------------------------------
(***************************************************************************)
(* The play from the command line, and the app on the same library.        *)
(***************************************************************************)
Menus == [of : OfferIds \cup {NoOffer}, count : Nat]
Shelves == [rows : SUBSET Keyed, owner : [OfferIds -> Keyed \cup {Unkeyed}],
            cached : [Keyed -> Menus], marks : [Keyed -> Nat]]

\* What a show that is gone has on a shelf: nothing.
Swept(b) ==
    /\ \A l \in OfferIds : b.owner[l] \in b.rows \cup {Unkeyed}
    /\ \A k \in Keyed \ b.rows : b.cached[k] = NoMenu /\ b.marks[k] = 0

ShelfGood(b) == b \in Shelves /\ Swept(b)

\* No episode is picked before there is a menu, and what is bound or listed was picked.
QueryInv ==
    /\ QueryTypeOK /\ ShelfGood(shelf) /\ menu \in Menus
    /\ stage \in {"parse", "setup", "search", "hits", "bind", "episodes"} => episode = 0
    /\ stage \in {"bind", "episodes"} => hit.listing \in OfferIds

LEMMA NoMenuIsOne == NoMenu \in Menus
  BY DEF NoMenu, Menus

LEMMA ShelfFields ==
    ASSUME NEW b \in Shelves
    PROVE  /\ b.rows \in SUBSET Keyed /\ b.owner \in [OfferIds -> Keyed \cup {Unkeyed}]
           /\ b.cached \in [Keyed -> Menus] /\ b.marks \in [Keyed -> Nat]
  BY DEF Shelves

LEMMA EmptyShelfGood == ShelfGood(EmptyShelf)
  BY NoMenuIsOne DEF ShelfGood, Shelves, EmptyShelf, Swept

LEMMA BoundGood ==
    ASSUME ShelfGood(shelf), NEW k \in Keyed, NEW l \in OfferIds
    PROVE  ShelfGood(Bound(k, l)) /\ k \in Bound(k, l).rows
  <1> DEFINE b == Bound(k, l)
  <1>1. shelf \in Shelves /\ Swept(shelf)
    BY DEF ShelfGood
  <1>2. /\ b.rows = shelf.rows \cup {k} /\ b.cached = shelf.cached /\ b.marks = shelf.marks
        /\ b.owner = [m \in OfferIds |-> IF m = l THEN k ELSE IF shelf.owner[m] = k THEN Unkeyed ELSE shelf.owner[m]]
    BY <1>1 DEF Bound, Shelves
  <1>3. b \in Shelves
    BY <1>1 DEF Bound, Shelves
  <1> HIDE DEF b
  <1>4. Swept(b)
    BY <1>1, <1>2, ShelfFields DEF Swept
  <1> QED
    BY <1>2, <1>3, <1>4 DEF ShelfGood, b

LEMMA CachedGood ==
    ASSUME NEW b, ShelfGood(b), NEW k \in b.rows, NEW m \in Menus
    PROVE  ShelfGood([b EXCEPT !.cached[k] = m])
  <1> DEFINE c == [b EXCEPT !.cached[k] = m]
  <1>1. b \in Shelves /\ Swept(b)
    BY DEF ShelfGood
  <1>2. k \in Keyed
    BY <1>1, ShelfFields
  <1>3. c \in Shelves
    BY <1>1, <1>2 DEF Shelves
  <1>4. c.rows = b.rows /\ c.owner = b.owner /\ c.marks = b.marks /\ c.cached = [b.cached EXCEPT ![k] = m]
    BY <1>1 DEF Shelves
  <1> HIDE DEF c
  <1>5. Swept(c)
    BY <1>1, <1>2, <1>4, ShelfFields DEF Swept
  <1> QED
    BY <1>3, <1>5 DEF ShelfGood, c

LEMMA MarkedGood ==
    ASSUME NEW b, ShelfGood(b), NEW k \in b.rows, NEW n \in Nat
    PROVE  ShelfGood([b EXCEPT !.marks[k] = n])
  <1> DEFINE c == [b EXCEPT !.marks[k] = n]
  <1>1. b \in Shelves /\ Swept(b)
    BY DEF ShelfGood
  <1>2. k \in Keyed
    BY <1>1, ShelfFields
  <1>3. c \in Shelves
    BY <1>1, <1>2 DEF Shelves
  <1>4. c.rows = b.rows /\ c.owner = b.owner /\ c.cached = b.cached /\ c.marks = [b.marks EXCEPT ![k] = n]
    BY <1>1 DEF Shelves
  <1> HIDE DEF c
  <1>5. Swept(c)
    BY <1>1, <1>2, <1>4, ShelfFields DEF Swept
  <1> QED
    BY <1>3, <1>5 DEF ShelfGood, c

LEMMA AppDeleteGood ==
    ASSUME ShelfGood(shelf), NEW k \in Keyed, AppDeletes(k)
    PROVE  ShelfGood(shelf')
  <1> DEFINE owner == [l \in OfferIds |-> IF shelf.owner[l] = k THEN Unkeyed ELSE shelf.owner[l]]
             cached == [shelf.cached EXCEPT ![k] = NoMenu]
             marks == [shelf.marks EXCEPT ![k] = 0]
  <1>1. shelf \in Shelves /\ Swept(shelf)
    BY DEF ShelfGood
  <1>2. shelf' = [rows |-> shelf.rows \ {k}, owner |-> owner, cached |-> cached, marks |-> marks]
    BY DEF AppDeletes
  <1>3. /\ owner \in [OfferIds -> Keyed \cup {Unkeyed}] /\ cached \in [Keyed -> Menus] /\ marks \in [Keyed -> Nat]
        /\ shelf.rows \subseteq Keyed
    BY <1>1, ShelfFields, NoMenuIsOne
  <1>4. /\ \A l \in OfferIds : owner[l] \in (shelf.rows \ {k}) \cup {Unkeyed}
        /\ \A j \in Keyed \ (shelf.rows \ {k}) : cached[j] = NoMenu /\ marks[j] = 0
    BY <1>1, ShelfFields DEF Swept
  <1> HIDE DEF owner, cached, marks
  <1>5. shelf' \in Shelves
    BY <1>2, <1>3 DEF Shelves
  <1>6. Swept(shelf')
    BY <1>2, <1>4 DEF Swept
  <1> QED
    BY <1>5, <1>6 DEF ShelfGood

LEMMA AppBindGood ==
    ASSUME ShelfGood(shelf), NEW k \in Keyed, NEW l \in OfferIds, AppBinds(k, l)
    PROVE  ShelfGood(shelf')
  <1> DEFINE b == Bound(k, l)
             m == [of |-> l, count |-> Offers[l]]
  <1>1. ShelfGood(b) /\ k \in b.rows
    BY BoundGood
  <1>2. m \in Menus
    BY QueryAssumption DEF Menus
  <1>3. shelf' = [b EXCEPT !.cached[k] = m]
    BY DEF AppBinds
  <1> HIDE DEF b, m
  <1> QED
    BY <1>1, <1>2, <1>3, CachedGood

LEMMA QueryInitGood ==
    ASSUME QueryInit
    PROVE  QueryInv
  <1>1. ShelfGood(shelf)
    BY EmptyShelfGood DEF QueryInit
  <1>2. QueryTypeOK
    <2>1. shelf.rows \subseteq Keyed
      BY DEF QueryInit, EmptyShelf
    <2>2. hit \in [key : Keyed \cup {Unkeyed}, listing : OfferIds \cup {NoOffer}]
      BY DEF QueryInit, NoPick
    <2>3. episode \in 0 .. menu.count /\ tries \in 0 .. PickTries
      BY QueryAssumption DEF QueryInit, NoMenu
    <2> QED
      BY <2>1, <2>2, <2>3 DEF QueryInit, QueryTypeOK
  <1> QED
    BY <1>1, <1>2, NoMenuIsOne DEF QueryInit, QueryInv

\* A listing is kept, or a finish is written, only for a row that is there.
LEMMA RunKeepsShelf ==
    ASSUME QueryInv, Runs
    PROVE  ShelfGood(shelf')
  <1>1. ShelfGood(shelf) /\ hit.key \in Keyed \cup {Unkeyed} /\ hit.listing \in OfferIds \cup {NoOffer}
    BY DEF QueryInv, QueryTypeOK
  <1>2. ASSUME UNCHANGED shelf
        PROVE  ShelfGood(shelf')
    BY <1>1, <1>2
  <1>3. ASSUME Binds
        PROVE  ShelfGood(shelf')
    <2>1. hit.listing \in OfferIds
      BY <1>3 DEF Binds, QueryInv
    <2>2. CASE Keeps /\ shelf' = Bound(hit.key, hit.listing)
      <3>1. hit.key \in Keyed
        BY <1>1, <2>2 DEF Keeps
      <3> QED
        BY <1>1, <2>1, <2>2, <3>1, BoundGood
    <2> QED
      BY <1>2, <1>3, <2>2 DEF Binds
  <1>4. ASSUME LoadsFresh
        PROVE  ShelfGood(shelf')
    <2> DEFINE m == [of |-> hit.listing, count |-> Offers[hit.listing]]
    <2>1. m \in Menus
      <3>1. hit.listing \in OfferIds
        BY <1>4 DEF LoadsFresh, QueryInv
      <3> QED
        BY <3>1, QueryAssumption DEF Menus
    <2>2. shelf' = shelf \/ shelf' = CachedFor(hit.key, m)
      BY <1>4 DEF LoadsFresh
    <2> HIDE DEF m
    <2>3. CASE shelf' = CachedFor(hit.key, m)
      <3>1. CASE hit.key \in shelf.rows
        <4>1. shelf' = [shelf EXCEPT !.cached[hit.key] = m]
          BY <2>3, <3>1 DEF CachedFor
        <4> QED
          BY <1>1, <2>1, <3>1, <4>1, CachedGood
      <3>2. CASE hit.key \notin shelf.rows
        BY <1>1, <2>3, <3>2 DEF CachedFor
      <3> QED
        BY <3>1, <3>2
    <2> QED
      BY <1>2, <2>2, <2>3
  <1>5. ASSUME Finishes
        PROVE  ShelfGood(shelf')
    <2>1. CASE UNCHANGED shelf
      BY <1>1, <2>1
    <2>2. CASE Keeps /\ Markable(hit.key) /\ shelf' = [shelf EXCEPT !.marks[hit.key] = episode]
      <3>1. episode \in Nat
        BY DEF QueryInv, QueryTypeOK, Menus
      <3> QED
        BY <1>1, <2>2, <3>1, MarkedGood DEF Markable
    <2> QED
      BY <1>5, <2>1, <2>2 DEF Finishes
  <1> QED
    BY <1>2, <1>3, <1>4, <1>5 DEF Runs, Dispatch, SetsUp, Searches, BadLine, Quits, PicksHit, LoadsCached, PicksEpisode,
       PlayFails, NothingWatched, Watched

LEMMA RunStaysTyped ==
    ASSUME QueryInv, Runs, ShelfGood(shelf')
    PROVE  QueryInv'
  <1>1. /\ QueryTypeOK /\ ShelfGood(shelf) /\ menu \in Menus
        /\ stage \in {"parse", "setup", "search", "hits", "bind", "episodes"} => episode = 0
        /\ stage \in {"bind", "episodes"} => hit.listing \in OfferIds
    BY DEF QueryInv
  <1>2. PickTries \in Nat /\ 0 \in 0 .. PickTries
    BY QueryAssumption
  <1>3. shelf'.rows \subseteq Keyed
    BY ShelfFields DEF ShelfGood
  <1>4. menu' \in Menus
    <2>1. CASE LoadsCached
      <3>1. hit.key \in Keyed /\ menu' = shelf.cached[hit.key]
        BY <1>1, <2>1 DEF LoadsCached, Keeps, MenuOffered, QueryTypeOK
      <3> QED
        BY <1>1, <3>1, ShelfFields DEF ShelfGood
    <2>2. CASE LoadsFresh
      <3>1. hit.listing \in OfferIds
        BY <1>1, <2>2 DEF LoadsFresh
      <3>2. menu' = menu \/ menu' = [of |-> hit.listing, count |-> Offers[hit.listing]]
        BY <2>2 DEF LoadsFresh, MenuOffered
      <3>3. [of |-> hit.listing, count |-> Offers[hit.listing]] \in Menus
        BY <3>1, QueryAssumption DEF Menus
      <3> QED
        BY <1>1, <3>2, <3>3
    <2>3. CASE UNCHANGED menu
      BY <1>1, <2>3
    <2> QED
      BY <2>1, <2>2, <2>3 DEF Runs, Dispatch, SetsUp, Searches, BadLine, Quits, PicksHit, Binds, PicksEpisode,
         PlayFails, NothingWatched, Watched, Finishes
  <1>5. menu'.count \in Nat
    BY <1>4 DEF Menus
  <1>6. hit' \in [key : Keyed \cup {Unkeyed}, listing : OfferIds \cup {NoOffer}]
    <2>1. hit \in [key : Keyed \cup {Unkeyed}, listing : OfferIds \cup {NoOffer}]
      BY <1>1 DEF QueryTypeOK
    <2>2. CASE PicksHit
      BY <2>2 DEF PicksHit
    <2>3. CASE UNCHANGED hit
      BY <2>1, <2>3
    <2> QED
      BY <2>2, <2>3 DEF Runs, Dispatch, SetsUp, Searches, BadLine, Quits, Binds, LoadsCached, LoadsFresh, PicksEpisode,
         PlayFails, NothingWatched, Watched, Finishes
  <1>7. episode' \in 0 .. menu'.count
    <2>1. episode \in 0 .. menu.count
      BY <1>1 DEF QueryTypeOK
    <2>2. CASE PicksEpisode
      BY <1>1, <1>5, <2>2 DEF PicksEpisode, Menus
    <2>3. CASE LoadsCached \/ LoadsFresh
      <3>1. episode' = 0
        BY <1>1, <2>3 DEF LoadsCached, LoadsFresh
      <3> QED
        BY <1>5, <3>1
    <2>4. CASE UNCHANGED <<episode, menu>>
      BY <2>1, <2>4
    <2> QED
      BY <2>2, <2>3, <2>4 DEF Runs, Dispatch, SetsUp, Searches, BadLine, Quits, PicksHit, Binds,
         PlayFails, NothingWatched, Watched, Finishes
  <1>8. tries' \in 0 .. PickTries
    <2>1. tries \in 0 .. PickTries
      BY <1>1 DEF QueryTypeOK
    <2>2. CASE BadLine
      BY <1>2, <2>1, <2>2 DEF BadLine
    <2>3. CASE tries' = 0 \/ tries' = tries
      BY <1>2, <2>1, <2>3
    <2> QED
      BY <2>2, <2>3 DEF Runs, Dispatch, SetsUp, Searches, Quits, PicksHit, Binds, LoadsCached, LoadsFresh, MenuOffered,
         PicksEpisode, PlayFails, NothingWatched, Watched, Finishes
  <1>9. /\ stage' \in {"parse", "setup", "search", "hits", "bind", "episodes", "menu", "play", "finish", "done"}
        /\ exit' \in -1 .. 1 /\ (exit' = -1 <=> stage' # "done")
    BY <1>1 DEF QueryTypeOK, Exits, MenuOffered, Prompting, Runs, Dispatch, SetsUp, Searches, BadLine, Quits, PicksHit, Binds,
       LoadsCached, LoadsFresh, PicksEpisode, PlayFails, NothingWatched, Watched, Finishes
  <1>10. /\ stage' \in {"parse", "setup", "search", "hits", "bind", "episodes"} => episode' = 0
         /\ stage' \in {"bind", "episodes"} => hit'.listing \in OfferIds
    BY <1>1 DEF Exits, MenuOffered, Prompting, Runs, Dispatch, SetsUp, Searches, BadLine, Quits, PicksHit, Binds,
       LoadsCached, LoadsFresh, PicksEpisode, PlayFails, NothingWatched, Watched, Finishes
  <1> QED
    BY <1>3, <1>4, <1>6, <1>7, <1>8, <1>9, <1>10 DEF QueryInv, QueryTypeOK

LEMMA QueryStep ==
    ASSUME QueryInv, [QueryNext]_queryVars
    PROVE  QueryInv'
  <1>1. CASE Runs
    BY <1>1, RunKeepsShelf, RunStaysTyped
  <1>2. ASSUME ShelfGood(shelf'), UNCHANGED runVars
        PROVE  QueryInv'
    <2>1. shelf'.rows \subseteq Keyed
      BY <1>2, ShelfFields DEF ShelfGood
    <2> QED
      BY <1>2, <2>1 DEF QueryInv, QueryTypeOK, runVars
  <1>3. ASSUME NEW k \in Keyed, AppDeletes(k)
        PROVE  QueryInv'
    BY <1>2, <1>3, AppDeleteGood DEF AppDeletes, QueryInv
  <1>4. ASSUME NEW k \in Keyed, NEW l \in OfferIds, AppBinds(k, l)
        PROVE  QueryInv'
    BY <1>2, <1>4, AppBindGood DEF AppBinds, QueryInv
  <1>5. CASE UNCHANGED queryVars
    BY <1>2, <1>5 DEF queryVars, QueryInv
  <1> QED
    BY <1>1, <1>3, <1>4, <1>5 DEF QueryNext

-----------------------------------------------------------------------------
(***************************************************************************)
(* What the arguments of a play from the command line ask for.             *)
(***************************************************************************)
Scans == [words : Seq(Arguments), dub : BOOLEAN, value : BOOLEAN, bad : BOOLEAN]

\* One argument of the scan: a title word, the value of --quality, or a flag.
LEMMA ScanSteps ==
    ASSUME NEW acc \in Scans, NEW a \in Arguments
    PROVE  /\ Scan(acc, a) \in Scans
           /\ acc.bad => Scan(acc, a).bad
           /\ ~acc.bad /\ acc.value => /\ ~Scan(acc, a).value /\ ~Scan(acc, a).bad
                                       /\ Scan(acc, a).words = acc.words
           /\ ~acc.bad /\ ~acc.value =>
                 /\ Scan(acc, a).value <=> a = "--quality"
                 /\ Titular(a) => Scan(acc, a).words = Append(acc.words, a)
                 /\ ~Titular(a) => Scan(acc, a).words = acc.words
  <1>0. /\ acc = [words |-> acc.words, dub |-> acc.dub, value |-> acc.value, bad |-> acc.bad]
        /\ acc.words \in Seq(Arguments) /\ acc.dub \in BOOLEAN /\ acc.value \in BOOLEAN /\ acc.bad \in BOOLEAN
    BY DEF Scans
  <1>1. CASE acc.bad
    BY <1>0, <1>1 DEF Scan
  <1>2. CASE ~acc.bad /\ acc.value
    BY <1>0, <1>2 DEF Scan, Scans
  <1>3. CASE ~acc.bad /\ ~acc.value
    <2>1. Titular(a) => a \notin {"--dub", "--sub", "--quality", "--quality=", "--debug"}
      BY WordsAssumption DEF Titular, Commands, KnownFlags, OtherFlags
    <2>2. CASE a \in {"--dub", "--sub"}
      BY <1>0, <1>3, <2>1, <2>2 DEF Scan, Scans
    <2>3. CASE a = "--quality"
      BY <1>0, <1>3, <2>1, <2>3 DEF Scan, Scans
    <2>4. CASE a \in {"--quality=", "--debug"}
      BY <1>0, <1>3, <2>1, <2>4 DEF Scan, Scans
    <2>5. CASE a \notin {"--dub", "--sub", "--quality", "--quality=", "--debug"} /\ Titular(a)
      <3>1. Append(acc.words, a) \in Seq(Arguments)
        BY <1>0
      <3>2. Scan(acc, a) = [acc EXCEPT !.words = Append(acc.words, a)]
        BY <1>0, <1>3, <2>5 DEF Scan
      <3> QED
        BY <1>0, <1>3, <2>5, <3>1, <3>2 DEF Scans
    <2>6. CASE a \notin {"--dub", "--sub", "--quality", "--quality=", "--debug"} /\ ~Titular(a)
      <3>1. Scan(acc, a) = [acc EXCEPT !.bad = TRUE]
        BY <1>0, <1>3, <2>6 DEF Scan
      <3> QED
        BY <1>0, <1>3, <2>6, <3>1 DEF Scans
    <2> QED
      BY <2>2, <2>3, <2>4, <2>5, <2>6
  <1> QED
    BY <1>1, <1>2, <1>3

\* The scan takes one argument after the other.
LEMMA ScansStepwise ==
    ASSUME NEW args \in Seq(Arguments)
    PROVE  /\ Scanning(args) \in [0 .. Len(args) -> Scans]
           /\ Scanning(args)[0] = NothingScanned
           /\ \A n \in 1 .. Len(args) : Scanning(args)[n] = Scan(Scanning(args)[n - 1], args[n])
  <1> DEFINE N == Len(args)
             step == [n \in 1 .. N |-> [acc \in Scans |-> Scan(acc, args[n])]]
  <1>1. N \in Nat /\ \A n \in 1 .. N : args[n] \in Arguments
    OBVIOUS
  <1>2. NothingScanned \in Scans
    BY DEF NothingScanned, Scans
  <1>3. step \in StepFunctions(N, Scans)
    BY <1>1, ScanSteps DEF StepFunctions
  <1>4. \A n \in 1 .. N, acc \in Scans : step[n][acc] = Scan(acc, args[n])
    OBVIOUS
  <1> HIDE DEF step, N
  <1>5. PICK f \in [0 .. N -> Scans] : MadeUpTo(N, f, NothingScanned, step)
    BY <1>1, <1>2, <1>3, Recursion
  <1>6. ASSUME NEW n \in 0 .. N
        PROVE  (IF n = 0 THEN NothingScanned ELSE step[n][f[n - 1]])
             = (IF n = 0 THEN NothingScanned ELSE Scan(f[n - 1], args[n]))
    <2>1. CASE n # 0
      <3>1. n \in 1 .. N /\ n - 1 \in 0 .. N
        BY <1>1, <2>1
      <3>2. f[n - 1] \in Scans
        BY <3>1
      <3> QED
        BY <1>4, <2>1, <3>1, <3>2
    <2> QED
      BY <2>1
  <1>7. f = [n \in 0 .. N |-> IF n = 0 THEN NothingScanned ELSE Scan(f[n - 1], args[n])]
    BY <1>5, <1>6 DEF MadeUpTo
  <1> DEFINE Goes(g) == g = [n \in 0 .. N |-> IF n = 0 THEN NothingScanned ELSE Scan(g[n - 1], args[n])]
  <1>8. Scanning(args) = CHOOSE g : Goes(g)
    BY DEF Scanning, N
  <1>9. Goes(f)
    BY <1>7
  <1> HIDE DEF Goes
  <1>10. Goes(Scanning(args))
    BY <1>8, <1>9
  <1> DEFINE scanned == Scanning(args)
  <1>11. scanned = [n \in 0 .. N |-> IF n = 0 THEN NothingScanned ELSE Scan(scanned[n - 1], args[n])]
    BY <1>10 DEF Goes
  <1> HIDE DEF scanned
  <1>12. scanned[0] = NothingScanned /\ \A n \in 1 .. N : scanned[n] = Scan(scanned[n - 1], args[n])
    <2>1. 0 \in 0 .. N /\ \A n \in 1 .. N : n \in 0 .. N /\ n # 0
      BY <1>1
    <2> QED
      BY <1>11, <2>1
  <1> DEFINE T == {n \in 0 .. N : scanned[n] \in Scans}
  <1>13. 0 \in T
    BY <1>1, <1>2, <1>12
  <1>14. ASSUME NEW n \in 0 .. (N - 1), n \in T
         PROVE  n + 1 \in T
    <2>1. n + 1 \in 1 .. N /\ (n + 1) - 1 = n /\ n + 1 \in 0 .. N
      BY <1>1
    <2>2. scanned[n] \in Scans
      BY <1>14
    <2>3. Scan(scanned[n], args[n + 1]) \in Scans
      BY <1>1, <2>1, <2>2, ScanSteps
    <2> QED
      BY <1>12, <2>1, <2>3
  <1> HIDE DEF T
  <1>15. 0 .. N \subseteq T
    BY <1>1, <1>13, <1>14, ReachedUpTo
  <1>16. scanned \in [0 .. N -> Scans]
    BY <1>11, <1>15 DEF T
  <1> QED
    BY <1>12, <1>16 DEF scanned, N

LEMMA Appended ==
    ASSUME NEW s \in Seq(Arguments), NEW a \in Arguments
    PROVE  \A e : Contains(Append(s, a), e) <=> Contains(s, e) \/ e = a
  <1> DEFINE t == Append(s, a)
             n == Len(s)
  <1>1. n \in Nat /\ Len(t) = n + 1 /\ t[n + 1] = a /\ \A i \in 1 .. n : t[i] = s[i]
    OBVIOUS
  <1> HIDE DEF t
  <1>2. n + 1 \in 1 .. (n + 1) /\ 1 .. n \subseteq 1 .. (n + 1)
    BY <1>1
  <1>3. \A i \in 1 .. (n + 1) : i \in 1 .. n \/ i = n + 1
    BY <1>1
  <1> HIDE DEF n
  <1>4. ASSUME NEW e
        PROVE  (\E i \in 1 .. (n + 1) : t[i] = e) <=> (\E i \in 1 .. n : s[i] = e) \/ e = a
    BY <1>1, <1>2, <1>3
  <1> QED
    BY <1>1, <1>4 DEF Contains, t, n

\* Once no argument is the bare --quality, every title word met is kept.
WordsKept(acc, args, n) ==
    ~acc.bad => /\ ~acc.value
                /\ \A i \in 1 .. n : Titular(args[i]) => Contains(acc.words, args[i])

LEMMA WordKeeps ==
    ASSUME NEW args \in Seq(Arguments), \A i \in DOMAIN args : args[i] # "--quality"
    PROVE  WordsKept(Scanned(args), args, Len(args))
  <1> DEFINE N == Len(args)
             acc == Scanning(args)
             T == {n \in 0 .. N : WordsKept(acc[n], args, n)}
  <1>1. /\ N \in Nat /\ DOMAIN args = 1 .. N /\ \A n \in 1 .. N : args[n] \in Arguments
    OBVIOUS
  <1>2. /\ acc \in [0 .. N -> Scans] /\ acc[0] = NothingScanned
        /\ \A n \in 1 .. N : acc[n] = Scan(acc[n - 1], args[n])
    BY ScansStepwise
  <1> HIDE DEF acc, N
  <1>3. 0 \in T
    <2>1. WordsKept(NothingScanned, args, 0)
      BY DEF WordsKept, NothingScanned
    <2> QED
      BY <1>1, <1>2, <2>1
  <1>4. ASSUME NEW n \in 0 .. (N - 1), n \in T
        PROVE  n + 1 \in T
    <2>1. n + 1 \in 1 .. N /\ (n + 1) - 1 = n /\ n + 1 \in 0 .. N /\ n \in 0 .. N
      BY <1>1
    <2>2. /\ acc[n] \in Scans /\ args[n + 1] \in Arguments /\ acc[n + 1] = Scan(acc[n], args[n + 1])
          /\ args[n + 1] # "--quality"
      BY <1>1, <1>2, <2>1
    <2>3. WordsKept(acc[n], args, n)
      BY <1>4
    <2>4. \A i \in 1 .. (n + 1) : i \in 1 .. n \/ i = n + 1
      BY <1>1
    <2>5. ASSUME ~acc[n + 1].bad
          PROVE  /\ ~acc[n + 1].value
                 /\ \A i \in 1 .. (n + 1) : Titular(args[i]) => Contains(acc[n + 1].words, args[i])
      <3>1. ~acc[n].bad
        BY <2>2, <2>5, ScanSteps
      <3>2. ~acc[n].value /\ \A i \in 1 .. n : Titular(args[i]) => Contains(acc[n].words, args[i])
        BY <2>3, <3>1 DEF WordsKept
      <3>3. ~acc[n + 1].value
        BY <2>2, <3>1, <3>2, ScanSteps
      <3>4. acc[n].words \in Seq(Arguments)
        BY <2>2 DEF Scans
      <3>5. CASE Titular(args[n + 1])
        <4>1. acc[n + 1].words = Append(acc[n].words, args[n + 1])
          BY <2>2, <3>1, <3>2, <3>5, ScanSteps
        <4> QED
          BY <2>2, <2>4, <3>2, <3>3, <3>4, <4>1, Appended
      <3>6. CASE ~Titular(args[n + 1])
        <4>1. acc[n + 1].words = acc[n].words
          BY <2>2, <3>1, <3>2, <3>6, ScanSteps
        <4> QED
          BY <2>4, <3>2, <3>3, <3>6, <4>1
      <3> QED
        BY <3>5, <3>6
    <2>6. WordsKept(acc[n + 1], args, n + 1)
      BY <2>5 DEF WordsKept
    <2> QED
      BY <2>1, <2>6
  <1> HIDE DEF T
  <1>5. 0 .. N \subseteq T
    BY <1>1, <1>3, <1>4, ReachedUpTo
  <1>6. N \in T
    BY <1>1, <1>5
  <1> QED
    BY <1>6 DEF T, acc, Scanned, N

\* The argument at i, right after the first --quality, is its value and no word.
ValueLeft(acc, x, i, n) ==
    ~acc.bad => /\ n < i - 1 => ~acc.value
                /\ n = i - 1 => acc.value
                /\ ~Contains(acc.words, x)

LEMMA ValueLeaves ==
    ASSUME NEW args \in Seq(Arguments), NEW i \in 2 .. Len(args), args[i - 1] = "--quality",
           \A j \in 1 .. (i - 2) : args[j] # "--quality",
           \A j \in DOMAIN args \ {i} : args[j] # args[i], ~Scanned(args).bad
    PROVE  ~Contains(Scanned(args).words, args[i])
  <1> DEFINE N == Len(args)
             acc == Scanning(args)
             x == args[i]
             T == {n \in 0 .. N : ValueLeft(acc[n], x, i, n)}
  <1>1. /\ N \in Nat /\ DOMAIN args = 1 .. N /\ \A n \in 1 .. N : args[n] \in Arguments
    OBVIOUS
  <1>2. /\ acc \in [0 .. N -> Scans] /\ acc[0] = NothingScanned
        /\ \A n \in 1 .. N : acc[n] = Scan(acc[n - 1], args[n])
    BY ScansStepwise
  <1>3. i \in Nat /\ i >= 2
    OBVIOUS
  <1>4. \A j \in 1 .. N : j # i => args[j] # x
    BY <1>1
  <1> HIDE DEF acc, N, x
  <1>5. 0 \in T
    <2>1. ~Contains(<<>>, x)
      BY DEF Contains
    <2>2. ValueLeft(NothingScanned, x, i, 0)
      BY <1>3, <2>1 DEF ValueLeft, NothingScanned
    <2> QED
      BY <1>1, <1>2, <2>2
  <1>6. ASSUME NEW n \in 0 .. (N - 1), n \in T
        PROVE  n + 1 \in T
    <2>1. n + 1 \in 1 .. N /\ (n + 1) - 1 = n /\ n + 1 \in 0 .. N /\ n \in 0 .. N
      BY <1>1
    <2>2. /\ acc[n] \in Scans /\ args[n + 1] \in Arguments /\ acc[n + 1] = Scan(acc[n], args[n + 1])
      BY <1>1, <1>2, <2>1
    <2> DEFINE here == acc[n]
               next == acc[n + 1]
               arg == args[n + 1]
    <2>2a. here \in Scans /\ arg \in Arguments /\ next = Scan(here, arg)
      BY <2>2
    <2> HIDE DEF here, next, arg
    <2>2b. /\ here.bad => next.bad
           /\ ~here.bad /\ here.value => next.words = here.words
           /\ ~here.bad /\ ~here.value =>
                 /\ next.value <=> arg = "--quality"
                 /\ Titular(arg) => next.words = Append(here.words, arg)
                 /\ ~Titular(arg) => next.words = here.words
      BY <2>2a, ScanSteps
    <2> USE DEF here, next, arg
    <2>3. ValueLeft(acc[n], x, i, n)
      BY <1>6
    <2>4. ASSUME ~acc[n + 1].bad
          PROVE  /\ n + 1 < i - 1 => ~acc[n + 1].value
                 /\ n + 1 = i - 1 => acc[n + 1].value
                 /\ ~Contains(acc[n + 1].words, x)
      <3>1. ~acc[n].bad
        BY <2>2b, <2>4
      <3>2. (n < i - 1 => ~acc[n].value) /\ (n = i - 1 => acc[n].value) /\ ~Contains(acc[n].words, x)
        BY <2>3, <3>1 DEF ValueLeft
      <3>3. acc[n].words \in Seq(Arguments) /\ acc[n].value \in BOOLEAN
        BY <2>2 DEF Scans
      <3>4. CASE acc[n].value
        <4>1. ~(n < i - 1)
          BY <3>2, <3>4
        <4>2. ~(n + 1 < i - 1) /\ n + 1 # i - 1
          BY <1>3, <4>1
        <4>3. acc[n + 1].words = acc[n].words
          BY <2>2b, <3>1, <3>4
        <4> QED
          BY <3>2, <4>2, <4>3
      <3>5. CASE ~acc[n].value
        <4>1. n # i - 1 /\ n + 1 # i
          BY <1>3, <3>2, <3>5
        <4>2. args[n + 1] # x
          BY <1>4, <2>1, <4>1
        <4>3. acc[n + 1].value <=> args[n + 1] = "--quality"
          BY <2>2b, <3>1, <3>5
        <4>4. n + 1 < i - 1 => n + 1 \in 1 .. (i - 2)
          BY <1>3
        <4>5. n + 1 < i - 1 => ~acc[n + 1].value
          BY <4>3, <4>4
        <4>6. n + 1 = i - 1 => acc[n + 1].value
          BY <4>3
        <4>7. ~Contains(acc[n + 1].words, x)
          <5>1. CASE Titular(args[n + 1])
            <6>1. acc[n + 1].words = Append(acc[n].words, args[n + 1])
              BY <2>2b, <3>1, <3>5, <5>1
            <6> QED
              BY <2>2, <3>2, <3>3, <4>2, <6>1, Appended
          <5>2. CASE ~Titular(args[n + 1])
            <6>1. acc[n + 1].words = acc[n].words
              BY <2>2b, <3>1, <3>5, <5>2
            <6> QED
              BY <3>2, <6>1
          <5> QED
            BY <5>1, <5>2
        <4> QED
          BY <4>5, <4>6, <4>7
      <3> QED
        BY <3>4, <3>5
    <2>5. ValueLeft(acc[n + 1], x, i, n + 1)
      BY <2>4 DEF ValueLeft
    <2> QED
      BY <2>1, <2>5
  <1> HIDE DEF T
  <1>7. 0 .. N \subseteq T
    BY <1>1, <1>5, <1>6, ReachedUpTo
  <1>8. N \in T
    BY <1>1, <1>7
  <1> QED
    BY <1>8 DEF T, acc, Scanned, N, x, ValueLeft

LEMMA TitlesParsed ==
    ASSUME argv \in Seq(Arguments)
    PROVE  TitlesSearched
  <1> DEFINE scan == Scanned(argv)
             commands == FirstWord(argv) \cap Commands
             parsed == Parse(argv)
  <1>1. commands # {} => (CHOOSE c \in commands : TRUE) \in commands
    OBVIOUS
  <1>2. \A c \in commands : c \in Commands /\ \E i \in DOMAIN argv :
            argv[i] = c /\ \A j \in 1 .. (i - 1) : Flag(argv[j])
    BY DEF FirstWord
  <1> HIDE DEF commands, scan
  <1>3. CASE "--version" \in ToSet(argv)
    <2>1. Parse(argv) = Outcome("version", <<>>, FALSE)
      BY <1>3 DEF Parse
    <2>1a. parsed.kind = "version"
      BY <2>1 DEF Outcome
    <2> HIDE DEF parsed
    <2> QED
      BY <2>1a DEF TitlesSearched, Commands, parsed
  <1>4. CASE "--version" \notin ToSet(argv) /\ commands # {}
    <2> DEFINE chosen == CHOOSE c \in commands : TRUE
    <2>0. Parse(argv) = Outcome(chosen, <<>>, FALSE)
      BY <1>4 DEF Parse, commands
    <2>1. parsed.kind = chosen
      BY <2>0 DEF Outcome
    <2>2. parsed.kind \in commands
      BY <1>1, <1>4, <2>1
    <2>3. parsed.kind # "play"
      BY <1>2, <2>2 DEF Commands
    <2> HIDE DEF parsed
    <2>4. \E i \in DOMAIN argv : argv[i] = parsed.kind /\ \A j \in 1 .. (i - 1) : Flag(argv[j])
      BY <1>2, <2>2
    <2> QED
      BY <2>3, <2>4 DEF TitlesSearched, parsed
  <1>5. CASE "--version" \notin ToSet(argv) /\ commands = {} /\ (scan.bad \/ scan.value \/ scan.words = <<>>)
    <2>1. parsed.kind \in {"usage", "tui"}
      BY <1>5 DEF Parse, Outcome, commands, scan
    <2> QED
      BY <2>1 DEF TitlesSearched, Commands
  <1>6. CASE "--version" \notin ToSet(argv) /\ commands = {} /\ ~(scan.bad \/ scan.value \/ scan.words = <<>>)
    <2>1. parsed.kind = "play" /\ parsed.words = scan.words
      BY <1>6 DEF Parse, Outcome, commands, scan
    <2>2. (\A i \in DOMAIN argv : argv[i] # "--quality") =>
             \A i \in DOMAIN argv : Titular(argv[i]) => Contains(scan.words, argv[i])
      BY <1>6, WordKeeps DEF WordsKept, scan
    <2>3. \A i \in 2 .. Len(argv) :
             /\ argv[i - 1] = "--quality"
             /\ \A j \in 1 .. (i - 2) : argv[j] # "--quality"
             /\ \A j \in DOMAIN argv \ {i} : argv[j] # argv[i]
             => ~Contains(scan.words, argv[i])
      BY <1>6, ValueLeaves DEF scan
    <2> QED
      BY <2>1, <2>2, <2>3 DEF TitlesSearched, Commands
  <1> QED
    BY <1>3, <1>4, <1>5, <1>6
\* The arguments are read once, as they came.
ArgvKept == stage = "parse" => argv \in Seq(Arguments)

\* Bounded sequences are sequences.
LEMMA BoundedAreSeqs ==
    ASSUME NEW S, NEW n \in Nat
    PROVE  BoundedSeq(S, n) \subseteq Seq(S)
  <1>1. BoundedSeq(S, n) = UNION {[1 .. m -> S] : m \in 0 .. n}
    BY DEF BoundedSeq, SeqOf
  <1>2. ASSUME NEW m \in 0 .. n, NEW o \in [1 .. m -> S]
        PROVE  o \in Seq(S)
    <2>1. m \in Nat
      OBVIOUS
    <2> QED
      BY <2>1
  <1>3. UNION {[1 .. m -> S] : m \in 0 .. n} \subseteq Seq(S)
    BY <1>2
  <1> QED
    BY <1>1, <1>3

LEMMA ArgvInit ==
    ASSUME QueryInit
    PROVE  ArgvKept
  BY QueryAssumption, BoundedAreSeqs DEF QueryInit, ArgvKept

LEMMA ArgvStep ==
    ASSUME ArgvKept, [QueryNext]_queryVars
    PROVE  ArgvKept'
  <1>1. ASSUME stage' = "parse"
        PROVE  stage = "parse" /\ argv' = argv
    BY <1>1 DEF QueryNext, Runs, Dispatch, SetsUp, Searches, BadLine, Prompting, Quits, PicksHit, Binds, LoadsCached,
                LoadsFresh, MenuOffered, PicksEpisode, PlayFails, NothingWatched, Watched, Finishes, Exits,
                AppDeletes, AppBinds, runVars, queryVars
  <1> QED
    BY <1>1 DEF ArgvKept

\* Whatever the app deletes or binds while a run from the command line is under way,
\* nothing of the run is kept for a show that is gone; and a search keeps the words it was
\* given: a command is one only as the first word, and the value of --quality is no word.
THEOREM QueriesAreSound == QuerySpec => [](QueryTypeOK /\ QuerySound)
  <1>1. QueryInit => QueryInv /\ ArgvKept
    BY QueryInitGood, ArgvInit
  <1>2. QueryInv /\ ArgvKept /\ [QueryNext]_queryVars => (QueryInv /\ ArgvKept)'
    BY QueryStep, ArgvStep
  <1>3. QueryInv => QueryTypeOK /\ NothingForDeleted
    BY DEF QueryInv, ShelfGood, Swept, NothingForDeleted
  <1>4. ArgvKept => TitlesSearched
    BY TitlesParsed DEF ArgvKept, TitlesSearched
  <1>5. QueryInv /\ ArgvKept => QueryTypeOK /\ QuerySound
    BY <1>3, <1>4 DEF QuerySound
  <1> QED
    BY <1>1, <1>2, <1>5, PTL DEF QuerySpec

-----------------------------------------------------------------------------
(***************************************************************************)
(* The cover caches.                                                       *)
(***************************************************************************)
\* The bytes of each url by their places; Bytes counts them.
Places(urls) == UNION {{u} \X (1 .. ArtSize[u]) : u \in urls}

HeightTier == [held : SUBSET ArtUrls, older : SUBSET (ArtUrls \X ArtUrls), total : Int]

\* The stamps of a tier order what it holds, and its total is what it holds.
TierGood(tier) ==
    /\ tier \in HeightTier
    /\ IsFiniteSet(tier.held)
    /\ \A p \in tier.older : p[1] \in tier.held /\ p[2] \in tier.held
    /\ \A u \in tier.held : <<u, u>> \notin tier.older
    /\ \A u, v, w \in tier.held : (<<u, v>> \in tier.older /\ <<v, w>> \in tier.older) => <<u, w>> \in tier.older
    /\ tier.total = Bytes(tier.held)

Tiers == {"raw", "decoded"}

LoadStages == {"idle", "decoded", "raw", "disk", "network", "open", "fill", "rename", "keep raw", "keep decoded"}

TiersInv ==
    /\ tiers \in [Tiers -> HeightTier]
    /\ \A t \in Tiers : TierGood(tiers[t]) /\ tiers[t].total <= TierCap[t]

\* What a worker carries is whole, and so is what it is about to rename.
LoadsInv ==
    /\ loads \in [Drawers -> [at : LoadStages, url : ArtUrls \cup {"none"}, body : {"none", "whole"}]]
    /\ \A d \in Drawers : loads[d].at # "idle" => loads[d].url \in ArtUrls /\ loads[d].body = "whole"
    /\ temps \in [Drawers -> {"none", "torn", "whole"}]
    /\ files \in [ArtUrls -> {"none", "torn", "whole"}]
    /\ \A d \in Drawers : loads[d].at = "rename" => temps[d] = "whole"
    /\ served \in {"none", "failed", "whole"}

CacheInv == TiersInv /\ LoadsInv

LEMMA OnePlaces ==
    ASSUME NEW u \in ArtUrls
    PROVE  IsFiniteSet({u} \X (1 .. ArtSize[u])) /\ Cardinality({u} \X (1 .. ArtSize[u])) = ArtSize[u]
  <1> DEFINE n == ArtSize[u]
  <1>1. n \in Nat
    BY CoverCacheAssumption
  <1> HIDE DEF n
  <1>2. IsFiniteSet(1 .. n) /\ Cardinality(1 .. n) = n
    BY <1>1, FS_Interval
  <1>3. IsFiniteSet({u}) /\ Cardinality({u}) = 1
    BY FS_Singleton
  <1>4. IsFiniteSet({u} \X (1 .. n)) /\ Cardinality({u} \X (1 .. n)) = Cardinality({u}) * Cardinality(1 .. n)
    BY <1>2, <1>3, FS_Product
  <1>5. Cardinality({u} \X (1 .. n)) = n
    BY <1>1, <1>2, <1>3, <1>4
  <1> QED
    BY <1>4, <1>5 DEF n

LEMMA PlacesUnion ==
    ASSUME NEW S \in SUBSET ArtUrls, NEW T \in SUBSET ArtUrls, S \cap T = {}
    PROVE  Places(S \cup T) = Places(S) \cup Places(T) /\ Places(S) \cap Places(T) = {}
  BY DEF Places

\* The bytes of finitely many urls are finitely many.
LEMMA PlacesFinite ==
    ASSUME NEW S \in SUBSET ArtUrls, IsFiniteSet(S)
    PROVE  IsFiniteSet(Places(S))
  <1> DEFINE f == [u \in S |-> {u} \X (1 .. ArtSize[u])]
             all == {{u} \X (1 .. ArtSize[u]) : u \in S}
  <1>1. f \in Surjection(S, all)
    BY DEF Surjection
  <1>2. IsFiniteSet(all)
    BY <1>1, FS_Surjection
  <1>3. \A T \in all : IsFiniteSet(T)
    BY OnePlaces
  <1>4. IsFiniteSet(UNION all)
    BY <1>2, <1>3, FS_UNION
  <1> QED
    BY <1>4 DEF Places

\* The bytes of what is apart add up.
LEMMA BytesAdd ==
    ASSUME NEW S \in SUBSET ArtUrls, NEW T \in SUBSET ArtUrls, S \cap T = {}, IsFiniteSet(S), IsFiniteSet(T)
    PROVE  Bytes(S) \in Nat /\ Bytes(T) \in Nat /\ Bytes(S \cup T) = Bytes(S) + Bytes(T)
  <1>1. IsFiniteSet(Places(S)) /\ IsFiniteSet(Places(T))
    BY PlacesFinite
  <1>2. Places(S \cup T) = Places(S) \cup Places(T) /\ Places(S) \cap Places(T) = {}
    BY PlacesUnion
  <1>3. /\ Cardinality(Places(S) \cup Places(T)) = Cardinality(Places(S)) + Cardinality(Places(T)) - Cardinality(Places(S) \cap Places(T))
        /\ Cardinality(Places(S) \cap Places(T)) = 0
    BY <1>1, <1>2, FS_Union, FS_EmptySet
  <1>4. Cardinality(Places(S)) \in Nat /\ Cardinality(Places(T)) \in Nat
    BY <1>1, FS_CardinalityType
  <1>5. Bytes(S) = Cardinality(Places(S)) /\ Bytes(T) = Cardinality(Places(T)) /\ Bytes(S \cup T) = Cardinality(Places(S \cup T))
    BY DEF Bytes, Places
  <1>6. Cardinality(Places(S \cup T)) = Cardinality(Places(S)) + Cardinality(Places(T))
    <2>1. Cardinality(Places(S) \cup Places(T)) = Cardinality(Places(S)) + Cardinality(Places(T))
      BY <1>3, <1>4
    <2> QED
      BY <1>2, <2>1
  <1> QED
    BY <1>4, <1>5, <1>6

LEMMA BytesOne ==
    ASSUME NEW u \in ArtUrls
    PROVE  Bytes({u}) = ArtSize[u] /\ ArtSize[u] \in Nat
  <1>1. UNION {{v} \X (1 .. ArtSize[v]) : v \in {u}} = {u} \X (1 .. ArtSize[u])
    OBVIOUS
  <1> QED
    BY <1>1, OnePlaces, CoverCacheAssumption DEF Bytes

LEMMA BytesNone == Bytes({}) = 0
  <1>1. UNION {{v} \X (1 .. ArtSize[v]) : v \in {}} = {}
    OBVIOUS
  <1> QED
    BY <1>1, FS_EmptySet DEF Bytes

\* Fewer urls have no more bytes.
LEMMA BytesLess ==
    ASSUME NEW S \in SUBSET ArtUrls, IsFiniteSet(S), NEW T \in SUBSET S
    PROVE  /\ Bytes(T) \in Nat /\ Bytes(S) \in Nat /\ Bytes(S \ T) \in Nat /\ Bytes(T) <= Bytes(S)
           /\ Bytes(S \ T) = Bytes(S) - Bytes(T)
  <1>1. IsFiniteSet(T) /\ IsFiniteSet(S \ T)
    BY FS_Subset
  <1>2. S = T \cup (S \ T) /\ T \cap (S \ T) = {}
    OBVIOUS
  <1>3. Bytes(T) \in Nat /\ Bytes(S \ T) \in Nat /\ Bytes(T \cup (S \ T)) = Bytes(T) + Bytes(S \ T)
    BY <1>1, BytesAdd
  <1>4. Bytes(S) = Bytes(T) + Bytes(S \ T)
    BY <1>2, <1>3
  <1> QED
    BY <1>3, <1>4

LEMMA PromotedGood ==
    ASSUME NEW tier \in HeightTier, TierGood(tier), NEW u \in tier.held
    PROVE  /\ [tier EXCEPT !.older = Promoted(tier, u)] \in HeightTier /\ TierGood([tier EXCEPT !.older = Promoted(tier, u)])
           /\ [tier EXCEPT !.older = Promoted(tier, u)].total = tier.total
  <1> DEFINE new == Promoted(tier, u)
             t == [tier EXCEPT !.older = new]
  <1>1. tier.held \in SUBSET ArtUrls /\ tier.older \in SUBSET (ArtUrls \X ArtUrls) /\ tier.total \in Int
    BY DEF HeightTier
  <1>2. new \in SUBSET (ArtUrls \X ArtUrls)
    BY <1>1 DEF Promoted, OthersOlder
  <1>3. \A p \in new : p[1] \in tier.held /\ p[2] \in tier.held
    BY DEF TierGood, Promoted, OthersOlder
  <1>4. \A v, w \in tier.held : <<v, w>> \in new <=> (v # u /\ ((w # u /\ <<v, w>> \in tier.older) \/ w = u))
    BY DEF Promoted, OthersOlder
  <1> HIDE DEF new
  <1>5. t \in HeightTier /\ t.held = tier.held /\ t.older = new /\ t.total = tier.total
    BY <1>1, <1>2 DEF HeightTier
  <1> HIDE DEF t
  <1>6. TierGood(t)
    BY <1>3, <1>4, <1>5 DEF TierGood, HeightTier
  <1> QED
    BY <1>5, <1>6 DEF t, new

LEMMA WithoutGood ==
    ASSUME NEW t \in Tiers, NEW u \in ArtUrls, tiers[t] \in HeightTier, TierGood(tiers[t])
    PROVE  Without(t, u) \in HeightTier /\ TierGood(Without(t, u)) /\ u \notin Without(t, u).held
  <1> DEFINE tier == tiers[t]
             rest == Without(t, u)
             total == tier.total - (IF u \in tier.held THEN ArtSize[u] ELSE 0)
  <1>1. tier.held \in SUBSET ArtUrls /\ tier.older \in SUBSET (ArtUrls \X ArtUrls) /\ tier.total \in Int
    BY DEF HeightTier
  <1>2. IsFiniteSet(tier.held) /\ tier.total = Bytes(tier.held)
    BY DEF TierGood
  <1>3. rest = [held |-> tier.held \ {u}, older |-> OthersOlder(tier, u), total |-> total]
    BY DEF Without, Hit
  <1>4. total = Bytes(tier.held \ {u}) /\ total \in Int
    <2>1. CASE u \in tier.held
      <3>1. Bytes(tier.held \ {u}) = Bytes(tier.held) - Bytes({u}) /\ Bytes(tier.held \ {u}) \in Nat
        BY <1>1, <1>2, <2>1, BytesLess
      <3> QED
        BY <1>2, <2>1, <3>1, BytesOne
    <2>2. CASE u \notin tier.held
      <3>1. tier.held \ {u} = tier.held
        BY <2>2
      <3>2. total = tier.total
        BY <1>1, <2>2
      <3>3. Bytes(tier.held \ {u}) = Bytes(tier.held)
        BY <3>1
      <3> QED
        BY <1>1, <1>2, <3>2, <3>3
    <2> QED
      BY <2>1, <2>2
  <1>5. OthersOlder(tier, u) \in SUBSET (ArtUrls \X ArtUrls)
    BY <1>1 DEF OthersOlder
  <1>6. \A p \in OthersOlder(tier, u) : p[1] \in tier.held \ {u} /\ p[2] \in tier.held \ {u}
    BY DEF OthersOlder, TierGood
  <1>7. \A v, w \in tier.held \ {u} : <<v, w>> \in OthersOlder(tier, u) <=> <<v, w>> \in tier.older
    BY DEF OthersOlder
  <1>8. IsFiniteSet(tier.held \ {u})
    BY <1>2, FS_Subset
  <1> HIDE DEF rest, total
  <1>9. /\ rest \in HeightTier /\ rest.held = tier.held \ {u} /\ rest.older = OthersOlder(tier, u)
        /\ rest.total = Bytes(tier.held \ {u})
    BY <1>1, <1>3, <1>4, <1>5 DEF HeightTier
  <1>10. TierGood(rest)
    BY <1>6, <1>7, <1>8, <1>9 DEF TierGood, HeightTier
  <1> QED
    BY <1>9, <1>10 DEF rest

\* When the oldest are gone there is room, or nothing is left.
LEMMA OldestMakesRoom ==
    ASSUME NEW t \in Tiers, NEW rest \in HeightTier, TierGood(rest), NEW u \in ArtUrls, ArtSize[u] <= TierCap[t]
    PROVE  Oldest(t, rest, u) \subseteq rest.held /\ Fits(t, rest, u, Oldest(t, rest, u))
  <1> DEFINE gone == Oldest(t, rest, u)
             ahead(v) == {w \in rest.held : <<w, v>> \in rest.older}
             stay == rest.held \ gone
             rank(v) == Cardinality(ahead(v))
  <1>1. /\ rest.held \in SUBSET ArtUrls /\ IsFiniteSet(rest.held) /\ rest.total = Bytes(rest.held) /\ rest.total \in Int
        /\ gone \subseteq rest.held
    BY DEF TierGood, HeightTier, Oldest
  <1>2. ArtSize[u] \in Nat /\ TierCap[t] \in Nat
    BY CoverCacheAssumption DEF Tiers
  <1>3. CASE stay = {}
    <2>1. gone = rest.held
      BY <1>1, <1>3
    <2>2. Bytes(gone) = rest.total
      BY <1>1, <2>1
    <2> HIDE DEF gone
    <2> QED
      BY <1>1, <1>2, <2>2 DEF Fits, gone
  <1>4. CASE stay # {}
    <2>1. \A v \in rest.held : ahead(v) \in SUBSET rest.held /\ IsFiniteSet(ahead(v)) /\ rank(v) \in Nat
      BY <1>1, FS_Subset, FS_CardinalityType
    <2> HIDE DEF gone
    <2>2. PICK v \in stay : \A w \in stay : rank(v) <= rank(w)
      <3> DEFINE ranks == {rank(w) : w \in stay}
      <3>1. ranks \in SUBSET Nat /\ ranks # {}
        BY <1>4, <2>1
      <3>2. PICK m \in ranks : \A k \in ranks : m <= k
        BY <3>1, LeastOf
      <3>3. PICK v \in stay : m = rank(v)
        BY <3>2
      <3>4. \A w \in stay : rank(w) \in ranks
        OBVIOUS
      <3> HIDE DEF ranks, rank
      <3> QED
        BY <3>2, <3>3, <3>4
    <2>3. ahead(v) \subseteq gone
      <3> SUFFICES ASSUME NEW w \in ahead(v), w \notin gone
                   PROVE  FALSE
        OBVIOUS
      <3>1. w \in stay /\ w \in rest.held /\ v \in rest.held /\ <<w, v>> \in rest.older
        OBVIOUS
      <3>2. ahead(w) \subseteq ahead(v) /\ w \notin ahead(w)
        BY <3>1 DEF TierGood
      <3>3. ahead(w) # ahead(v)
        BY <3>2
      <3>4. Cardinality(ahead(w)) <= Cardinality(ahead(v)) /\ Cardinality(ahead(w)) # Cardinality(ahead(v))
        BY <2>1, <3>1, <3>2, <3>3, FS_Subset
      <3>5. rank(v) <= rank(w) /\ rank(v) \in Nat /\ rank(w) \in Nat
        BY <2>1, <2>2, <3>1
      <3> QED
        BY <3>4, <3>5
    <2>4. Fits(t, rest, u, ahead(v))
      BY <2>2 DEF Oldest, gone
    <2>5. Bytes(ahead(v)) <= Bytes(gone) /\ Bytes(ahead(v)) \in Nat /\ Bytes(gone) \in Nat
      <3>1. gone \in SUBSET ArtUrls /\ IsFiniteSet(gone)
        BY <1>1, FS_Subset
      <3> QED
        BY <2>3, <3>1, BytesLess
    <2> QED
      BY <1>1, <1>2, <2>4, <2>5 DEF Fits, gone
  <1> QED
    BY <1>1, <1>3, <1>4

LEMMA LeftGood ==
    ASSUME NEW rest \in HeightTier, TierGood(rest), NEW gone \in SUBSET rest.held
    PROVE  /\ Left(rest, gone) \in HeightTier /\ TierGood(Left(rest, gone)) /\ Left(rest, gone).held \subseteq rest.held
           /\ Left(rest, gone).total = rest.total - Bytes(gone)
  <1> DEFINE left == Left(rest, gone)
             older == {p \in rest.older : p[1] \notin gone /\ p[2] \notin gone}
             total == rest.total - Bytes(gone)
  <1>1. /\ rest.held \in SUBSET ArtUrls /\ rest.older \in SUBSET (ArtUrls \X ArtUrls) /\ rest.total \in Int
        /\ IsFiniteSet(rest.held) /\ rest.total = Bytes(rest.held)
    BY DEF HeightTier, TierGood
  <1>2. total = Bytes(rest.held \ gone) /\ total \in Int
    BY <1>1, BytesLess
  <1>3. IsFiniteSet(rest.held \ gone)
    BY <1>1, FS_Subset
  <1>4. /\ older \in SUBSET (ArtUrls \X ArtUrls) /\ \A p \in older : p[1] \in rest.held \ gone /\ p[2] \in rest.held \ gone
        /\ \A v, w \in rest.held \ gone : <<v, w>> \in older <=> <<v, w>> \in rest.older
    BY <1>1 DEF TierGood
  <1>5. left = [held |-> rest.held \ gone, older |-> older, total |-> total]
    BY DEF Left
  <1> HIDE DEF left, older, total
  <1>6. left \in HeightTier /\ left.held = rest.held \ gone /\ left.older = older /\ left.total = total
    BY <1>1, <1>2, <1>4, <1>5 DEF HeightTier
  <1>7. TierGood(left)
    BY <1>2, <1>3, <1>4, <1>6 DEF TierGood, HeightTier
  <1> QED
    BY <1>6, <1>7 DEF left, total

LEMMA EnteredGood ==
    ASSUME NEW rest \in HeightTier, TierGood(rest), NEW u \in ArtUrls, u \notin rest.held
    PROVE  Entered(rest, u) \in HeightTier /\ TierGood(Entered(rest, u)) /\ Entered(rest, u).total = rest.total + ArtSize[u]
  <1> DEFINE tier == Entered(rest, u)
             ours == rest.held \cup {u}
             older == Promoted(rest, u)
             total == rest.total + ArtSize[u]
  <1>1. /\ rest.held \in SUBSET ArtUrls /\ rest.older \in SUBSET (ArtUrls \X ArtUrls) /\ rest.total \in Int
        /\ IsFiniteSet(rest.held) /\ rest.total = Bytes(rest.held)
    BY DEF HeightTier, TierGood
  <1>2. total = Bytes(ours) /\ total \in Int
    <2>1. IsFiniteSet({u}) /\ rest.held \cap {u} = {}
      BY FS_Singleton
    <2>2. Bytes(rest.held \cup {u}) = Bytes(rest.held) + Bytes({u})
      BY <1>1, <2>1, BytesAdd
    <2> QED
      BY <1>1, <2>2, BytesOne
  <1>3. IsFiniteSet(ours)
    BY <1>1, FS_AddElement
  <1>4. /\ older \in SUBSET (ArtUrls \X ArtUrls) /\ \A p \in older : p[1] \in ours /\ p[2] \in ours
    BY <1>1 DEF TierGood, Promoted, OthersOlder
  <1>5. \A v, w \in ours : <<v, w>> \in older <=> (v # u /\ ((w # u /\ <<v, w>> \in rest.older) \/ w = u))
    BY <1>1 DEF Promoted, OthersOlder
  <1>6. tier = [held |-> ours, older |-> older, total |-> total]
    BY DEF Entered
  <1>7. ours \in SUBSET ArtUrls /\ \A v \in ours : v # u => v \in rest.held
    BY <1>1
  <1> HIDE DEF tier, ours, older, total
  <1>8. tier \in HeightTier /\ tier.held = ours /\ tier.older = older /\ tier.total = total
    BY <1>2, <1>4, <1>6, <1>7 DEF HeightTier
  <1>9. TierGood(tier)
    BY <1>2, <1>3, <1>4, <1>5, <1>7, <1>8 DEF TierGood, HeightTier
  <1> QED
    BY <1>8, <1>9 DEF tier, total

\* A tier after an insert accounts for what it holds, and is within its cap.
LEMMA InsertedGood ==
    ASSUME CacheInv, NEW t \in Tiers, NEW u \in ArtUrls
    PROVE  /\ Inserted(t, u) \in [Tiers -> HeightTier]
           /\ \A s \in Tiers : TierGood(Inserted(t, u)[s]) /\ Inserted(t, u)[s].total <= TierCap[s]
  <1>1. tiers \in [Tiers -> HeightTier] /\ \A s \in Tiers : TierGood(tiers[s]) /\ tiers[s].total <= TierCap[s]
    BY DEF CacheInv, TiersInv
  <1>2. CASE ArtSize[u] > TierCap[t]
    BY <1>1, <1>2 DEF Inserted
  <1>3. CASE ~(ArtSize[u] > TierCap[t])
    <2> DEFINE rest == Without(t, u)
               gone == Oldest(t, rest, u)
               left == Left(rest, gone)
               new == Entered(left, u)
    <2>1. rest \in HeightTier /\ TierGood(rest) /\ u \notin rest.held
      BY <1>1, WithoutGood
    <2>2. ArtSize[u] <= TierCap[t]
      BY <1>3, CoverCacheAssumption DEF Tiers
    <2> HIDE DEF rest
    <2>3. gone \subseteq rest.held /\ Fits(t, rest, u, gone)
      BY <2>1, <2>2, OldestMakesRoom
    <2> HIDE DEF gone
    <2>4. left \in HeightTier /\ TierGood(left) /\ left.held \subseteq rest.held /\ left.total = rest.total - Bytes(gone)
      BY <2>1, <2>3, LeftGood
    <2> HIDE DEF left
    <2>5. new \in HeightTier /\ TierGood(new) /\ new.total = left.total + ArtSize[u]
      BY <2>1, <2>4, EnteredGood
    <2>6. new.total <= TierCap[t]
      BY <2>3, <2>4, <2>5 DEF Fits
    <2>7. Inserted(t, u) = [tiers EXCEPT ![t] = new]
      BY <1>3 DEF Inserted, rest, gone, left
    <2> HIDE DEF new
    <2> QED
      BY <1>1, <2>5, <2>6, <2>7
  <1> QED
    BY <1>2, <1>3

LEMMA TouchedGood ==
    ASSUME CacheInv, NEW t \in Tiers, NEW u \in ArtUrls
    PROVE  /\ Touched(t, u) \in [Tiers -> HeightTier]
           /\ \A s \in Tiers : TierGood(Touched(t, u)[s]) /\ Touched(t, u)[s].total <= TierCap[s]
  <1>1. tiers \in [Tiers -> HeightTier] /\ \A s \in Tiers : TierGood(tiers[s]) /\ tiers[s].total <= TierCap[s]
    BY DEF CacheInv, TiersInv
  <1>2. CASE Hit(t, u)
    <2> DEFINE new == [tiers[t] EXCEPT !.older = Promoted(tiers[t], u)]
    <2>1. new \in HeightTier /\ TierGood(new) /\ new.total = tiers[t].total
      BY <1>1, <1>2, PromotedGood DEF Hit
    <2>2. Touched(t, u) = [tiers EXCEPT ![t] = new]
      BY <1>1, <1>2 DEF Touched
    <2> HIDE DEF new
    <2> QED
      BY <1>1, <2>1, <2>2
  <1>3. CASE ~Hit(t, u)
    BY <1>1, <1>3 DEF Touched
  <1> QED
    BY <1>2, <1>3

LEMMA EmptyTierGood == EmptyTier \in HeightTier /\ TierGood(EmptyTier) /\ EmptyTier.total = 0
  BY BytesNone, FS_EmptySet DEF EmptyTier, HeightTier, TierGood

LEMMA CacheInitGood ==
    ASSUME CacheInit
    PROVE  CacheInv
  <1>1. \A t \in Tiers : 0 <= TierCap[t]
    BY CoverCacheAssumption DEF Tiers
  <1>2. TiersInv
    BY <1>1, EmptyTierGood DEF CacheInit, TiersInv, Tiers
  <1>3. LoadsInv
    BY DEF CacheInit, LoadsInv, NotLoading, LoadStages
  <1> QED
    BY <1>2, <1>3 DEF CacheInv

LEMMA TiersKept ==
    ASSUME CacheInv, CacheNext
    PROVE  TiersInv'
  <1>1. TiersInv /\ LoadsInv
    BY DEF CacheInv, TiersInv
  <1>2. \A d \in Drawers : loads[d].at # "idle" => loads[d].url \in ArtUrls
    BY <1>1 DEF LoadsInv
  <1>3. "raw" \in Tiers /\ "decoded" \in Tiers
    BY DEF Tiers
  <1>4. ASSUME UNCHANGED tiers
        PROVE  TiersInv'
    BY <1>1, <1>4 DEF TiersInv
  <1>5. ASSUME NEW d \in Drawers, LookUp(d)
        PROVE  TiersInv'
    <2>1. PICK t \in Tiers : loads[d].url \in ArtUrls /\ tiers' = Touched(t, loads[d].url)
      BY <1>2, <1>3, <1>5 DEF LookUp, LoadAt
    <2> QED
      BY <2>1, TouchedGood DEF TiersInv
  <1>6. ASSUME NEW d \in Drawers, WarmUp(d)
        PROVE  TiersInv'
    <2>1. PICK t \in Tiers : loads[d].url \in ArtUrls /\ tiers' = Inserted(t, loads[d].url)
      BY <1>2, <1>3, <1>6 DEF WarmUp, LoadAt
    <2> QED
      BY <2>1, InsertedGood DEF TiersInv
  <1>7. ASSUME Killed
        PROVE  TiersInv'
    <2>1. tiers' = [t \in Tiers |-> EmptyTier]
      BY <1>7 DEF Killed, Tiers
    <2>2. \A t \in Tiers : 0 <= TierCap[t]
      BY CoverCacheAssumption DEF Tiers
    <2> QED
      BY <2>1, <2>2, EmptyTierGood DEF TiersInv
  <1> QED
    BY <1>4, <1>5, <1>6, <1>7 DEF CacheNext, LoadStep, StartLoad, ReadDisk, FetchCover, WriteDisk

\* One worker's step leaves the others' where they are.
LEMMA LoadsKept ==
    ASSUME CacheInv, CacheNext
    PROVE  LoadsInv' /\ \A u \in ArtUrls : files[u] = "whole" => files'[u] = "whole"
  <1>1. LoadsInv
    BY DEF CacheInv, TiersInv
  <1> DEFINE Kept == \A u \in ArtUrls : files[u] = "whole" => files'[u] = "whole"
             Loads == [at : LoadStages, url : ArtUrls \cup {"none"}, body : {"none", "whole"}]
  <1>2. ASSUME NEW d \in Drawers, NEW load \in Loads, loads' = [loads EXCEPT ![d] = load],
               load.at # "idle" => load.url \in ArtUrls /\ load.body = "whole",
               NEW temp \in {"none", "torn", "whole"}, temps' = [temps EXCEPT ![d] = temp], load.at = "rename" => temp = "whole",
               files' \in [ArtUrls -> {"none", "torn", "whole"}], served' \in {"none", "failed", "whole"}
        PROVE  LoadsInv'
    BY <1>1, <1>2 DEF LoadsInv
  <1>3. ASSUME NEW d \in Drawers, StartLoad(d)
        PROVE  LoadsInv' /\ Kept
    <2>1. PICK u \in ArtUrls : loads' = [loads EXCEPT ![d] = [at |-> "decoded", url |-> u, body |-> "whole"]]
      BY <1>3 DEF StartLoad
    <2>2. [at |-> "decoded", url |-> u, body |-> "whole"] \in Loads
      BY DEF LoadStages
    <2>3. temps' = [temps EXCEPT ![d] = temps[d]] /\ UNCHANGED <<temps, files, served>>
      BY <1>1, <1>3 DEF StartLoad, LoadsInv
    <2> QED
      BY <1>1, <1>2, <2>1, <2>2, <2>3 DEF LoadsInv
  <1>4. \A d \in Drawers : loads[d] \in Loads
    BY <1>1 DEF LoadsInv
  <1>5. \A d \in Drawers, next \in LoadStages :
           /\ [loads[d] EXCEPT !.at = next] \in Loads /\ [loads[d] EXCEPT !.at = next].at = next
           /\ [loads[d] EXCEPT !.at = next].url = loads[d].url /\ [loads[d] EXCEPT !.at = next].body = loads[d].body
    BY <1>4
  <1>6. NotLoading \in Loads /\ NotLoading.at = "idle"
    BY DEF NotLoading, LoadStages
  <1>7. ASSUME NEW d \in Drawers, NEW next \in LoadStages, LoadGoes(d, next), ~LoadAt(d, "idle"),
               NEW temp \in {"none", "torn", "whole"}, temps' = [temps EXCEPT ![d] = temp], next = "rename" => temp = "whole",
               files' \in [ArtUrls -> {"none", "torn", "whole"}], UNCHANGED served
        PROVE  LoadsInv'
    <2> DEFINE load == [loads[d] EXCEPT !.at = next]
    <2>1. load \in Loads /\ load.at = next /\ load.url = loads[d].url /\ load.body = loads[d].body
      BY <1>5
    <2>2. loads' = [loads EXCEPT ![d] = load]
      BY <1>1, <1>7 DEF LoadGoes, LoadsInv
    <2>3. load.url \in ArtUrls /\ load.body = "whole" /\ served' \in {"none", "failed", "whole"}
      BY <1>1, <1>7, <2>1 DEF LoadAt, LoadsInv
    <2> HIDE DEF load, Loads
    <2> QED
      BY <1>2, <1>7, <2>1, <2>2, <2>3
  <1>8. ASSUME NEW d \in Drawers, NEW result \in {"failed", "whole"}, EndLoad(d, result), UNCHANGED <<temps, files>>
        PROVE  LoadsInv'
    <2>1. temps' = [temps EXCEPT ![d] = temps[d]] /\ temps[d] \in {"none", "torn", "whole"}
      BY <1>1, <1>8 DEF LoadsInv
    <2> QED
      BY <1>1, <1>2, <1>6, <1>8, <2>1 DEF EndLoad, LoadsInv
  <1>9. ASSUME NEW d \in Drawers, NEW next \in LoadStages, LoadGoes(d, next), ~LoadAt(d, "idle"), next # "rename",
               UNCHANGED <<temps, files, served>>
        PROVE  LoadsInv'
    <2>1. temps' = [temps EXCEPT ![d] = temps[d]] /\ temps[d] \in {"none", "torn", "whole"}
      BY <1>1, <1>9 DEF LoadsInv
    <2> QED
      BY <1>1, <1>7, <1>9, <2>1 DEF LoadsInv
  <1>10. {"raw", "keep decoded", "disk", "network", "open", "fill", "rename", "keep raw"} \subseteq LoadStages
    BY DEF LoadStages
  <1>11. ASSUME NEW d \in Drawers, LookUp(d)
         PROVE  LoadsInv' /\ Kept
    <2>1. CASE LoadAt(d, "decoded") /\ EndLoad(d, "whole")
      BY <1>8, <1>11, <2>1 DEF LookUp
    <2>2. CASE LoadAt(d, "decoded") /\ LoadGoes(d, "raw") /\ UNCHANGED served
      BY <1>9, <1>10, <1>11, <2>2 DEF LookUp, LoadAt
    <2>3. CASE LoadAt(d, "raw") /\ UNCHANGED served /\ LoadGoes(d, IF Hit("raw", loads[d].url) THEN "keep decoded" ELSE "disk")
      BY <1>9, <1>10, <1>11, <2>3 DEF LookUp, LoadAt
    <2> QED
      BY <1>11, <2>1, <2>2, <2>3 DEF LookUp
  <1>12. ASSUME NEW d \in Drawers, ReadDisk(d)
         PROVE  LoadsInv' /\ Kept
    <2> DEFINE body == files[loads[d].url]
    <2>1. LoadAt(d, "disk") /\ UNCHANGED <<temps, files, served>>
      BY <1>12 DEF ReadDisk
    <2>2. CASE Decodes(body)
      <3>1. loads' = [loads EXCEPT ![d].at = "keep raw", ![d].body = body] /\ body = "whole"
        BY <1>12, <2>2 DEF ReadDisk, Decodes
      <3>2. loads[d] \in Loads /\ loads[d].body = "whole"
        BY <1>1, <2>1 DEF LoadAt, LoadsInv
      <3>3. loads' = [loads EXCEPT ![d].at = "keep raw"]
        BY <1>1, <3>1, <3>2 DEF LoadsInv
      <3> QED
        BY <1>9, <1>10, <2>1, <3>3 DEF LoadAt, LoadGoes
    <2>3. CASE ~Decodes(body)
      BY <1>9, <1>10, <1>12, <2>1, <2>3 DEF ReadDisk, LoadAt
    <2> QED
      BY <2>2, <2>3
  <1>13. ASSUME NEW d \in Drawers, FetchCover(d)
         PROVE  LoadsInv' /\ Kept
    <2>1. CASE LoadAt(d, "network") /\ LoadGoes(d, "open") /\ UNCHANGED served
      BY <1>9, <1>10, <1>13, <2>1 DEF FetchCover, LoadAt
    <2>2. CASE EndLoad(d, "failed")
      BY <1>8, <1>13, <2>2 DEF FetchCover
    <2> QED
      BY <1>13, <2>1, <2>2 DEF FetchCover
  <1>14. ASSUME NEW d \in Drawers, WriteDisk(d)
         PROVE  LoadsInv' /\ Kept
    <2>1. ASSUME NEW from \in {"open", "fill"}, NEW next \in {"fill", "rename", "keep raw"}, NEW temp \in {"none", "torn", "whole"},
                 LoadAt(d, from), LoadGoes(d, next), temps' = [temps EXCEPT ![d] = temp], UNCHANGED <<files, served>>,
                 next = "rename" => temp = "whole"
          PROVE  LoadsInv' /\ Kept
      BY <1>1, <1>7, <1>10, <2>1 DEF LoadAt, LoadsInv
    <2>2. CASE LoadAt(d, "open") /\ LoadGoes(d, "fill") /\ temps' = [temps EXCEPT ![TempOf(d)] = "torn"] /\ UNCHANGED <<files, served>>
      BY <2>1, <2>2 DEF TempOf
    <2>3. CASE LoadAt(d, "fill") /\ LoadGoes(d, "rename") /\ temps' = [temps EXCEPT ![TempOf(d)] = "whole"] /\ UNCHANGED <<files, served>>
      BY <2>1, <2>3 DEF TempOf
    <2>4. CASE LoadAt(d, "fill") /\ LoadGoes(d, "keep raw") /\ temps' = [temps EXCEPT ![TempOf(d)] = "none"] /\ UNCHANGED <<files, served>>
      BY <2>1, <2>4 DEF TempOf
    <2>5. CASE /\ LoadAt(d, "rename") /\ LoadGoes(d, "keep raw") /\ temps' = [temps EXCEPT ![TempOf(d)] = "none"] /\ UNCHANGED served
               /\ files' = [files EXCEPT ![loads[d].url] = IF temps[TempOf(d)] = "none" THEN @ ELSE temps[TempOf(d)]]
      <3>1. temps[d] = "whole" /\ loads[d].url \in ArtUrls
        BY <1>1, <2>5 DEF LoadAt, LoadsInv
      <3>2. files' = [files EXCEPT ![loads[d].url] = "whole"]
        BY <1>1, <2>5, <3>1 DEF TempOf
      <3>3. files' \in [ArtUrls -> {"none", "torn", "whole"}] /\ Kept
        BY <1>1, <3>1, <3>2 DEF LoadsInv
      <3> HIDE DEF Kept
      <3> QED
        BY <1>7, <1>10, <2>5, <3>3 DEF TempOf, LoadAt
    <2> QED
      BY <1>14, <2>2, <2>3, <2>4, <2>5 DEF WriteDisk
  <1>15. ASSUME NEW d \in Drawers, WarmUp(d)
         PROVE  LoadsInv' /\ Kept
    <2>1. CASE LoadAt(d, "keep raw") /\ LoadGoes(d, "keep decoded") /\ UNCHANGED served
      BY <1>9, <1>10, <1>15, <2>1 DEF WarmUp, LoadAt
    <2>2. CASE LoadAt(d, "keep decoded") /\ EndLoad(d, loads[d].body)
      <3>1. loads[d].body = "whole"
        BY <1>1, <2>2 DEF LoadAt, LoadsInv
      <3> QED
        BY <1>8, <1>15, <2>2, <3>1 DEF WarmUp
    <2> QED
      BY <1>15, <2>1, <2>2 DEF WarmUp
  <1>16. ASSUME Killed
         PROVE  LoadsInv' /\ Kept
    <2>1. /\ temps' = [d \in Drawers |-> "none"] /\ loads' = [d \in Drawers |-> NotLoading]
          /\ served' = "none" /\ UNCHANGED files
      BY <1>16 DEF Killed
    <2> QED
      BY <1>1, <1>6, <2>1 DEF LoadsInv
  <1> QED
    BY <1>3, <1>11, <1>12, <1>13, <1>14, <1>15, <1>16 DEF CacheNext, LoadStep

\* Whatever the workers of one url do at once and wherever the program is killed, each
\* tier accounts for what it holds within its cap, nothing torn is served, and a cover
\* that is whole on disk stays whole.
THEOREM CoversStayWhole == CacheSpec => CacheSound
  <1>1. CacheInit => CacheInv
    BY CacheInitGood
  <1>2. CacheInv /\ [CacheNext]_cacheVars => CacheInv'
    <2>1. ASSUME CacheInv, UNCHANGED cacheVars
          PROVE  CacheInv'
      BY <2>1 DEF CacheInv, TiersInv, LoadsInv, cacheVars
    <2> QED
      BY <2>1, TiersKept, LoadsKept DEF CacheInv
  <1>3. CacheInv => TiersBounded /\ NeverTorn
    BY DEF CacheInv, TiersInv, LoadsInv, TierGood, Tiers, TiersBounded, NeverTorn
  <1>4. CacheInv /\ [CacheNext]_cacheVars => [\A u \in ArtUrls : files[u] = "whole" => files'[u] = "whole"]_cacheVars
    BY LoadsKept
  <1> QED
    BY <1>1, <1>2, <1>3, <1>4, PTL DEF CacheSpec, CacheSound, DiskStaysWhole

-----------------------------------------------------------------------------
(***************************************************************************)
(* The copies of a list entry.                                             *)
(***************************************************************************)
KeptMaps == [Ids -> SUBSET Copy]

LEMMA KeepTyped ==
    ASSUME NEW heap \in KeptMaps, NEW e \in Copy
    PROVE  /\ Keep(heap, e) \in KeptMaps
           /\ \A i \in Ids : i # e.id => Keep(heap, e)[i] = heap[i]
           /\ IF heap[e.id] = {} \/ \E cur \in heap[e.id] : Outranks(e, cur)
              THEN Keep(heap, e)[e.id] = {e}
              ELSE Keep(heap, e)[e.id] = heap[e.id]
  <1>1. e.id \in Ids
    BY DEF Copy
  <1> QED
    BY <1>1 DEF Keep, KeptMaps

\* The map is made copy by copy.
LEMMA CollapsesStepwise ==
    ASSUME NEW copies \in Seq(Copy)
    PROVE  /\ Collapsing(copies) \in [0 .. Len(copies) -> KeptMaps]
           /\ Collapsing(copies)[0] = [i \in Ids |-> {}]
           /\ \A n \in 1 .. Len(copies) : Collapsing(copies)[n] = Keep(Collapsing(copies)[n - 1], copies[n])
  <1> DEFINE N == Len(copies)
             none == [i \in Ids |-> {}]
             step == [n \in 1 .. N |-> [heap \in KeptMaps |-> Keep(heap, copies[n])]]
  <1>1. N \in Nat /\ \A n \in 1 .. N : copies[n] \in Copy
    OBVIOUS
  <1>2. none \in KeptMaps
    BY DEF KeptMaps
  <1>3. step \in StepFunctions(N, KeptMaps)
    BY <1>1, KeepTyped DEF StepFunctions
  <1>4. \A n \in 1 .. N, heap \in KeptMaps : step[n][heap] = Keep(heap, copies[n])
    OBVIOUS
  <1> HIDE DEF step, none, N
  <1>5. PICK f \in [0 .. N -> KeptMaps] : MadeUpTo(N, f, none, step)
    BY <1>1, <1>2, <1>3, Recursion
  <1>6. ASSUME NEW n \in 0 .. N
        PROVE  (IF n = 0 THEN none ELSE step[n][f[n - 1]]) = (IF n = 0 THEN none ELSE Keep(f[n - 1], copies[n]))
    <2>1. CASE n # 0
      <3>1. n \in 1 .. N /\ n - 1 \in 0 .. N
        BY <1>1, <2>1
      <3>2. f[n - 1] \in KeptMaps
        BY <3>1
      <3> QED
        BY <1>4, <2>1, <3>1, <3>2
    <2> QED
      BY <2>1
  <1>7. f = [n \in 0 .. N |-> IF n = 0 THEN none ELSE Keep(f[n - 1], copies[n])]
    BY <1>5, <1>6 DEF MadeUpTo
  <1> DEFINE Collects(g) == g = [n \in 0 .. N |-> IF n = 0 THEN none ELSE Keep(g[n - 1], copies[n])]
  <1>8. Collapsing(copies) = CHOOSE g : Collects(g)
    BY DEF Collapsing, N, none
  <1>9. Collects(f)
    BY <1>7
  <1> HIDE DEF Collects
  <1>10. Collects(Collapsing(copies))
    BY <1>8, <1>9
  <1> DEFINE heap == Collapsing(copies)
  <1>11. heap = [n \in 0 .. N |-> IF n = 0 THEN none ELSE Keep(heap[n - 1], copies[n])]
    BY <1>10 DEF Collects
  <1> HIDE DEF heap
  <1>12. heap[0] = none /\ \A n \in 1 .. N : heap[n] = Keep(heap[n - 1], copies[n])
    <2>1. 0 \in 0 .. N /\ \A n \in 1 .. N : n \in 0 .. N /\ n # 0
      BY <1>1
    <2> QED
      BY <1>11, <2>1
  <1> DEFINE T == {n \in 0 .. N : heap[n] \in KeptMaps}
  <1>13. 0 \in T
    BY <1>1, <1>2, <1>12
  <1>14. ASSUME NEW n \in 0 .. (N - 1), n \in T
         PROVE  n + 1 \in T
    <2>1. n + 1 \in 1 .. N /\ (n + 1) - 1 = n /\ n + 1 \in 0 .. N
      BY <1>1
    <2>2. heap[n] \in KeptMaps
      BY <1>14
    <2>3. Keep(heap[n], copies[n + 1]) \in KeptMaps
      BY <1>1, <2>1, <2>2, KeepTyped
    <2> QED
      BY <1>12, <2>1, <2>3
  <1> HIDE DEF T
  <1>15. 0 .. N \subseteq T
    BY <1>1, <1>13, <1>14, ReachedUpTo
  <1>16. heap \in [0 .. N -> KeptMaps]
    BY <1>11, <1>15 DEF T
  <1> QED
    BY <1>12, <1>16 DEF heap, none, N

\* Of the first n copies the one no other outranks is kept.
BestKept(heap, copies, n) ==
    \A i \in Ids :
        /\ \A cur \in heap[i] : cur.id = i /\ \E k \in 1 .. n : copies[k] = cur
        /\ \A k \in 1 .. n : copies[k].id = i => \E cur \in heap[i] : ~Outranks(copies[k], cur)
        /\ \A a, b \in heap[i] : a = b

LEMMA OutranksOrders ==
    ASSUME NEW a \in Copy, NEW b \in Copy, NEW c \in Copy
    PROVE  /\ Outranks(b, c) /\ ~Outranks(a, c) => ~Outranks(a, b)
           /\ ~Outranks(a, a)
           /\ ~Outranks(a, b) /\ ~Outranks(b, a) => a.at = b.at /\ a.progress = b.progress
           /\ ~Outranks(a, b) => b.at >= a.at
  <1>1. {a.at, b.at, c.at, a.progress, b.progress, c.progress} \subseteq Int
    BY CopiesAssumption DEF Copy
  <1> QED
    BY <1>1 DEF Outranks

LEMMA BestStays ==
    ASSUME NEW copies \in Seq(Copy), NEW n \in Nat, n + 1 <= Len(copies), NEW heap \in KeptMaps, BestKept(heap, copies, n)
    PROVE  BestKept(Keep(heap, copies[n + 1]), copies, n + 1)
  <1> DEFINE e == copies[n + 1]
             m == Keep(heap, e)
  <1>0. \A k \in 1 .. (n + 1) : copies[k] \in Copy
    OBVIOUS
  <1>1. e \in Copy /\ e.id \in Ids /\ \A k \in 1 .. (n + 1) : copies[k] \in Copy
    <2>1. e \in Copy
      BY <1>0
    <2>2. e.id \in Ids
      BY <2>1 DEF Copy
    <2> QED
      BY <1>0, <2>1, <2>2
  <1>2. \A k \in 1 .. (n + 1) : k \in 1 .. n \/ (k = n + 1 /\ copies[k] = e)
    OBVIOUS
  <1>3. \A k \in 1 .. n : k \in 1 .. (n + 1)
    OBVIOUS
  <1>4. n + 1 \in 1 .. (n + 1)
    OBVIOUS
  <1>5. /\ \A i \in Ids : i # e.id => m[i] = heap[i]
        /\ IF heap[e.id] = {} \/ \E cur \in heap[e.id] : Outranks(e, cur)
           THEN m[e.id] = {e} ELSE m[e.id] = heap[e.id]
    BY <1>1, KeepTyped
  <1> HIDE DEF m
  <1>6. ASSUME NEW i \in Ids
        PROVE  /\ \A cur \in m[i] : cur.id = i /\ \E k \in 1 .. (n + 1) : copies[k] = cur
               /\ \A k \in 1 .. (n + 1) : copies[k].id = i => \E cur \in m[i] : ~Outranks(copies[k], cur)
               /\ \A a, b \in m[i] : a = b
    <2>1. /\ \A cur \in heap[i] : cur.id = i /\ \E k \in 1 .. n : copies[k] = cur
          /\ \A k \in 1 .. n : copies[k].id = i => \E cur \in heap[i] : ~Outranks(copies[k], cur)
          /\ \A a, b \in heap[i] : a = b
      BY DEF BestKept
    <2>2. heap[i] \subseteq Copy
      BY DEF KeptMaps
    <2> HIDE DEF e
    <2>3. CASE i # e.id
      BY <1>2, <1>3, <1>5, <2>1, <2>3
    <2>4. CASE i = e.id /\ ~(heap[i] = {} \/ \E cur \in heap[i] : Outranks(e, cur))
      <3>1. m[i] = heap[i] /\ \E cur \in heap[i] : ~Outranks(e, cur)
        BY <1>5, <2>4
      <3>2. \A cur \in heap[i] : cur.id = i /\ \E k \in 1 .. (n + 1) : copies[k] = cur
        BY ONLY <1>3, <2>1
      <3>3. \A k \in 1 .. (n + 1) : copies[k].id = i => \E cur \in heap[i] : ~Outranks(copies[k], cur)
        BY ONLY <1>2, <2>1, <3>1
      <3> QED
        BY ONLY <2>1, <3>1, <3>2, <3>3
    <2>5. CASE i = e.id /\ (heap[i] = {} \/ \E cur \in heap[i] : Outranks(e, cur))
      <3>1. m[i] = {e}
        BY <1>5, <2>5
      <3>2. ASSUME NEW k \in 1 .. n, copies[k].id = i
            PROVE  ~Outranks(copies[k], e)
        <4>1. PICK cur \in heap[i] : ~Outranks(copies[k], cur)
          BY <2>1, <3>2
        <4>2. Outranks(e, cur)
          BY <2>1, <2>5, <4>1
        <4>3. cur \in Copy /\ copies[k] \in Copy
          BY <1>1, <1>3, <2>2, <4>1
        <4> QED
          BY <1>1, <4>1, <4>2, <4>3, OutranksOrders
      <3>3. ~Outranks(e, e)
        BY <1>1, OutranksOrders
      <3>4. e.id = i /\ copies[n + 1] = e
        BY <2>5 DEF e
      <3> QED
        BY <1>2, <1>4, <3>1, <3>2, <3>3, <3>4
    <2> QED
      BY <2>3, <2>4, <2>5
  <1> QED
    BY <1>6 DEF BestKept, m

\* What is kept in the end is the best.
LEMMA CollapsedBest ==
    ASSUME NEW copies \in Seq(Copy)
    PROVE  Collapsed(copies) \in KeptMaps /\ BestKept(Collapsed(copies), copies, Len(copies))
  <1> DEFINE N == Len(copies)
             heap == Collapsing(copies)
             T == {n \in 0 .. N : BestKept(heap[n], copies, n)}
  <1>1. N \in Nat
    OBVIOUS
  <1>2. /\ heap \in [0 .. N -> KeptMaps] /\ heap[0] = [i \in Ids |-> {}]
        /\ \A n \in 1 .. N : heap[n] = Keep(heap[n - 1], copies[n])
    BY CollapsesStepwise
  <1> HIDE DEF heap
  <1>3. 0 \in T
    BY <1>1, <1>2 DEF BestKept
  <1>4. ASSUME NEW n \in 0 .. (N - 1), n \in T
        PROVE  n + 1 \in T
    <2>1. /\ n \in Nat /\ n \in 0 .. N /\ n + 1 \in 1 .. N /\ (n + 1) - 1 = n /\ n + 1 \in 0 .. N
          /\ n + 1 <= Len(copies)
      BY <1>1
    <2>2. heap[n] \in KeptMaps /\ BestKept(heap[n], copies, n)
      BY <1>2, <1>4, <2>1
    <2>3. BestKept(Keep(heap[n], copies[n + 1]), copies, n + 1)
      BY <2>1, <2>2, BestStays
    <2>4. heap[n + 1] = Keep(heap[n], copies[n + 1])
      BY <1>2, <2>1
    <2> QED
      BY <2>1, <2>3, <2>4
  <1> HIDE DEF T
  <1>5. 0 .. N \subseteq T
    BY <1>1, <1>3, <1>4, ReachedUpTo
  <1>6. N \in 0 .. N
    BY <1>1
  <1> QED
    BY <1>2, <1>5, <1>6 DEF T, heap, Collapsed

CopiesInv == list \in Seq(Copy) /\ first \in Seq(Copy) /\ ToSet(list) = ToSet(first)

LEMMA CopiesInitGood ==
    ASSUME CollapseInit
    PROVE  CopiesInv
  <1>1. PICK n \in 1 .. MaxCopies : list \in [1 .. n -> Copy]
    BY DEF CollapseInit
  <1>2. list \in Seq(Copy)
    BY <1>1
  <1> QED
    BY <1>2 DEF CollapseInit, CopiesInv

LEMMA ReorderGood ==
    ASSUME CopiesInv, Reorder
    PROVE  CopiesInv'
  <1>1. PICK i \in 1 .. (Len(list) - 1) : list' = [list EXCEPT ![i] = list[i + 1], ![i + 1] = list[i]]
    BY DEF Reorder
  <1>2. /\ list \in Seq(Copy) /\ Len(list) \in Nat /\ i \in 1 .. Len(list) /\ i + 1 \in 1 .. Len(list)
        /\ DOMAIN list = 1 .. Len(list) /\ \A k \in 1 .. Len(list) : list[k] \in Copy
    BY DEF CopiesInv
  <1>3. /\ DOMAIN list' = 1 .. Len(list)
        /\ list'[i] = list[i + 1] /\ list'[i + 1] = list[i]
        /\ \A k \in 1 .. Len(list) : k # i /\ k # i + 1 => list'[k] = list[k]
    BY <1>1, <1>2
  <1>4. list' \in Seq(Copy)
    <2>1. list' \in [1 .. Len(list) -> Copy]
      BY <1>1, <1>2
    <2> QED
      BY <1>2, <2>1
  <1>5. ToSet(list') = ToSet(list)
    <2>1. \A x : x \in ToSet(list) <=> \E k \in 1 .. Len(list) : x = list[k]
      BY <1>2 DEF ToSet
    <2>2. \A x : x \in ToSet(list') <=> \E k \in 1 .. Len(list) : x = list'[k]
      BY <1>3 DEF ToSet
    <2>3. ASSUME NEW k \in 1 .. Len(list)
          PROVE  list[k] \in ToSet(list') /\ list'[k] \in ToSet(list)
      BY <1>2, <1>3, <2>1, <2>2
    <2> QED
      BY <2>1, <2>2, <2>3
  <1> QED
    BY <1>4, <1>5 DEF CopiesInv, Reorder

LEMMA CopiesSound ==
    ASSUME CopiesInv
    PROVE  CollapseSound
  <1> DEFINE a == Collapsed(list)
             b == Collapsed(first)
  <1>1. a \in KeptMaps /\ BestKept(a, list, Len(list)) /\ b \in KeptMaps /\ BestKept(b, first, Len(first))
    BY CollapsedBest DEF CopiesInv
  <1> HIDE DEF a, b
  <1>2. /\ DOMAIN list = 1 .. Len(list) /\ DOMAIN first = 1 .. Len(first)
        /\ \A k \in DOMAIN list : list[k] \in Copy
        /\ \A k \in DOMAIN first : first[k] \in Copy
    BY DEF CopiesInv
  <1>3. /\ \A k \in DOMAIN list : \E m \in DOMAIN first : first[m] = list[k]
        /\ \A k \in DOMAIN first : \E m \in DOMAIN list : list[m] = first[k]
    BY DEF CopiesInv, ToSet
  <1>4. ASSUME NEW i \in Ids
        PROVE  {<<e.at, e.progress>> : e \in a[i]} = {<<e.at, e.progress>> : e \in b[i]}
    <2>1. ASSUME NEW x \in a[i]
          PROVE  \E y \in b[i] : y.at = x.at /\ y.progress = x.progress
      <3>1. x.id = i /\ \E k \in DOMAIN list : list[k] = x
        BY <1>1, <1>2 DEF BestKept
      <3>2. PICK m \in DOMAIN first : first[m] = x
        BY <1>3, <3>1
      <3>3. PICK y \in b[i] : ~Outranks(x, y)
        BY <1>1, <1>2, <3>1, <3>2 DEF BestKept
      <3>4. y.id = i /\ \E k \in DOMAIN first : first[k] = y
        BY <1>1, <1>2 DEF BestKept
      <3>5. PICK n \in DOMAIN list : list[n] = y
        BY <1>3, <3>4
      <3>6. PICK z \in a[i] : ~Outranks(y, z)
        BY <1>1, <1>2, <3>4, <3>5 DEF BestKept
      <3>7. z = x
        BY <1>1 DEF BestKept
      <3>8. x \in Copy /\ y \in Copy
        BY <1>2, <3>1, <3>4
      <3> QED
        BY <3>3, <3>6, <3>7, <3>8, OutranksOrders
    <2>2. ASSUME NEW x \in b[i]
          PROVE  \E y \in a[i] : y.at = x.at /\ y.progress = x.progress
      <3>1. x.id = i /\ \E k \in DOMAIN first : first[k] = x
        BY <1>1, <1>2 DEF BestKept
      <3>2. PICK m \in DOMAIN list : list[m] = x
        BY <1>3, <3>1
      <3>3. PICK y \in a[i] : ~Outranks(x, y)
        BY <1>1, <1>2, <3>1, <3>2 DEF BestKept
      <3>4. y.id = i /\ \E k \in DOMAIN list : list[k] = y
        BY <1>1, <1>2 DEF BestKept
      <3>5. PICK n \in DOMAIN first : first[n] = y
        BY <1>3, <3>4
      <3>6. PICK z \in b[i] : ~Outranks(y, z)
        BY <1>1, <1>2, <3>4, <3>5 DEF BestKept
      <3>7. z = x
        BY <1>1 DEF BestKept
      <3>8. x \in Copy /\ y \in Copy
        BY <1>2, <3>1, <3>4
      <3> QED
        BY <3>3, <3>6, <3>7, <3>8, OutranksOrders
    <2>3. \A x \in a[i] : <<x.at, x.progress>> \in {<<e.at, e.progress>> : e \in b[i]}
      BY <2>1
    <2>4. \A x \in b[i] : <<x.at, x.progress>> \in {<<e.at, e.progress>> : e \in a[i]}
      BY <2>2
    <2> QED
      BY <2>3, <2>4
  <1>5. OrderIndependent
    BY <1>4 DEF OrderIndependent, Ranked, a, b
  <1>6. ASSUME NEW n \in DOMAIN list
        PROVE  /\ \A cur \in a[list[n].id] : cur.at >= list[n].at
               /\ \E cur \in a[list[n].id] : cur \in ToSet(list)
    <2> DEFINE e == list[n]
    <2>1. e \in Copy /\ e.id \in Ids
      BY <1>2 DEF Copy
    <2>2. PICK cur \in a[e.id] : ~Outranks(e, cur)
      BY <1>1, <1>2, <2>1 DEF BestKept
    <2>3. \A other \in a[e.id] : other = cur
      BY <1>1, <2>1, <2>2 DEF BestKept
    <2>4. \E k \in DOMAIN list : list[k] = cur
      BY <1>1, <1>2, <2>1, <2>2 DEF BestKept
    <2>5. cur \in Copy
      BY <1>2, <2>4
    <2>6. cur.at >= e.at
      BY <2>1, <2>2, <2>5, OutranksOrders
    <2> QED
      BY <2>2, <2>3, <2>4, <2>6 DEF ToSet
  <1>7. NewestKept
    BY <1>6 DEF NewestKept, a
  <1> QED
    BY <1>5, <1>7 DEF CollapseSound

\* Of the copies of an entry in a pulled list the newest is kept, in whatever order the
\* groups that repeat it arrive (reconcile_plan).
THEOREM CollapsesAreSound == CollapseSpec => []CollapseSound
  <1>1. CollapseInit => CopiesInv
    BY CopiesInitGood
  <1>2. CopiesInv /\ [Reorder]_copiesVars => CopiesInv'
    <2> SUFFICES ASSUME CopiesInv, [Reorder]_copiesVars
                 PROVE  CopiesInv'
      OBVIOUS
    <2>1. CASE Reorder
      BY <2>1, ReorderGood
    <2>2. CASE UNCHANGED copiesVars
      BY <2>2 DEF CopiesInv, copiesVars
    <2> QED
      BY <2>1, <2>2
  <1>3. CopiesInv => CollapseSound
    BY CopiesSound
  <1> QED
    BY <1>1, <1>2, <1>3, PTL DEF CollapseSpec

-----------------------------------------------------------------------------
(***************************************************************************)
(* Bringing over the library of the predecessor.                           *)
(***************************************************************************)
ListStatuses == {"planning", "watching"}
Sums == [status : {"none"} \cup ListStatuses, best : Int \X Nat, progress : Nat, visible : BOOLEAN,
         bindings : SUBSET (ZigProviders \X LegacyIds)]

Summed(e, r, s) == IF r.id = s THEN FoldedSibling(e, r) ELSE e

LEMMA SumFields ==
    ASSUME NEW e \in Sums
    PROVE  /\ e.status \in {"none"} \cup ListStatuses /\ e.best \in Int \X Nat /\ e.progress \in Nat
           /\ e.visible \in BOOLEAN /\ e.bindings \subseteq ZigProviders \X LegacyIds
           /\ e.best[1] \in Int /\ e.best[2] \in Nat /\ e.best = <<e.best[1], e.best[2]>>
  <1>1. /\ e.status \in {"none"} \cup ListStatuses /\ e.best \in Int \X Nat /\ e.progress \in Nat
        /\ e.visible \in BOOLEAN /\ e.bindings \subseteq ZigProviders \X LegacyIds
    BY DEF Sums
  <1> QED
    BY <1>1

LEMMA RowFields ==
    ASSUME NEW r \in ZigRow
    PROVE  /\ r.id \in LegacyIds /\ r.source \in Sources /\ r.listing \in LegacyIds /\ r.status \in ListStatuses
           /\ r.seen \in {-1, 1} /\ r.progress \in Nat /\ r.visible \in BOOLEAN
  BY DEF ZigRow, ListStatuses

\* One more sibling: the higher rank donates the status, the rest adds up.
LEMMA SiblingFolds ==
    ASSUME NEW e \in Sums, NEW r \in ZigRow
    PROVE  LET f == FoldedSibling(e, r)
               wins == RankAtLeast(SiblingRank(r), e.best)
           IN  /\ f \in Sums
               /\ wins => f.status = r.status /\ f.best = SiblingRank(r)
               /\ ~wins => f.status = e.status /\ f.best = e.best
               /\ f.progress = LargerOf(e.progress, r.progress)
               /\ f.visible = (e.visible \/ r.visible)
               /\ f.bindings = e.bindings \cup ZigBindings(r)
  <1> DEFINE f == FoldedSibling(e, r)
             wins == RankAtLeast(SiblingRank(r), e.best)
             status == IF wins THEN r.status ELSE e.status
             best == IF wins THEN SiblingRank(r) ELSE e.best
             most == LargerOf(e.progress, r.progress)
             visible == e.visible \/ r.visible
             bindings == e.bindings \cup ZigBindings(r)
  <1>1. f = [status |-> status, best |-> best, progress |-> most, visible |-> visible, bindings |-> bindings]
    BY DEF FoldedSibling
  <1>2. status \in {"none"} \cup ListStatuses
    BY SumFields, RowFields
  <1>3. best \in Int \X Nat
    BY SumFields, RowFields DEF SiblingRank
  <1>4. most \in Nat
    BY SumFields, RowFields DEF LargerOf
  <1>5. visible \in BOOLEAN
    BY SumFields, RowFields
  <1>6. bindings \subseteq ZigProviders \X LegacyIds
    BY SumFields, RowFields DEF ZigBindings, ZigProviders
  <1>7. (wins => status = r.status /\ best = SiblingRank(r)) /\ (~wins => status = e.status /\ best = e.best)
    OBVIOUS
  <1> HIDE DEF f, status, best, most, visible, bindings
  <1>8. f \in Sums
    BY <1>1, <1>2, <1>3, <1>4, <1>5, <1>6 DEF Sums
  <1>9. /\ f.status = status /\ f.best = best /\ f.progress = most /\ f.visible = visible
        /\ f.bindings = bindings
    BY <1>1
  <1> QED
    BY <1>7, <1>8, <1>9 DEF f, most, visible, bindings

LEMMA SummedGood ==
    ASSUME NEW e \in Sums, NEW r \in ZigRow, NEW s
    PROVE  Summed(e, r, s) \in Sums
  BY SiblingFolds DEF Summed

\* The rows are folded one after the other.
LEMMA FoldsStepwise ==
    ASSUME NEW rows \in Seq(ZigRow), NEW s
    PROVE  /\ Folding(rows, s) \in [0 .. Len(rows) -> Sums]
           /\ Folding(rows, s)[0] = NoShow
           /\ \A n \in 1 .. Len(rows) : Folding(rows, s)[n] = Summed(Folding(rows, s)[n - 1], rows[n], s)
  <1> DEFINE N == Len(rows)
             step == [n \in 1 .. N |-> [e \in Sums |-> Summed(e, rows[n], s)]]
  <1>1. N \in Nat /\ \A n \in 1 .. N : rows[n] \in ZigRow
    OBVIOUS
  <1>2. NoShow \in Sums
    BY DEF NoShow, NoRank, Sums
  <1>3. step \in StepFunctions(N, Sums)
    BY <1>1, SummedGood DEF StepFunctions
  <1>4. \A n \in 1 .. N, e \in Sums : step[n][e] = Summed(e, rows[n], s)
    OBVIOUS
  <1> HIDE DEF step, N
  <1>5. PICK f \in [0 .. N -> Sums] : MadeUpTo(N, f, NoShow, step)
    BY <1>1, <1>2, <1>3, Recursion
  <1>6. ASSUME NEW n \in 0 .. N
        PROVE  (IF n = 0 THEN NoShow ELSE step[n][f[n - 1]])
             = (IF n = 0 THEN NoShow ELSE Summed(f[n - 1], rows[n], s))
    <2>1. CASE n # 0
      <3>1. n \in 1 .. N /\ n - 1 \in 0 .. N
        BY <1>1, <2>1
      <3>2. f[n - 1] \in Sums
        BY <3>1
      <3> QED
        BY <1>4, <2>1, <3>1, <3>2
    <2> QED
      BY <2>1
  <1>7. f = [n \in 0 .. N |-> IF n = 0 THEN NoShow ELSE Summed(f[n - 1], rows[n], s)]
    BY <1>5, <1>6 DEF MadeUpTo
  <1> DEFINE Folds(g) == g = [n \in 0 .. N |-> IF n = 0 THEN NoShow ELSE Summed(g[n - 1], rows[n], s)]
  <1>8. Folding(rows, s) = CHOOSE g : Folds(g)
    BY DEF Folding, N, Summed
  <1>9. Folds(f)
    BY <1>7
  <1> HIDE DEF Folds
  <1>10. Folds(Folding(rows, s))
    BY <1>8, <1>9
  <1> DEFINE folded == Folding(rows, s)
  <1>11. folded = [n \in 0 .. N |-> IF n = 0 THEN NoShow ELSE Summed(folded[n - 1], rows[n], s)]
    BY <1>10 DEF Folds
  <1> HIDE DEF folded
  <1>12. folded[0] = NoShow /\ \A n \in 1 .. N : folded[n] = Summed(folded[n - 1], rows[n], s)
    <2>1. 0 \in 0 .. N /\ \A n \in 1 .. N : n \in 0 .. N /\ n # 0
      BY <1>1
    <2> QED
      BY <1>11, <2>1
  <1> DEFINE T == {n \in 0 .. N : folded[n] \in Sums}
  <1>13. 0 \in T
    BY <1>1, <1>2, <1>12
  <1>14. ASSUME NEW n \in 0 .. (N - 1), n \in T
         PROVE  n + 1 \in T
    <2>1. n + 1 \in 1 .. N /\ (n + 1) - 1 = n /\ n + 1 \in 0 .. N
      BY <1>1
    <2>2. folded[n] \in Sums
      BY <1>14
    <2>3. Summed(folded[n], rows[n + 1], s) \in Sums
      BY <1>1, <2>1, <2>2, SummedGood
    <2> QED
      BY <1>12, <2>1, <2>3
  <1> HIDE DEF T
  <1>15. 0 .. N \subseteq T
    BY <1>1, <1>13, <1>14, ReachedUpTo
  <1>16. folded \in [0 .. N -> Sums]
    BY <1>11, <1>15 DEF T
  <1> QED
    BY <1>12, <1>16 DEF folded, N

-----------------------------------------------------------------------------
\* The places among the first n where a row of id s stands.
MetBy(rows, s, n) == {i \in 1 .. n : rows[i].id = s}

\* What an entry says of the rows it was folded from.
StatusOf(e, rows, met) ==
    /\ met = {} => e.best = NoRank
    /\ met # {} => \E i \in met : rows[i].status = e.status /\ SiblingRank(rows[i]) = e.best
    /\ \A j \in met : RankAtLeast(e.best, SiblingRank(rows[j]))

SumOf(e, rows, met) ==
    /\ \A i \in met : rows[i].progress <= e.progress
    /\ met # {} => \E i \in met : rows[i].progress = e.progress
    /\ met = {} => e.progress = 0
    /\ e.visible <=> \E i \in met : rows[i].visible
    /\ e.bindings = {<<rows[i].source, rows[i].listing>> : i \in {j \in met : rows[j].source \in ZigProviders}}

LEMMA MetGrows ==
    ASSUME NEW rows \in Seq(ZigRow), NEW s, NEW n \in Nat, n + 1 <= Len(rows)
    PROVE  /\ rows[n + 1].id = s => MetBy(rows, s, n + 1) = MetBy(rows, s, n) \cup {n + 1}
           /\ rows[n + 1].id # s => MetBy(rows, s, n + 1) = MetBy(rows, s, n)
  <1>1. \A i \in 1 .. (n + 1) : i \in 1 .. n \/ i = n + 1
    OBVIOUS
  <1>2. 1 .. n \subseteq 1 .. (n + 1) /\ n + 1 \in 1 .. (n + 1)
    OBVIOUS
  <1> QED
    BY <1>1, <1>2 DEF MetBy

LEMMA RanksOrder ==
    ASSUME NEW a \in Int \X Nat, NEW b \in Int \X Nat, NEW c \in Int \X Nat
    PROVE  /\ RankAtLeast(a, a)
           /\ RankAtLeast(a, b) /\ RankAtLeast(b, c) => RankAtLeast(a, c)
           /\ RankAtLeast(a, b) \/ RankAtLeast(b, a)
  <1>1. {a[1], b[1], c[1]} \subseteq Int /\ {a[2], b[2], c[2]} \subseteq Nat
    OBVIOUS
  <1> QED
    BY <1>1 DEF RankAtLeast

\* One more row of the id.
LEMMA SumGrows ==
    ASSUME NEW rows \in Seq(ZigRow), NEW e \in Sums, NEW n \in 1 .. Len(rows), NEW met \in SUBSET (1 .. Len(rows)),
           StatusOf(e, rows, met), SumOf(e, rows, met)
    PROVE  /\ StatusOf(FoldedSibling(e, rows[n]), rows, met \cup {n})
           /\ SumOf(FoldedSibling(e, rows[n]), rows, met \cup {n})
  <1> DEFINE r == rows[n]
             f == FoldedSibling(e, r)
             more == met \cup {n}
             wins == RankAtLeast(SiblingRank(r), e.best)
  <1>1. r \in ZigRow /\ \A j \in met : rows[j] \in ZigRow
    OBVIOUS
  <1>2. /\ f \in Sums
        /\ wins => f.status = r.status /\ f.best = SiblingRank(r)
        /\ ~wins => f.status = e.status /\ f.best = e.best
        /\ f.progress = LargerOf(e.progress, r.progress)
        /\ f.visible = (e.visible \/ r.visible)
        /\ f.bindings = e.bindings \cup ZigBindings(r)
    BY <1>1, SiblingFolds
  <1>3. /\ e.best \in Int \X Nat /\ SiblingRank(r) \in Int \X Nat
        /\ \A j \in met : SiblingRank(rows[j]) \in Int \X Nat
        /\ SiblingRank(r)[1] \in {-1, 1} /\ e.progress \in Nat /\ r.progress \in Nat
        /\ e.visible \in BOOLEAN /\ r.visible \in BOOLEAN
        /\ \A j \in met : rows[j].progress \in Nat /\ rows[j].visible \in BOOLEAN
    <2>1. ASSUME NEW z \in ZigRow
          PROVE  SiblingRank(z) \in Int \X Nat /\ z.progress \in Nat /\ z.visible \in BOOLEAN
      BY RowFields DEF SiblingRank
    <2>2. SiblingRank(r)[1] \in {-1, 1}
      BY RowFields DEF SiblingRank
    <2> QED
      BY <1>1, <2>1, <2>2, SumFields
  <1> HIDE DEF f, wins
  <1>4. StatusOf(f, rows, more)
    <2>1. CASE wins
      <3>1. f.status = rows[n].status /\ f.best = SiblingRank(rows[n]) /\ n \in more
        BY <1>2, <2>1
      <3>2. RankAtLeast(f.best, SiblingRank(r))
        BY <1>3, <3>1, RanksOrder
      <3>3. ASSUME NEW j \in met
            PROVE  RankAtLeast(f.best, SiblingRank(rows[j]))
        <4>1. RankAtLeast(SiblingRank(r), e.best) /\ RankAtLeast(e.best, SiblingRank(rows[j]))
          BY <2>1 DEF wins, StatusOf
        <4> QED
          BY <1>3, <3>1, <4>1, RanksOrder
      <3> QED
        BY <3>1, <3>2, <3>3 DEF StatusOf
    <2>2. CASE ~wins
      <3>1. f.status = e.status /\ f.best = e.best
        BY <1>2, <2>2
      <3>2. met # {}
        <4>1. RankAtLeast(SiblingRank(r), NoRank)
          BY <1>3 DEF RankAtLeast, NoRank
        <4> QED
          BY <2>2, <4>1 DEF wins, StatusOf
      <3>3. PICK i \in met : rows[i].status = e.status /\ SiblingRank(rows[i]) = e.best
        BY <3>2 DEF StatusOf
      <3>4. RankAtLeast(e.best, SiblingRank(r))
        BY <1>3, <2>2, RanksOrder DEF wins
      <3>5. \A j \in met : RankAtLeast(e.best, SiblingRank(rows[j]))
        BY DEF StatusOf
      <3> QED
        BY <3>1, <3>3, <3>4, <3>5 DEF StatusOf
    <2> QED
      BY <2>1, <2>2
  <1>5. \A i \in more : rows[i].progress <= f.progress
    <2>1. \A i \in met : rows[i].progress <= e.progress
      BY DEF SumOf
    <2>2. f.progress \in Nat /\ e.progress <= f.progress /\ r.progress <= f.progress
      BY <1>2, <1>3 DEF LargerOf
    <2>3. ASSUME NEW i \in met
          PROVE  rows[i].progress <= f.progress
      BY <1>3, <2>1, <2>2
    <2> QED
      BY <2>2, <2>3
  <1>6. \E i \in more : rows[i].progress = f.progress
    <2>1. CASE e.progress >= r.progress /\ met # {}
      <3>1. f.progress = e.progress
        BY <1>2, <2>1 DEF LargerOf
      <3> QED
        BY <2>1, <3>1 DEF SumOf
    <2>2. CASE ~(e.progress >= r.progress)
      <3>1. f.progress = rows[n].progress
        BY <1>2, <2>2 DEF LargerOf
      <3> QED
        BY <3>1
    <2>3. CASE e.progress >= r.progress /\ met = {}
      <3>1. e.progress = 0
        BY <2>3 DEF SumOf
      <3>2. f.progress = rows[n].progress
        BY <1>2, <1>3, <2>3, <3>1 DEF LargerOf
      <3> QED
        BY <3>2
    <2> QED
      BY <2>1, <2>2, <2>3
  <1>7. f.visible <=> \E i \in more : rows[i].visible
    <2>1. e.visible <=> \E i \in met : rows[i].visible
      BY DEF SumOf
    <2> QED
      BY <1>2, <2>1
  <1>8. f.bindings = {<<rows[i].source, rows[i].listing>> : i \in {j \in more : rows[j].source \in ZigProviders}}
    <2>1. e.bindings = {<<rows[i].source, rows[i].listing>> : i \in {j \in met : rows[j].source \in ZigProviders}}
      BY DEF SumOf
    <2>2. r.source \in Sources
      BY <1>1, RowFields
    <2>3. CASE r.source = ZigUnbound
      <3>1. {j \in more : rows[j].source \in ZigProviders} = {j \in met : rows[j].source \in ZigProviders}
        BY <2>3 DEF ZigProviders
      <3> QED
        BY <1>2, <2>1, <2>3, <3>1 DEF ZigBindings
    <2>4. CASE r.source # ZigUnbound
      <3>1. {j \in more : rows[j].source \in ZigProviders} = {j \in met : rows[j].source \in ZigProviders} \cup {n}
        BY <2>2, <2>4 DEF ZigProviders
      <3>2. ZigBindings(r) = {<<rows[n].source, rows[n].listing>>}
        BY <2>4 DEF ZigBindings
      <3> QED
        BY <1>2, <2>1, <3>1, <3>2
    <2> QED
      BY <2>3, <2>4
  <1>9. SumOf(f, rows, more)
    BY <1>5, <1>6, <1>7, <1>8 DEF SumOf
  <1> QED
    BY <1>4, <1>9 DEF f

LEMMA FoldsTruly ==
    ASSUME NEW rows \in Seq(ZigRow), NEW s
    PROVE  /\ FoldSiblings(rows, s) \in Sums
           /\ StatusOf(FoldSiblings(rows, s), rows, MetBy(rows, s, Len(rows)))
           /\ SumOf(FoldSiblings(rows, s), rows, MetBy(rows, s, Len(rows)))
  <1> DEFINE N == Len(rows)
             folded == Folding(rows, s)
             Met(n) == MetBy(rows, s, n)
             T == {n \in 0 .. N : StatusOf(folded[n], rows, Met(n)) /\ SumOf(folded[n], rows, Met(n))}
  <1>1. N \in Nat /\ \A n \in 1 .. N : rows[n] \in ZigRow
    OBVIOUS
  <1>2. /\ folded \in [0 .. N -> Sums] /\ folded[0] = NoShow
        /\ \A n \in 1 .. N : folded[n] = Summed(folded[n - 1], rows[n], s)
    BY FoldsStepwise
  <1> HIDE DEF folded
  <1>3. 0 \in T
    <2>1. Met(0) = {}
      BY DEF MetBy
    <2>2. StatusOf(NoShow, rows, {}) /\ SumOf(NoShow, rows, {})
      BY DEF StatusOf, SumOf, NoShow
    <2>3. StatusOf(folded[0], rows, Met(0)) /\ SumOf(folded[0], rows, Met(0))
      BY <1>2, <2>1, <2>2
    <2> QED
      BY <1>1, <2>3
  <1>4. ASSUME NEW n \in 0 .. (N - 1), n \in T
        PROVE  n + 1 \in T
    <2>1. /\ n \in Nat /\ n \in 0 .. N /\ n + 1 \in 1 .. N /\ (n + 1) - 1 = n /\ n + 1 \in 0 .. N
          /\ n + 1 <= Len(rows)
      BY <1>1
    <2>2. folded[n] \in Sums /\ StatusOf(folded[n], rows, Met(n)) /\ SumOf(folded[n], rows, Met(n))
      BY <1>2, <1>4, <2>1
    <2>3. folded[n + 1] = Summed(folded[n], rows[n + 1], s)
      BY <1>2, <2>1
    <2>4. Met(n) \in SUBSET (1 .. Len(rows))
      BY <1>1, <2>1 DEF MetBy
    <2>5. CASE rows[n + 1].id = s
      <3>1. Met(n + 1) = Met(n) \cup {n + 1}
        <4>1. \A m \in Nat : m + 1 <= Len(rows) /\ rows[m + 1].id = s => MetBy(rows, s, m + 1) = MetBy(rows, s, m) \cup {m + 1}
          BY MetGrows
        <4> QED
          BY <2>1, <2>5, <4>1
      <3>2. folded[n + 1] = FoldedSibling(folded[n], rows[n + 1])
        BY <2>3, <2>5 DEF Summed
      <3> HIDE DEF Met
      <3>3. /\ StatusOf(FoldedSibling(folded[n], rows[n + 1]), rows, Met(n) \cup {n + 1})
            /\ SumOf(FoldedSibling(folded[n], rows[n + 1]), rows, Met(n) \cup {n + 1})
        BY <2>1, <2>2, <2>4, SumGrows
      <3> QED
        BY <2>1, <3>1, <3>2, <3>3
    <2>6. CASE rows[n + 1].id # s
      <3>1. Met(n + 1) = Met(n)
        BY <2>1, <2>6, MetGrows
      <3>2. folded[n + 1] = folded[n]
        BY <2>3, <2>6 DEF Summed
      <3> QED
        BY <2>1, <2>2, <3>1, <3>2
    <2> QED
      BY <2>5, <2>6
  <1> HIDE DEF T
  <1>5. 0 .. N \subseteq T
    BY <1>1, <1>3, <1>4, ReachedUpTo
  <1>6. N \in T /\ N \in 0 .. N
    BY <1>1, <1>5
  <1> QED
    BY <1>2, <1>6 DEF T, folded, FoldSiblings, N

\* The fold against its reference.
LEMMA FoldsHonestly ==
    ASSUME zig \in Seq(ZigRow)
    PROVE  FoldHonest
  <1>1. DOMAIN zig = 1 .. Len(zig) /\ \A j \in DOMAIN zig : zig[j] \in ZigRow
    OBVIOUS
  <1>2. ASSUME NEW s \in LegacyIds
        PROVE  /\ FoldSiblings(zig, s).visible <=> \E r \in RowsOf(s) : r.visible
               /\ FoldSiblings(zig, s).visible =>
                    /\ \E r \in RowsOf(s) :
                          /\ r.status = FoldSiblings(zig, s).status
                          /\ \A q \in RowsOf(s) : r.seen > q.seen \/ (r.seen = q.seen /\ r.progress >= q.progress)
                    /\ \A r \in RowsOf(s) : r.progress <= FoldSiblings(zig, s).progress
                    /\ \E r \in RowsOf(s) : r.progress = FoldSiblings(zig, s).progress
                    /\ FoldSiblings(zig, s).bindings =
                          {<<r.source, r.listing>> : r \in {q \in RowsOf(s) : q.source \in ZigProviders}}
    <2> DEFINE e == FoldSiblings(zig, s)
               met == MetBy(zig, s, Len(zig))
    <2>1. e \in Sums /\ StatusOf(e, zig, met) /\ SumOf(e, zig, met)
      BY FoldsTruly
    <2>2. /\ \A i \in met : zig[i] \in RowsOf(s) /\ zig[i] \in ZigRow
          /\ \A r \in RowsOf(s) : \E i \in met : zig[i] = r
      BY <1>1 DEF RowsOf, MetBy
    <2> HIDE DEF e, met
    <2>3. e.visible <=> \E r \in RowsOf(s) : r.visible
      <3>1. e.visible <=> \E i \in met : zig[i].visible
        BY <2>1 DEF SumOf
      <3> QED
        BY <2>2, <3>1
    <2>4. ASSUME met # {}
          PROVE  \E r \in RowsOf(s) :
                    /\ r.status = e.status
                    /\ \A q \in RowsOf(s) : r.seen > q.seen \/ (r.seen = q.seen /\ r.progress >= q.progress)
      <3>1. PICK i \in met : zig[i].status = e.status /\ SiblingRank(zig[i]) = e.best
        BY <2>1, <2>4 DEF StatusOf
      <3>2. ASSUME NEW q \in RowsOf(s)
            PROVE  zig[i].seen > q.seen \/ (zig[i].seen = q.seen /\ zig[i].progress >= q.progress)
        <4>1. PICK j \in met : zig[j] = q
          BY <2>2
        <4>2. RankAtLeast(SiblingRank(zig[i]), SiblingRank(zig[j]))
          BY <2>1, <3>1 DEF StatusOf
        <4> QED
          BY <4>1, <4>2 DEF RankAtLeast, SiblingRank
      <3> QED
        BY <2>2, <3>1, <3>2
    <2>5. \A r \in RowsOf(s) : r.progress <= e.progress
      BY <2>1, <2>2 DEF SumOf
    <2>6. met # {} => \E r \in RowsOf(s) : r.progress = e.progress
      BY <2>1, <2>2 DEF SumOf
    <2>7. e.bindings = {<<r.source, r.listing>> : r \in {q \in RowsOf(s) : q.source \in ZigProviders}}
      <3> DEFINE there == {j \in met : zig[j].source \in ZigProviders}
                 rows == {q \in RowsOf(s) : q.source \in ZigProviders}
      <3>1. e.bindings = {<<zig[i].source, zig[i].listing>> : i \in there}
        BY <2>1 DEF SumOf
      <3>2. (\A i \in there : zig[i] \in rows) /\ (\A r \in rows : \E i \in there : zig[i] = r)
        BY <2>2
      <3> HIDE DEF there, rows
      <3>3. {<<zig[i].source, zig[i].listing>> : i \in there} = {<<r.source, r.listing>> : r \in rows}
        BY <3>2
      <3> QED
        BY <3>1, <3>3 DEF rows
    <2>8. e.visible => met # {}
      BY <2>2, <2>3
    <2> QED
      BY <2>3, <2>4, <2>5, <2>6, <2>7, <2>8 DEF e
  <1>3. Tracked(zig) = {s \in LegacyIds : \E r \in RowsOf(s) : r.visible}
    BY <1>2 DEF Tracked
  <1> QED
    BY <1>2, <1>3 DEF FoldHonest, Tracked
-----------------------------------------------------------------------------
Boundings == [LegacyIds -> [ZigProviders -> LegacyIds \cup {0}]]

\* A listing has one owner.
Owned(b) == \A p \in ZigProviders, s, t \in LegacyIds : s # t /\ b[s][p] # 0 => b[s][p] # b[t][p]

\* What was bound stays as it was, and only the shows that land are touched.
Spared(b, bound, todo) ==
    /\ \A t \in LegacyIds \ todo : b[t] = bound[t]
    /\ \A t \in LegacyIds, p \in ZigProviders : bound[t][p] # 0 => b[t][p] = bound[t][p]

LEMMA PairsLand ==
    ASSUME NEW b \in Boundings, NEW s \in LegacyIds, NEW pairs \in SUBSET (ZigProviders \X LegacyIds),
           NEW c \in LandedPairs(b, s, pairs), Owned(b)
    PROVE  /\ c \in Boundings /\ Owned(c) /\ \A t \in LegacyIds \ {s} : c[t] = b[t]
           /\ \A t \in LegacyIds, p \in ZigProviders : b[t][p] # 0 => c[t][p] = b[t][p]
  <1>1. c \in Boundings /\ \A t \in LegacyIds \ {s} : c[t] = b[t]
    BY DEF LandedPairs, Boundings
  <1>2. ASSUME NEW p \in ZigProviders
        PROVE  \/ c[s][p] = b[s][p]
               \/ b[s][p] = 0 /\ c[s][p] # 0 /\ \A t \in LegacyIds : b[t][p] # c[s][p]
    <2> DEFINE free == {q \in pairs : q[1] = p /\ FreePair(b, s, q)}
    <2>1. IF free = {} THEN c[s][p] = b[s][p] ELSE <<p, c[s][p]>> \in free
      BY DEF LandedPairs
    <2>2. CASE free = {}
      BY <2>1, <2>2
    <2>3. CASE free # {}
      <3>1. <<p, c[s][p]>> \in pairs /\ FreePair(b, s, <<p, c[s][p]>>)
        BY <2>1, <2>3
      <3>2. c[s][p] \in LegacyIds
        BY <3>1
      <3>3. c[s][p] # 0
        BY <3>2, LegacyAssumption DEF LegacyIds
      <3> QED
        BY <3>1, <3>3 DEF FreePair
    <2> QED
      BY <2>2, <2>3
  <1>3. Owned(c)
    <2> SUFFICES ASSUME NEW p \in ZigProviders, NEW u \in LegacyIds, NEW t \in LegacyIds, u # t, c[u][p] # 0
                 PROVE  c[u][p] # c[t][p]
      BY DEF Owned
    <2>1. CASE u = s
      BY <1>1, <1>2, <2>1 DEF Owned
    <2>2. CASE t = s
      BY <1>1, <1>2, <2>2 DEF Owned
    <2>3. CASE u # s /\ t # s
      BY <1>1, <2>3 DEF Owned
    <2> QED
      BY <2>1, <2>2, <2>3
  <1>4. \A t \in LegacyIds, p \in ZigProviders : b[t][p] # 0 => c[t][p] = b[t][p]
    BY <1>1, <1>2
  <1> QED
    BY <1>1, <1>3, <1>4

\* The bindings once one more id had its turn.
Landed(rows, todo, n, may) ==
    IF n \in todo THEN UNION {LandedPairs(b, n, FoldSiblings(rows, n).bindings) : b \in may} ELSE may

LEMMA LandedBoundings ==
    ASSUME NEW rows, NEW todo, NEW n, NEW may \in SUBSET Boundings
    PROVE  Landed(rows, todo, n, may) \in SUBSET Boundings
  BY DEF Landed, LandedPairs, Boundings

LEMMA LandsStepwise ==
    ASSUME NEW rows, NEW todo, NEW bound \in Boundings
    PROVE  /\ Landing(rows, todo, bound) \in [0 .. MaxLegacyId -> SUBSET Boundings]
           /\ Landing(rows, todo, bound)[0] = {bound}
           /\ \A n \in 1 .. MaxLegacyId :
                 Landing(rows, todo, bound)[n] = Landed(rows, todo, n, Landing(rows, todo, bound)[n - 1])
  <1> DEFINE N == MaxLegacyId
             S == SUBSET Boundings
             base == {bound}
             step == [n \in 1 .. N |-> [may \in S |-> Landed(rows, todo, n, may)]]
  <1>1. N \in Nat
    BY LegacyAssumption
  <1>2. step \in StepFunctions(N, S)
    BY LandedBoundings DEF StepFunctions
  <1>3. base \in S /\ \A n, may : may \in S => Landed(rows, todo, n, may) \in S
    BY LandedBoundings
  <1>4. \A n \in 1 .. N, may \in S : step[n][may] = Landed(rows, todo, n, may)
    OBVIOUS
  <1> HIDE DEF step, N, S, base
  <1>5. PICK f \in [0 .. N -> S] : MadeUpTo(N, f, base, step)
    BY <1>1, <1>2, <1>3, Recursion
  <1>6. ASSUME NEW n \in 0 .. N
        PROVE  (IF n = 0 THEN base ELSE step[n][f[n - 1]]) = (IF n = 0 THEN base ELSE Landed(rows, todo, n, f[n - 1]))
    <2>1. CASE n # 0
      <3>1. n \in 1 .. N /\ n - 1 \in 0 .. N
        BY <1>1, <2>1
      <3>2. f[n - 1] \in S
        BY <3>1
      <3> QED
        BY <1>4, <2>1, <3>1, <3>2
    <2> QED
      BY <2>1
  <1>7. f = [n \in 0 .. N |-> IF n = 0 THEN base ELSE Landed(rows, todo, n, f[n - 1])]
    BY <1>5, <1>6 DEF MadeUpTo
  <1> DEFINE Piles(g) == g = [n \in 0 .. N |-> IF n = 0 THEN base ELSE Landed(rows, todo, n, g[n - 1])]
  <1>8. Landing(rows, todo, bound) = CHOOSE g : Piles(g)
    BY DEF Landing, N, Landed, base
  <1>9. Piles(f)
    BY <1>7
  <1> HIDE DEF Piles
  <1>10. Piles(Landing(rows, todo, bound))
    BY <1>8, <1>9
  <1> DEFINE piled == Landing(rows, todo, bound)
  <1>11. piled = [n \in 0 .. N |-> IF n = 0 THEN base ELSE Landed(rows, todo, n, piled[n - 1])]
    BY <1>10 DEF Piles
  <1> HIDE DEF piled
  <1>12. piled[0] = base /\ \A n \in 1 .. N : piled[n] = Landed(rows, todo, n, piled[n - 1])
    <2>1. 0 \in 0 .. N /\ \A n \in 1 .. N : n \in 0 .. N /\ n # 0
      BY <1>1
    <2> QED
      BY <1>11, <2>1
  <1> DEFINE T == {n \in 0 .. N : piled[n] \in S}
  <1>13. 0 \in T
    BY <1>1, <1>3, <1>12
  <1>14. ASSUME NEW n \in 0 .. (N - 1), n \in T
         PROVE  n + 1 \in T
    <2>1. n + 1 \in 1 .. N /\ (n + 1) - 1 = n /\ n + 1 \in 0 .. N
      BY <1>1
    <2>2. piled[n] \in S
      BY <1>14
    <2>3. Landed(rows, todo, n + 1, piled[n]) \in S
      BY <1>3, <2>2
    <2> QED
      BY <1>12, <2>1, <2>3
  <1> HIDE DEF T
  <1>15. 0 .. N \subseteq T
    BY <1>1, <1>13, <1>14, ReachedUpTo
  <1>16. piled \in [0 .. N -> S]
    BY <1>11, <1>15 DEF T
  <1> QED
    BY <1>12, <1>16 DEF piled, N, S, base

\* However the bindings land, every listing keeps one owner and what was there stays.
LEMMA LandsSparing ==
    ASSUME NEW rows \in Seq(ZigRow), NEW todo \in SUBSET LegacyIds, NEW bound \in Boundings, Owned(bound),
           NEW c \in Landing(rows, todo, bound)[MaxLegacyId]
    PROVE  c \in Boundings /\ Owned(c) /\ Spared(c, bound, todo)
  <1> DEFINE N == MaxLegacyId
             piled == Landing(rows, todo, bound)
             Sparing(may) == \A b \in may : Owned(b) /\ Spared(b, bound, todo)
             T == {n \in 0 .. N : Sparing(piled[n])}
  <1>1. N \in Nat /\ LegacyIds = 1 .. N
    BY LegacyAssumption DEF LegacyIds
  <1>2. /\ piled \in [0 .. N -> SUBSET Boundings] /\ piled[0] = {bound}
        /\ \A n \in 1 .. N : piled[n] = Landed(rows, todo, n, piled[n - 1])
    BY LandsStepwise
  <1> HIDE DEF piled, N
  <1>3. 0 \in T
    <2>1. Spared(bound, bound, todo)
      BY DEF Spared
    <2> QED
      BY <1>1, <1>2, <2>1
  <1>4. ASSUME NEW n \in 0 .. (N - 1), n \in T
        PROVE  n + 1 \in T
    <2>1. n \in 0 .. N /\ n + 1 \in 1 .. N /\ (n + 1) - 1 = n /\ n + 1 \in 0 .. N
      BY <1>1
    <2>2. piled[n + 1] = Landed(rows, todo, n + 1, piled[n]) /\ piled[n] \in SUBSET Boundings
      BY <1>2, <2>1
    <2>3. Sparing(piled[n])
      BY <1>4
    <2>4. Sparing(piled[n + 1])
      <3>1. CASE n + 1 \notin todo
        <4>1. piled[n + 1] = piled[n]
          BY <2>2, <3>1 DEF Landed
        <4> QED
          BY <2>3, <4>1
      <3>2. CASE n + 1 \in todo
        <4> DEFINE s == n + 1
                   pairs == FoldSiblings(rows, s).bindings
        <4>1. pairs \in SUBSET (ZigProviders \X LegacyIds)
          BY FoldsTruly, SumFields
        <4>2. piled[n + 1] = UNION {LandedPairs(b, s, pairs) : b \in piled[n]}
          BY <2>2, <3>2 DEF Landed
        <4>3. s \in LegacyIds
          BY <1>1, <2>1
        <4> HIDE DEF pairs
        <4>4. ASSUME NEW d \in piled[n + 1]
              PROVE  Owned(d) /\ Spared(d, bound, todo)
          <5>1. PICK b \in piled[n] : d \in LandedPairs(b, s, pairs)
            BY <4>2
          <5>2. b \in Boundings /\ Owned(b) /\ Spared(b, bound, todo)
            BY <2>2, <2>3
          <5> HIDE DEF s
          <5>3. /\ Owned(d) /\ \A t \in LegacyIds \ {s} : d[t] = b[t]
                /\ \A t \in LegacyIds, p \in ZigProviders : b[t][p] # 0 => d[t][p] = b[t][p]
            BY <4>1, <4>3, <5>1, <5>2, PairsLand
          <5>4. \A t \in LegacyIds \ todo : t # s
            BY <3>2 DEF s
          <5>5. Spared(d, bound, todo)
            BY <5>2, <5>3, <5>4 DEF Spared
          <5> QED
            BY <5>3, <5>5
        <4> QED
          BY <4>4
      <3> QED
        BY <3>1, <3>2
    <2> QED
      BY <2>1, <2>4
  <1> HIDE DEF T
  <1>5. 0 .. N \subseteq T
    BY <1>1, <1>3, <1>4, ReachedUpTo
  <1>6. N \in T /\ N \in 0 .. N
    BY <1>1, <1>5
  <1>7. c \in piled[N]
    BY DEF piled, N
  <1> QED
    BY <1>2, <1>6, <1>7 DEF T

-----------------------------------------------------------------------------
HeldRows ==
    {NoRow, BareIdentity} \cup {LegacyRow("member", st, pr) : st \in {"planning", "watching", "own"}, pr \in Nat}

LegacyInv ==
    /\ zig \in Seq(ZigRows) /\ Len(zig) <= MaxZigRows /\ pins \in [LegacyIds -> ZigProviders \cup {"none"}]
    /\ offer \in {"off", "asking", "landing", "burning"} /\ answers \in 0 .. MaxAnswers
    /\ starts \in 0 .. MaxStarts /\ held \in [LegacyIds -> HeldRows] /\ zigBound \in Boundings
    /\ zigLastUse \in [LegacyIds -> ZigProviders \cup {"none"}] /\ burned \in BOOLEAN
    /\ Owned(zigBound) /\ PinsServe

LEMMA ZigRowsTyped ==
    ASSUME zig \in Seq(ZigRows)
    PROVE  zig \in Seq(ZigRow)
  BY LegacyAssumption

LEMMA MemberRow ==
    ASSUME NEW st \in {"planning", "watching", "own"}, NEW pr \in Nat
    PROVE  /\ LegacyRow("member", st, pr) \in HeldRows /\ LegacyRow("member", st, pr).kind = "member"
           /\ LegacyRow("member", st, pr).status = st /\ LegacyRow("member", st, pr).progress = pr
  <1>1. LegacyRow("member", st, pr) \in HeldRows
    BY DEF HeldRows
  <1> QED
    BY <1>1 DEF LegacyRow

LEMMA LegacyTyped ==
    ASSUME LegacyInv
    PROVE  LegacyTypeOK
  <1>1. ASSUME NEW s \in LegacyIds
        PROVE  \/ held[s] \in {NoRow, BareIdentity}
               \/ Membered(s) /\ held[s].status \in {"planning", "watching", "own"} /\ held[s].progress \in Nat
    <2>1. held[s] \in HeldRows
      BY DEF LegacyInv
    <2>2. CASE held[s] \notin {NoRow, BareIdentity}
      <3>1. PICK st \in {"planning", "watching", "own"}, pr \in Nat : held[s] = LegacyRow("member", st, pr)
        BY <2>1, <2>2 DEF HeldRows
      <3> QED
        BY <3>1, MemberRow DEF Membered
    <2> QED
      BY <2>2
  <1> QED
    BY <1>1 DEF LegacyInv, LegacyTypeOK, Boundings

LEMMA LegacyInitGood ==
    ASSUME LegacyInit
    PROVE  LegacyInv
  <1>1. PICK m \in 0 .. MaxZigRows : zig \in [1 .. m -> ZigRows]
    BY DEF LegacyInit, SeqOf
  <1>2. m \in Nat /\ m <= MaxZigRows
    BY LegacyAssumption
  <1>3. zig \in Seq(ZigRows) /\ Len(zig) = m
    BY <1>1, <1>2
  <1>4. held \in [LegacyIds -> HeldRows]
    BY DEF LegacyInit, HeldRows
  <1>5. zigBound \in Boundings /\ Owned(zigBound) /\ PinsServe
    <2>1. zigBound = [s \in LegacyIds |-> NoZigBindings] /\ zigLastUse = [s \in LegacyIds |-> "none"]
      BY DEF LegacyInit
    <2>2. \A s \in LegacyIds, p \in ZigProviders : zigBound[s][p] = 0
      BY <2>1 DEF NoZigBindings
    <2>3. zigBound \in Boundings
      BY <2>1 DEF NoZigBindings, Boundings
    <2> QED
      BY <2>1, <2>2, <2>3 DEF Owned, PinsServe
  <1>6. pins \in [LegacyIds -> ZigProviders \cup {"none"}] /\ offer \in {"off", "asking", "landing", "burning"}
    BY DEF LegacyInit
  <1>7. answers \in 0 .. MaxAnswers /\ starts \in 0 .. MaxStarts
    BY LegacyAssumption DEF LegacyInit
  <1>8. zigLastUse \in [LegacyIds -> ZigProviders \cup {"none"}]
    BY DEF LegacyInit
  <1>9. burned \in BOOLEAN
    BY DEF LegacyInit
  <1> QED
    BY <1>2, <1>3, <1>4, <1>5, <1>6, <1>7, <1>8, <1>9 DEF LegacyInv

\* The prompt leaves the library alone.
LEMMA OfferGood ==
    ASSUME LegacyInv,
           LegacyLaunch \/ Mumbles \/ NoAnswer \/ SaysNo \/ SaysYes \/ LegacyFails \/ BurnsFlag \/ LegacyDies
             \/ UNCHANGED legacyVars
    PROVE  LegacyInv' /\ ~(offer = "landing" /\ offer' = "burning")
  <1>1. UNCHANGED <<zig, pins, held, zigBound, zigLastUse>>
    BY DEF LegacyLaunch, Mumbles, NoAnswer, SaysNo, SaysYes, LegacyFails, BurnsFlag, LegacyDies, legacyVars
  <1>2. /\ offer' \in {"off", "asking", "landing", "burning"} /\ ~(offer = "landing" /\ offer' = "burning")
        /\ burned' \in BOOLEAN
    BY DEF LegacyLaunch, Mumbles, NoAnswer, SaysNo, SaysYes, LegacyFails, BurnsFlag, LegacyDies, legacyVars, LegacyInv
  <1>3. answers' \in 0 .. MaxAnswers /\ starts' \in 0 .. MaxStarts
    BY LegacyAssumption DEF LegacyLaunch, Mumbles, NoAnswer, SaysNo, SaysYes, LegacyFails, BurnsFlag, LegacyDies,
       legacyVars, LegacyInv, Attempts
  <1> QED
    BY <1>1, <1>2, <1>3 DEF LegacyInv, PinsServe

LEMMA UseGood ==
    ASSUME LegacyInv, NEW s \in LegacyIds, LibraryUsed(s)
    PROVE  LegacyInv' /\ offer' = offer
  <1>1. UNCHANGED <<zig, pins, offer, answers, starts, burned>>
    BY DEF LibraryUsed
  <1>2. /\ held \in [LegacyIds -> HeldRows] /\ zigBound \in Boundings /\ Owned(zigBound) /\ PinsServe
        /\ zigLastUse \in [LegacyIds -> ZigProviders \cup {"none"}]
    BY DEF LegacyInv
  <1>3. s # 0
    BY LegacyAssumption DEF LegacyIds
  <1>4. /\ held' \in [LegacyIds -> HeldRows] /\ zigBound' \in Boundings /\ Owned(zigBound') /\ PinsServe'
        /\ zigLastUse' \in [LegacyIds -> ZigProviders \cup {"none"}]
    <2>1. CASE /\ held' = [held EXCEPT ![s] = BareIdentity] /\ UNCHANGED zigLastUse
               /\ \E p \in ZigProviders : /\ \A t \in LegacyIds : zigBound[t][p] # s
                                          /\ zigBound' = [zigBound EXCEPT ![s][p] = s]
      <3>1. PICK p \in ZigProviders : /\ \A t \in LegacyIds : zigBound[t][p] # s
                                      /\ zigBound' = [zigBound EXCEPT ![s][p] = s]
        BY <2>1
      <3>2. held' \in [LegacyIds -> HeldRows]
        BY <1>2, <2>1 DEF HeldRows
      <3>3. /\ zigBound' \in Boundings /\ zigBound'[s][p] = s
            /\ \A t \in LegacyIds, q \in ZigProviders : t # s \/ q # p => zigBound'[t][q] = zigBound[t][q]
        BY <1>2, <3>1 DEF Boundings
      <3>4. Owned(zigBound')
        BY <1>2, <3>1, <3>3 DEF Owned
      <3>5. PinsServe'
        BY <1>2, <1>3, <2>1, <3>3 DEF PinsServe
      <3> QED
        BY <1>2, <2>1, <3>2, <3>3, <3>4, <3>5
    <2>2. CASE held' = [held EXCEPT ![s] = LegacyRow("member", "own", 0)] /\ UNCHANGED <<zigBound, zigLastUse>>
      <3>1. held' \in [LegacyIds -> HeldRows]
        BY <1>2, <2>2, MemberRow
      <3> QED
        BY <1>2, <2>2, <3>1 DEF PinsServe
    <2>3. CASE /\ held' = [held EXCEPT ![s] = NoRow] /\ zigBound' = [zigBound EXCEPT ![s] = NoZigBindings]
               /\ zigLastUse' = [zigLastUse EXCEPT ![s] = "none"]
      <3>1. held' \in [LegacyIds -> HeldRows]
        BY <1>2, <2>3 DEF HeldRows
      <3>2. /\ zigBound' \in Boundings /\ \A q \in ZigProviders : zigBound'[s][q] = 0
            /\ \A t \in LegacyIds : t # s => zigBound'[t] = zigBound[t]
        BY <1>2, <2>3 DEF Boundings, NoZigBindings
      <3>3. Owned(zigBound')
        BY <1>2, <3>2 DEF Owned
      <3>4. /\ zigLastUse' \in [LegacyIds -> ZigProviders \cup {"none"}] /\ zigLastUse'[s] = "none"
            /\ \A t \in LegacyIds : t # s => zigLastUse'[t] = zigLastUse[t]
        BY <1>2, <2>3
      <3>5. PinsServe'
        BY <1>2, <3>2, <3>4 DEF PinsServe
      <3> QED
        BY <3>1, <3>2, <3>3, <3>4, <3>5
    <2> QED
      BY <2>1, <2>2, <2>3 DEF LibraryUsed
  <1> QED
    BY <1>1, <1>4 DEF LegacyInv

\* What an import does to a library: the parts of ImportSparesMembers and OfferKept.
Imported ==
    \A s \in LegacyIds :
        /\ Membered(s) \/ s \notin Tracked(zig) =>
              held'[s] = held[s] /\ zigBound'[s] = zigBound[s] /\ zigLastUse'[s] = zigLastUse[s]
        /\ s \in Tracked(zig) => held'[s].kind = "member"

LEMMA LegacyImportGood ==
    ASSUME LegacyInv, LegacyImports
    PROVE  LegacyInv' /\ Imported
  <1> DEFINE todo == Tracked(zig) \ Skipped
  <1>1. /\ held' = [s \in LegacyIds |-> IF s \in todo THEN ImportedState(FoldSiblings(zig, s)) ELSE held[s]]
        /\ zigBound' \in Landing(zig, todo, zigBound)[MaxLegacyId]
        /\ zigLastUse' = [s \in LegacyIds |->
              IF s \in todo /\ SeedsPin(zigBound', s) THEN pins[s] ELSE zigLastUse[s]]
        /\ offer' = "burning" /\ UNCHANGED <<zig, pins, answers, starts, burned>>
    BY DEF LegacyImports, LandLegacy
  <1>2. /\ zig \in Seq(ZigRow) /\ todo \in SUBSET LegacyIds /\ zigBound \in Boundings /\ Owned(zigBound)
        /\ pins \in [LegacyIds -> ZigProviders \cup {"none"}] /\ held \in [LegacyIds -> HeldRows]
        /\ zigLastUse \in [LegacyIds -> ZigProviders \cup {"none"}] /\ PinsServe
    BY ZigRowsTyped DEF LegacyInv, Tracked
  <1>3. todo = {s \in Tracked(zig) : ~Membered(s)}
    BY <1>2 DEF Skipped, Tracked
  <1>4. \A s \in todo : FoldSiblings(zig, s).visible
    BY DEF Tracked
  <1> HIDE DEF todo
  <1>5. zigBound' \in Boundings /\ Owned(zigBound') /\ Spared(zigBound', zigBound, todo)
    BY <1>1, <1>2, LandsSparing
  <1>6. ASSUME NEW s \in todo
        PROVE  ImportedState(FoldSiblings(zig, s)) \in HeldRows /\ ImportedState(FoldSiblings(zig, s)).kind = "member"
    <2> DEFINE e == FoldSiblings(zig, s)
               met == MetBy(zig, s, Len(zig))
    <2>1. e \in Sums /\ StatusOf(e, zig, met) /\ SumOf(e, zig, met)
      BY <1>2, FoldsTruly
    <2>2. e.visible
      BY <1>4
    <2>3. \A i \in met : zig[i] \in ZigRow
      BY <1>2 DEF MetBy
    <2> HIDE DEF e, met
    <2>4. PICK i \in met : zig[i].status = e.status
      BY <2>1, <2>2 DEF StatusOf, SumOf
    <2>5. e.status \in {"planning", "watching", "own"} /\ e.progress \in Nat
      BY <2>1, <2>3, <2>4, RowFields, SumFields DEF ListStatuses
    <2> QED
      BY <2>5, MemberRow DEF ImportedState, e
  <1>7. held' \in [LegacyIds -> HeldRows]
    BY <1>1, <1>2, <1>6
  <1>8. zigLastUse' \in [LegacyIds -> ZigProviders \cup {"none"}]
    BY <1>1, <1>2
  <1>9. PinsServe'
    <2> SUFFICES ASSUME NEW s \in LegacyIds, zigLastUse'[s] # "none"
                 PROVE  zigBound'[s][zigLastUse'[s]] # 0
      BY DEF PinsServe
    <2>1. CASE s \in todo /\ SeedsPin(zigBound', s)
      <3>1. zigLastUse'[s] = pins[s]
        BY <1>1, <2>1
      <3> QED
        BY <2>1, <3>1 DEF SeedsPin
    <2>2. CASE ~(s \in todo /\ SeedsPin(zigBound', s))
      <3>1. zigLastUse'[s] = zigLastUse[s]
        BY <1>1, <2>2
      <3>2. zigLastUse[s] \in ZigProviders /\ zigBound[s][zigLastUse[s]] # 0
        BY <1>2, <3>1 DEF PinsServe
      <3>3. zigBound'[s][zigLastUse[s]] = zigBound[s][zigLastUse[s]]
        BY <1>5, <3>2 DEF Spared
      <3> QED
        BY <3>1, <3>2, <3>3
    <2> QED
      BY <2>1, <2>2
  <1>10. LegacyInv'
    BY <1>1, <1>5, <1>7, <1>8, <1>9 DEF LegacyInv
  <1>11. ASSUME NEW s \in LegacyIds, Membered(s) \/ s \notin Tracked(zig)
         PROVE  held'[s] = held[s] /\ zigBound'[s] = zigBound[s] /\ zigLastUse'[s] = zigLastUse[s]
    <2>1. s \notin todo
      BY <1>3, <1>11
    <2> QED
      BY <1>1, <1>5, <2>1 DEF Spared
  <1>12. ASSUME NEW s \in LegacyIds, s \in Tracked(zig)
         PROVE  held'[s].kind = "member"
    <2>1. CASE s \in todo
      BY <1>1, <1>6, <2>1
    <2>2. CASE s \notin todo
      BY <1>1, <1>3, <1>12, <2>2 DEF Membered
    <2> QED
      BY <2>1, <2>2
  <1> QED
    BY <1>10, <1>11, <1>12 DEF Imported

LEMMA LegacyStep ==
    ASSUME LegacyInv, [LegacyNext]_legacyVars
    PROVE  LegacyInv' /\ (offer = "landing" /\ offer' = "burning" => Imported)
  <1>1. CASE LegacyLaunch \/ Mumbles \/ NoAnswer \/ SaysNo \/ SaysYes \/ LegacyFails \/ BurnsFlag \/ LegacyDies
               \/ UNCHANGED legacyVars
    BY <1>1, OfferGood
  <1>2. CASE LegacyImports
    BY <1>2, LegacyImportGood
  <1>3. CASE \E s \in LegacyIds : LibraryUsed(s)
    <2>1. LegacyInv' /\ offer' = offer
      BY <1>3, UseGood
    <2> QED
      BY <2>1
  <1> QED
    BY <1>1, <1>2, <1>3 DEF LegacyNext

\* The import brings over what the old library says, every listing keeps one owner, no
\* show in the library is touched, and the offer is closed only by what it was made for.
THEOREM ImportsAreHonest == LegacySpec => []LegacyTypeOK /\ ImportHonest
  <1>1. LegacyInit => LegacyInv
    BY LegacyInitGood
  <1>2. LegacyInv /\ [LegacyNext]_legacyVars => LegacyInv'
    BY LegacyStep
  <1>3. LegacyInv => LegacyTypeOK /\ FoldHonest /\ OneOwnerImported /\ PinsServe
    BY LegacyTyped, FoldsHonestly, ZigRowsTyped DEF LegacyInv, Owned, OneOwnerImported
  <1>4. LegacyInv /\ [LegacyNext]_legacyVars =>
            [offer = "landing" /\ offer' = "burning" =>
               \A s \in LegacyIds : Membered(s) \/ s \notin Tracked(zig) =>
                   held'[s] = held[s] /\ zigBound'[s] = zigBound[s] /\ zigLastUse'[s] = zigLastUse[s]]_legacyVars
    BY LegacyStep DEF Imported
  <1>5. LegacyInv /\ [LegacyNext]_legacyVars =>
            [offer = "landing" /\ offer' = "burning" =>
               \A s \in Tracked(zig) : held'[s].kind = "member"]_legacyVars
    BY LegacyStep DEF Imported, Tracked
  <1> QED
    BY <1>1, <1>2, <1>3, <1>4, <1>5, PTL DEF LegacySpec, ImportHonest, ImportSparesMembers, OfferKept

-----------------------------------------------------------------------------
(***************************************************************************)
(* The merge of two machines and AniList.                                  *)
(***************************************************************************)
\* What a sync of row r does to the entry, where there is one.
MergedEntry(r) == MergePair(r.snap, r.pair, entry)

LEMMA MergeTyped ==
    ASSUME NEW snap \in Pair \cup {None}, NEW local \in Pair, NEW remote \in Pair
    PROVE  /\ MergePair(snap, local, remote) \in Pair
           /\ Base(snap) \in Pair
           /\ MergePair(snap, local, remote).status = MergeStatus(Base(snap).status, local.status, remote.status)
           /\ MergePair(snap, local, remote).progress
                 = MergeProgress(Base(snap).progress, local.progress, remote.progress)
  <1>1. Base(snap) \in Pair
    BY ProgressAssumption DEF Base, Unset, Pair, ListStatus
  <1>2. MergeStatus(Base(snap).status, local.status, remote.status) \in ListStatus
    BY DEF MergeStatus, Pair
  <1>3. /\ Base(snap).progress \in 0 .. MaxProgress /\ local.progress \in 0 .. MaxProgress
        /\ remote.progress \in 0 .. MaxProgress
    BY <1>1 DEF Pair
  <1>4. MergeProgress(Base(snap).progress, local.progress, remote.progress) \in 0 .. MaxProgress
    BY <1>3, ProgressAssumption DEF MergeProgress, Larger
  <1> QED
    BY <1>1, <1>2, <1>4 DEF MergePair, Pair

\* A progress only one side moved is kept, one nobody moved stays, and an edit is
\* never lowered.
LEMMA MergeKeepsEdits ==
    ASSUME NEW base \in Nat, NEW local \in Nat, NEW remote \in Nat
    PROVE  /\ local = base => MergeProgress(base, local, remote) = remote
           /\ remote = base => MergeProgress(base, local, remote) = local
           /\ local # base => MergeProgress(base, local, remote) >= local
  BY DEF MergeProgress, Larger

\* A member's sync leaves AniList at the merged pair, or at the row's own where AniList
\* has no entry.
LEMMA SyncMerges ==
    ASSUME ReplicasTypeOK, NEW d \in Devices, Sync(d), InLibrary(row[d]), row'[d] # row[d]
    PROVE  entry' = IF entry = None THEN row[d].pair ELSE MergedEntry(row[d])
  <1> DEFINE r == row[d]
  <1>1. r \in Row /\ r # None /\ r.member /\ entry \in Pair \cup {None}
    BY NoneAssumption DEF ReplicasTypeOK, InLibrary
  <1>2. CASE entry = None
    <2>1. Pulled(r, entry) = r
      BY <1>2 DEF Pulled
    <2>2. IsDirty(r)
      BY <2>1 DEF Sync, ReplicasTypeOK
    <2> QED
      BY <1>2, <2>1, <2>2 DEF Sync
  <1>3. CASE entry # None
    <2> DEFINE m == MergedEntry(r)
    <2>1. Pulled(r, entry) = [r EXCEPT !.pair = m, !.snap = entry]
      BY <1>3 DEF Pulled, MergedEntry
    <2>2. m \in Pair
      BY <1>1, <1>3, MergeTyped DEF Row, MergedEntry
    <2> HIDE DEF m
    <2>3. Pulled(r, entry).pair = m /\ Pulled(r, entry).snap = entry
      BY <1>1, <2>1 DEF Row
    <2>4. entry' = m \/ (entry' = entry /\ ~IsDirty(Pulled(r, entry)))
      BY <2>3 DEF Sync
    <2>5. InLibrary(Pulled(r, entry))
      <3>1. Pulled(r, entry) \in Row
        BY <1>1, <1>3, <2>1, <2>2 DEF Row
      <3>2. Pulled(r, entry).member
        BY <1>1, <2>1 DEF Row
      <3> QED
        BY <3>1, <3>2, NoneAssumption DEF InLibrary
    <2> QED
      BY <1>3, <2>3, <2>4, <2>5 DEF IsDirty, m
  <1> QED
    BY <1>2, <1>3

LEMMA SyncTyped ==
    ASSUME ReplicasTypeOK, NEW d \in Devices, Sync(d)
    PROVE  ReplicasTypeOK' /\ edits' = edits /\ \A e \in Devices : e # d => row'[e] = row[e]
  <1> DEFINE r == row[d]
             p == Pulled(r, entry)
  <1>1. r \in Row \cup {None} /\ entry \in Pair \cup {None}
    BY DEF ReplicasTypeOK
  <1>2. p \in Row \cup {None}
    <2>1. CASE InLibrary(r) /\ entry # None
      <3>1. r \in Row
        BY <1>1, <2>1 DEF InLibrary
      <3>2. MergePair(r.snap, r.pair, entry) \in Pair
        BY <1>1, <2>1, <3>1, MergeTyped DEF Row
      <3> QED
        BY <1>1, <2>1, <3>1, <3>2 DEF Pulled, Row
    <2>2. CASE ~InLibrary(r) /\ entry # None
      <3>1. AddToLibrary(r) \in Row
        <4>1. BindProvider(r) \in Row
          BY <1>1, ProgressAssumption DEF BindProvider, Identity, Unset, Row, Pair, ListStatus
        <4> QED
          BY <4>1 DEF AddToLibrary, Row
      <3>2. [AddToLibrary(r) EXCEPT !.pair = entry, !.snap = entry] \in Row
        BY <1>1, <2>2, <3>1 DEF Row
      <3> QED
        BY <1>1, <2>2, <3>2 DEF Pulled
    <2>3. CASE entry = None
      BY <1>1, <2>3 DEF Pulled
    <2> QED
      BY <2>1, <2>2, <2>3
  <1> HIDE DEF p
  <1>3. IsDirty(p) => p \in Row /\ p.pair \in Pair /\ MarkSynced(p, p.pair) \in Row
    BY <1>2 DEF IsDirty, InLibrary, MarkSynced, Row
  <1>4. \E q \in Row \cup {None} : row' = [row EXCEPT ![d] = q]
    BY <1>2, <1>3 DEF Sync, p
  <1>5. entry' \in Pair \cup {None}
    BY <1>1, <1>3 DEF Sync, p
  <1>6. edits' = edits
    BY DEF Sync
  <1> QED
    BY <1>4, <1>5, <1>6 DEF ReplicasTypeOK

LEMMA EditTyped ==
    ASSUME ReplicasTypeOK, NEW d \in Devices, Edit(d)
    PROVE  ReplicasTypeOK' /\ edits' # edits
  <1>1. edits \in Nat /\ edits > 0 /\ edits <= MaxEdits /\ edits' = edits - 1
    BY EditsAssumption DEF ReplicasTypeOK, Edit
  <1>2. edits' # edits /\ edits' \in 0 .. MaxEdits
    BY <1>1, EditsAssumption
  <1>3. \E q \in Row \cup {None} : row' = [row EXCEPT ![d] = q]
    <2>1. CASE ~InLibrary(row[d])
      <3>1. BindProvider(row[d]) \in Row
        BY ProgressAssumption DEF ReplicasTypeOK, BindProvider, Identity, Unset, Row, Pair, ListStatus
      <3>2. AddToLibrary(row[d]) \in Row /\ RecordEngagement(BindProvider(row[d])) \in Row
        BY <3>1 DEF AddToLibrary, RecordEngagement, Row
      <3> QED
        BY <2>1, <3>2 DEF Edit
    <2>2. CASE InLibrary(row[d])
      <3>1. row[d] \in Row
        BY <2>2 DEF ReplicasTypeOK, InLibrary
      <3>2. PICK pair \in Pair : row' = [row EXCEPT ![d].pair = pair]
        BY <2>2 DEF Edit
      <3>3. [row[d] EXCEPT !.pair = pair] \in Row
        BY <3>1 DEF Row
      <3>4. row' = [row EXCEPT ![d] = [row[d] EXCEPT !.pair = pair]]
        BY <3>2
      <3> QED
        BY <3>3, <3>4
    <2> QED
      BY <2>1, <2>2
  <1>4. entry' = entry
    BY DEF Edit
  <1> QED
    BY <1>2, <1>3, <1>4 DEF ReplicasTypeOK

\* The two action properties of one step.
EditWins ==
    \A d \in Devices :
         LET r == row[d]
             base == Base(r.snap)
         IN  (InLibrary(r) /\ row'[d] # r /\ edits' = edits) =>
               /\ r.pair.progress # base.progress =>
                    entry'.progress >= r.pair.progress
               /\ r.pair.status # base.status => entry'.status = r.pair.status

CorrectionArrives ==
    \A d \in Devices :
         LET r == row[d]
             base == Base(r.snap)
         IN  (InLibrary(r) /\ row'[d] # r /\ edits' = edits /\ entry # None) =>
               /\ r.pair.progress = base.progress => entry'.progress = entry.progress
               /\ entry.progress = base.progress => entry'.progress = r.pair.progress

LEMMA ReplicasStep ==
    ASSUME ReplicasTypeOK, ReplicasNext
    PROVE  ReplicasTypeOK' /\ EditWins /\ CorrectionArrives
  <1>1. ASSUME NEW d \in Devices, Edit(d)
        PROVE  ReplicasTypeOK' /\ EditWins /\ CorrectionArrives
    BY <1>1, EditTyped DEF EditWins, CorrectionArrives
  <1>2. ASSUME NEW d \in Devices, Sync(d)
        PROVE  ReplicasTypeOK' /\ EditWins /\ CorrectionArrives
    <2>1. ReplicasTypeOK' /\ \A e \in Devices : e # d => row'[e] = row[e]
      BY <1>2, SyncTyped
    <2> SUFFICES ASSUME InLibrary(row[d]), row'[d] # row[d]
                 PROVE  /\ row[d].pair.progress # Base(row[d].snap).progress =>
                              entry'.progress >= row[d].pair.progress
                        /\ row[d].pair.status # Base(row[d].snap).status => entry'.status = row[d].pair.status
                        /\ entry # None =>
                              /\ row[d].pair.progress = Base(row[d].snap).progress =>
                                    entry'.progress = entry.progress
                              /\ entry.progress = Base(row[d].snap).progress =>
                                    entry'.progress = row[d].pair.progress
      BY <2>1 DEF EditWins, CorrectionArrives
    <2>2. /\ row[d] \in Row /\ row[d].pair \in Pair /\ row[d].snap \in Pair \cup {None}
          /\ entry \in Pair \cup {None}
      BY DEF ReplicasTypeOK, InLibrary, Row
    <2>3. entry' = IF entry = None THEN row[d].pair ELSE MergedEntry(row[d])
      BY <1>2, SyncMerges
    <2>4. row[d].pair.progress \in Nat /\ row[d].pair.status \in ListStatus
      BY <2>2 DEF Pair
    <2>5. CASE entry = None
      BY <2>3, <2>4, <2>5
    <2>6. CASE entry # None
      <3> DEFINE base == Base(row[d].snap)
                 local == row[d].pair
      <3>1. /\ base \in Pair /\ local \in Pair /\ entry \in Pair
            /\ entry'.status = MergeStatus(base.status, local.status, entry.status)
            /\ entry'.progress = MergeProgress(base.progress, local.progress, entry.progress)
        BY <2>2, <2>3, <2>6, MergeTyped DEF MergedEntry
      <3> HIDE DEF base, local
      <3>2. base.progress \in Nat /\ local.progress \in Nat /\ entry.progress \in Nat
        BY <3>1 DEF Pair
      <3>3. /\ local.progress = base.progress => entry'.progress = entry.progress
            /\ entry.progress = base.progress => entry'.progress = local.progress
            /\ local.progress # base.progress => entry'.progress >= local.progress
        BY <3>1, <3>2, MergeKeepsEdits
      <3>4. local.status # base.status => entry'.status = local.status
        BY <3>1 DEF MergeStatus
      <3> QED
        BY <3>3, <3>4 DEF base, local
    <2> QED
      BY <2>5, <2>6
  <1> QED
    BY <1>1, <1>2 DEF ReplicasNext

\* Of the copies of an entry the newest is kept, in whatever order the groups that
\* repeat it arrive (reconcile_plan); and a sync loses no edit the machine has not pushed
\* and no correction of either side (merge_pair).
THEOREM MergesAreSound == ReplicasSpec /\ CollapseSpec => MergeSound
  <1>1. ReplicasInit => ReplicasTypeOK
    BY EditsAssumption DEF ReplicasInit, ReplicasTypeOK
  <1>2. ReplicasTypeOK /\ [ReplicasNext]_replicaVars => ReplicasTypeOK'
    <2>1. ASSUME ReplicasTypeOK, ReplicasNext
          PROVE  ReplicasTypeOK'
      BY <2>1, ReplicasStep
    <2>2. ASSUME ReplicasTypeOK, UNCHANGED replicaVars
          PROVE  ReplicasTypeOK'
      BY <2>2 DEF ReplicasTypeOK, replicaVars
    <2> QED
      BY <2>1, <2>2
  <1>3. ReplicasTypeOK /\ [ReplicasNext]_replicaVars => [EditWins]_replicaVars /\ [CorrectionArrives]_replicaVars
    BY ReplicasStep
  <1>4. ReplicasSpec => [][EditWins]_replicaVars /\ [][CorrectionArrives]_replicaVars
    BY <1>1, <1>2, <1>3, PTL DEF ReplicasSpec
  <1>5. CollapseSpec => []CollapseSound
    BY CollapsesAreSound
  <1> QED
    BY <1>4, <1>5, PTL DEF MergeSound, UnpushedEditWins, CorrectionSurvives, EditWins, CorrectionArrives

-----------------------------------------------------------------------------
(***************************************************************************)
(* The keys and the surfaces.                                              *)
(***************************************************************************)
ModesKept(s) ==
    s = [view |-> s.view, pane |-> s.pane, mode |-> s.mode, wide |-> s.wide, origin |-> s.origin]

\* The keys of a confirm are the only ones heard on its list; what is edited or not
\* yet saved is in the tab of the settings; nothing is armed before the first size.
ScreenInv ==
    /\ ModesKept(screen) /\ screen.origin \in {"browse", "history", "discover"}
    /\ settings = [dirty |-> settings.dirty, editing |-> settings.editing]
    /\ landing = [sized |-> landing.sized, demote |-> landing.demote]
    /\ settings.dirty \/ settings.editing => screen.view = "settings"
    /\ asking # Nobody => OnHistoryList /\ screen.mode = "normal" /\ landing.sized
    /\ ~landing.sized => screen.view = "history"

SessionInv ==
    /\ session = [for |-> session.for, state |-> session.state, own |-> session.own]
    /\ SessionOfSurface

\* The list holds rows of the library, one saved since it was read not yet; the cursor is
\* on one of them.
ListOf(n, rows) ==
    /\ n = [order |-> n.order, cursor |-> n.cursor, filtered |-> n.filtered]
    /\ n.order \in Seq(rows) /\ n.cursor \in 1 .. (IF n.order = <<>> THEN 1 ELSE Len(n.order))

LibraryInv ==
    /\ saved \subseteq Anime /\ Listed \subseteq Anime /\ picked \in Anime \cup {Nobody}
    /\ card \in Anime \cup {Nobody} /\ airing \in Anime \cup {Nobody}
    /\ ListOf(nav, saved) /\ ConfirmUnderCursor /\ UndoHasRow

\* No step of the app deletes the show that plays.
AiringKept == airing # Nobody /\ airing \in saved => airing \in saved'

-----------------------------------------------------------------------------
LEMMA ResizedKept ==
    ASSUME ModesKept(screen), NEW w \in BOOLEAN
    PROVE  ModesKept(Resized(w)) /\ Resized(w).origin = screen.origin
  <1> DEFINE r == Resized(w)
  <1>1. \E p : r = [view |-> screen.view, pane |-> p, mode |-> screen.mode, wide |-> w, origin |-> screen.origin]
    <2>1. CASE w
      <3>1. r = [screen EXCEPT !.wide = w]
        BY <2>1 DEF Resized, ModesKept
      <3> QED
        BY <3>1 DEF ModesKept
    <2>2. CASE ~w
      <3>1. r = [screen EXCEPT !.wide = w, !.pane = "list"]
        BY <2>2 DEF Resized, ModesKept
      <3> QED
        BY <3>1 DEF ModesKept
    <2> QED
      BY <2>1, <2>2
  <1> HIDE DEF r
  <1>2. ModesKept(r) /\ r.origin = screen.origin
    BY <1>1 DEF ModesKept
  <1> QED
    BY <1>2 DEF r

LEMMA FirstScreen ==
    ASSUME ModesKept(screen), screen.origin \in {"browse", "history", "discover"}, FirstSize
    PROVE  ModesKept(screen') /\ screen'.origin \in {"browse", "history", "discover"}
  <1>1. \E w \in BOOLEAN :
           \/ screen' = Resized(w)
           \/ screen' = [Resized(w) EXCEPT !.pane = "detail"]
           \/ screen' = [Resized(w) EXCEPT !.view = "detail", !.origin = "history"]
    <2>1. PICK w \in BOOLEAN :
             \/ screen' = Resized(w)
             \/ \E c \in 1 .. Len(nav.order) :
                   screen' = IF w THEN [Resized(w) EXCEPT !.pane = "detail"]
                             ELSE [Resized(w) EXCEPT !.view = "detail", !.origin = "history"]
      BY ONLY FirstSize DEF FirstSize
    <2> QED
      BY <2>1
  <1>2. PICK w \in BOOLEAN :
           \/ screen' = Resized(w)
           \/ screen' = [Resized(w) EXCEPT !.pane = "detail"]
           \/ screen' = [Resized(w) EXCEPT !.view = "detail", !.origin = "history"]
    BY <1>1
  <1> DEFINE r == Resized(w)
  <1>3. ModesKept(r) /\ r.origin = screen.origin
    BY ResizedKept
  <1> HIDE DEF r
  <1>4. \/ screen' = r
        \/ screen' = [r EXCEPT !.pane = "detail"]
        \/ screen' = [r EXCEPT !.view = "detail", !.origin = "history"]
    BY <1>2 DEF r
  <1> QED
    BY <1>3, <1>4 DEF ModesKept

LEMMA ModesStep ==
    ASSUME ScreenInv, NavNext
    PROVE  ScreenInv'
  <1> USE DEF ScreenInv, ModesKept, OnHistoryList, Nobody
  <1>1. CASE FirstSize
    <2>1. /\ ~landing.sized /\ asking = Nobody /\ ~settings.dirty /\ ~settings.editing
      BY <1>1 DEF FirstSize
    <2>2. UNCHANGED <<asking, settings>> /\ landing'.sized /\ landing' = [sized |-> TRUE, demote |-> landing'.demote]
      <3>1. \E d : landing' = [landing EXCEPT !.sized = TRUE] \/ landing' = [sized |-> TRUE, demote |-> d]
        BY ONLY <1>1 DEF FirstSize
      <3>2. landing'.sized /\ landing' = [sized |-> TRUE, demote |-> landing'.demote]
        BY <3>1
      <3> QED
        BY <1>1, <3>2 DEF FirstSize
    <2>3. ModesKept(screen') /\ screen'.origin \in {"browse", "history", "discover"}
      BY <1>1, FirstScreen
    <2> QED
      BY <2>1, <2>2, <2>3
  <1>2. ASSUME landing.sized, Handles
        PROVE  ScreenInv'
    <2> USE <1>2
    <2>1. ASSUME NEW v \in ListViews, SwitchView(v)
          PROVE  ScreenInv'
      BY <2>1 DEF SwitchView, Keys, Persisted, safetyVars
    <2>2. CASE Back \/ Zoom
      BY <2>2 DEF Back, Zoom, NormalKeys, Keys, MovesTo, Demoted, Zoomed, Focused, safetyVars
    <2>3. CASE Drill
      BY <2>3 DEF Drill, NormalKeys, Keys, MovesTo, Zoomed, safetyVars
    <2>4. CASE MoveCursor \/ EditFilter \/ PlanKey \/ PageLands \/ EnrichmentLands
      BY <2>4 DEF MoveCursor, EditFilter, PlanKey, PageLands, EnrichmentLands, safetyVars
    <2>5. CASE OpenPrompt \/ ClosePrompt
      BY <2>5 DEF OpenPrompt, ClosePrompt, NormalKeys, Keys, safetyVars
    <2>6. CASE ToggleTrack \/ EditSettings \/ CommitEdit
      BY <2>6 DEF ToggleTrack, EditSettings, CommitEdit, NormalKeys, Keys, safetyVars
    <2>7. CASE StatusKeys \/ UndoKey \/ ArmDelete \/ ConfirmKey \/ PlayKey
      BY <2>7 DEF StatusKeys, UndoKey, ArmDelete, ConfirmKey, PlayKey, NormalKeys, Keys
    <2>8. CASE PlayFinishes \/ LateLands
      BY <2>8 DEF PlayFinishes, LateLands
    <2>9. CASE Resize
      BY <2>9 DEF Resize, Resized, safetyVars
    <2>10. CASE WalkLands
      <3>1. UNCHANGED <<asking, settings>> /\ landing'.sized = landing.sized
        BY <2>10 DEF WalkLands, LandingDemotes
      <3>2. landing' = [sized |-> landing'.sized, demote |-> landing'.demote]
        BY <2>10 DEF WalkLands, LandingDemotes
      <3>3. screen' = screen \/ screen' = [screen EXCEPT !.view = IF @ = "detail" THEN "history" ELSE @, !.pane = "list"]
        BY <2>10 DEF WalkLands, LandingDemotes
      <3> QED
        BY <3>1, <3>2, <3>3
    <2> QED
      BY <2>1, <2>2, <2>3, <2>4, <2>5, <2>6, <2>7, <2>8, <2>9, <2>10 DEF Handles
  <1> QED
    BY <1>1, <1>2 DEF NavNext

-----------------------------------------------------------------------------
\* Where the surface is pointed anew, the session is of what it shows.
LEMMA TargetGood ==
    ASSUME SessionInv, NEW s, Target(s) \/ (\E own \in BOOLEAN : TargetAndEngage(s, own))
    PROVE  SessionInv'
  BY DEF SessionInv, SessionOfSurface, Target, TargetAndEngage, SessionFor, NoSession

LEMMA PushGood ==
    ASSUME SessionInv, NEW view, NEW s, Push(view, s)
    PROVE  SessionInv'
  <1>1. CASE Target(s)
    BY <1>1, TargetGood
  <1>2. CASE UNCHANGED shownVars
    BY <1>2 DEF shownVars, SessionInv, SessionOfSurface
  <1> QED
    BY <1>1, <1>2 DEF Push

LEMMA SessionStep ==
    ASSUME SessionInv, NavNext
    PROVE  SessionInv'
  <1>1. ASSUME UNCHANGED <<surface, session>>
        PROVE  SessionInv'
    BY <1>1 DEF SessionInv, SessionOfSurface
  <1>2. CASE FirstSize
    <2>1. CASE UNCHANGED shownVars
      BY <1>1, <2>1 DEF shownVars
    <2>2. ASSUME NEW c \in 1 .. Len(nav.order), TargetAndEngage(nav.order[c], TRUE)
          PROVE  SessionInv'
      BY <2>2, TargetGood
    <2> QED
      BY <1>2, <2>1, <2>2 DEF FirstSize
  <1>3. ASSUME NEW v \in ListViews, SwitchView(v)
        PROVE  SessionInv'
    <2>1. \/ Push(v, picked) \/ Push(v, Selected(nav')) \/ UNCHANGED shownVars
      BY <1>3 DEF SwitchView
    <2> QED
      BY <1>1, <2>1, PushGood DEF shownVars
  <1>4. CASE Drill
    <2>1. \/ TargetAndEngage(Selected(nav), FALSE) \/ TargetAndEngage(picked, FALSE)
          \/ TargetAndEngage(IF card = Nobody THEN surface ELSE card, FALSE)
      BY <1>4 DEF Drill
    <2> QED
      BY <2>1, TargetGood
  <1>5. CASE MoveCursor
    <2>1. Push("history", Selected(nav')) \/ Push("browse", picked') \/ UNCHANGED shownVars
      BY <1>5 DEF MoveCursor
    <2> QED
      BY <1>1, <2>1, PushGood DEF shownVars
  <1>6. CASE OpenPrompt
    <2>1. Push("browse", picked) \/ UNCHANGED shownVars
      BY <1>6 DEF OpenPrompt
    <2> QED
      BY <1>1, <2>1, PushGood DEF shownVars
  <1>7. CASE ToggleTrack
    BY <1>7 DEF ToggleTrack, SessionInv, SessionOfSurface
  <1>8. ASSUME NEW rows, ReloadHistory(rows)
        PROVE  SessionInv'
    <2>1. Push("history", Selected(nav')) \/ UNCHANGED shownVars
      BY <1>8 DEF ReloadHistory
    <2> QED
      BY <1>1, <2>1, PushGood DEF shownVars
  <1>9. CASE StatusKeys \/ UndoKey \/ ConfirmKey \/ PlayFinishes
    <2>1. (\E rows : ReloadHistory(rows)) \/ UNCHANGED shownVars
      BY <1>9 DEF StatusKeys, UndoKey, ConfirmKey, PlayFinishes
    <2> QED
      BY <1>1, <1>8, <2>1 DEF shownVars
  <1>10. CASE PageLands
    <2>1. Push(screen.view, picked') \/ UNCHANGED shownVars
      BY <1>10 DEF PageLands
    <2> QED
      BY <1>1, <2>1, PushGood DEF shownVars
  <1>11. CASE WalkLands
    BY <1>11 DEF WalkLands, SessionInv, SessionOfSurface
  <1>12. CASE Back \/ Zoom \/ EditFilter \/ ClosePrompt \/ EditSettings \/ CommitEdit \/ PlanKey \/ ArmDelete
              \/ PlayKey \/ Resize \/ EnrichmentLands \/ LateLands
    BY <1>1, <1>12 DEF Back, Zoom, EditFilter, ClosePrompt, EditSettings, CommitEdit, PlanKey, ArmDelete,
         PlayKey, Resize, EnrichmentLands, LateLands, shownVars
  <1> QED
    BY <1>2, <1>3, <1>4, <1>5, <1>6, <1>7, <1>9, <1>10, <1>11, <1>12 DEF NavNext, Handles

-----------------------------------------------------------------------------
\* A list of all of a finite set, each once.
LEMMA SeqsOfAll ==
    ASSUME NEW S, IsFiniteSet(S), NEW o \in SetToSeqs(S)
    PROVE  o \in Seq(S) /\ \A s \in S : \E i \in 1 .. Len(o) : o[i] = s
  <1> DEFINE n == Cardinality(S)
             D == 1 .. n
  <1>1. n \in Nat
    BY FS_CardinalityType
  <1>2. o \in [D -> S] /\ \A i, j \in D : i # j => o[i] # o[j]
    BY DEF SetToSeqs
  <1> HIDE DEF n
  <1>3. Cardinality(D) = n
    BY <1>1, FS_Interval
  <1>4. o \in Injection(D, S)
    BY <1>2 DEF Injection, IsInjective
  <1>5. o \in Surjection(D, S)
    BY <1>3, <1>4, FS_Injection DEF n
  <1>6. o \in Seq(S) /\ Len(o) = n
    BY <1>1, <1>2
  <1> QED
    BY <1>5, <1>6 DEF Surjection

LEMMA AnchoredAt ==
    ASSUME NEW S, NEW order \in Seq(S), NEW n, n.cursor \in Nat \ {0}
    PROVE  /\ Anchored(order, n) \in 1 .. (IF order = <<>> THEN 1 ELSE Len(order))
           /\ Selected(n) # Nobody /\ (\E i \in 1 .. Len(order) : order[i] = Selected(n)) =>
                 Anchored(order, n) \in 1 .. Len(order) /\ order[Anchored(order, n)] = Selected(n)
  <1>1. Len(order) \in Nat /\ (order # <<>> => Len(order) # 0)
    OBVIOUS
  <1>2. CASE Selected(n) # Nobody /\ Contains(order, Selected(n))
    <2>1. PICK i \in 1 .. Len(order) : order[i] = Selected(n)
      BY <1>2 DEF Contains
    <2>2. Anchored(order, n) = CHOOSE k \in 1 .. Len(order) : order[k] = Selected(n)
      BY <1>2 DEF Anchored
    <2>3. Anchored(order, n) \in 1 .. Len(order) /\ order[Anchored(order, n)] = Selected(n)
      BY <2>1, <2>2
    <2> QED
      BY <2>3
  <1>3. CASE ~(Selected(n) # Nobody /\ Contains(order, Selected(n)))
    BY <1>1, <1>3 DEF Anchored, Contains
  <1> QED
    BY <1>2, <1>3

\* A list of the kept rows, with the cursor on the show it was on.
LEMMA ListAnew ==
    ASSUME NEW listed, NEW rows, listed \subseteq rows, rows \subseteq Anime, NEW o \in SetToSeqs(listed),
           NEW old, NEW n, n = [order |-> o, cursor |-> Anchored(o, old), filtered |-> n.filtered],
           old.cursor \in Nat \ {0}, ~n.filtered => listed = rows
    PROVE  ListOf(n, rows) /\ (Selected(old) \in listed /\ Selected(old) # Nobody => Selected(n) = Selected(old))
  <1>1. IsFiniteSet(listed)
    BY NavigationAssumption, FS_Subset
  <1>2. o \in Seq(listed) /\ \A s \in listed : \E i \in 1 .. Len(o) : o[i] = s
    BY <1>1, SeqsOfAll
  <1>3. n.order = o /\ n.cursor = Anchored(o, old)
    OBVIOUS
  <1>4. Anchored(o, old) \in 1 .. (IF o = <<>> THEN 1 ELSE Len(o))
    BY <1>2, AnchoredAt
  <1>5. o \in Seq(rows)
    BY <1>2
  <1>6. ListOf(n, rows)
    BY <1>2, <1>3, <1>4, <1>5 DEF ListOf
  <1>7. ASSUME Selected(old) \in listed, Selected(old) # Nobody
        PROVE  Selected(n) = Selected(old)
    <2>1. Anchored(o, old) \in 1 .. Len(o) /\ o[Anchored(o, old)] = Selected(old)
      BY <1>2, <1>7, AnchoredAt
    <2> QED
      BY <1>3, <2>1 DEF Selected
  <1> QED
    BY <1>6, <1>7

LEMMA ReorderedGood ==
    ASSUME ListOf(nav, saved), NEW rows, rows \subseteq Anime, NEW renamed, Reordered(rows, renamed)
    PROVE  /\ ListOf(nav', rows) /\ nav'.filtered = nav.filtered
           /\ ~nav.filtered /\ Selected(nav) \in rows /\ Selected(nav) # Nobody => Selected(nav') = Selected(nav)
  <1>1. PICK listed \in SUBSET rows :
           /\ nav.filtered \/ listed = rows
           /\ Ordered(listed)
    BY DEF Reordered
  <1>2. PICK o \in SetToSeqs(listed) : nav' = [nav EXCEPT !.order = o, !.cursor = Anchored(o, nav)]
    BY <1>1 DEF Ordered
  <1>3. nav' = [order |-> o, cursor |-> Anchored(o, nav), filtered |-> nav.filtered]
    BY <1>2 DEF ListOf
  <1> DEFINE n == nav'
  <1>4. n = [order |-> o, cursor |-> Anchored(o, nav), filtered |-> n.filtered] /\ n.filtered = nav.filtered
    BY <1>3
  <1>5. nav.cursor \in Nat \ {0} /\ (~n.filtered => listed = rows) /\ listed \subseteq rows
    BY <1>1, <1>4 DEF ListOf
  <1> HIDE DEF n
  <1>6. ListOf(n, rows) /\ (Selected(nav) \in listed /\ Selected(nav) # Nobody => Selected(n) = Selected(nav))
    BY <1>4, <1>5, ListAnew
  <1> QED
    BY <1>4, <1>5, <1>6 DEF n

\* Who is selected is in the library.
LEMMA SelectedSaved ==
    ASSUME NEW rows, NEW n, ListOf(n, rows), Selected(n) # Nobody
    PROVE  Selected(n) \in rows
  BY DEF ListOf, Selected

-----------------------------------------------------------------------------
\* The library and its list as a step leaves them: as they were, or read again.
LEMMA ReloadGood ==
    ASSUME LibraryInv, NEW rows \in SUBSET Anime, ReloadHistory(rows)
    PROVE  saved' = rows /\ ListOf(nav', saved')
  BY ReorderedGood DEF ReloadHistory, LibraryInv

LEMMA NothingArmed ==
    ASSUME saved' \subseteq Anime, ListOf(nav', saved'), LibraryInv,
           picked' \in Anime \cup {Nobody}, card' \in Anime \cup {Nobody}, airing' \in Anime \cup {Nobody},
           asking' = Nobody, undoable' = Nobody \/ undoable' \in saved'
    PROVE  LibraryInv'
  BY DEF LibraryInv, ConfirmUnderCursor, UndoHasRow

LEMMA ListStays ==
    ASSUME LibraryInv, UNCHANGED <<saved, nav, asking, undoable, airing>>,
           picked' \in Anime \cup {Nobody}, card' \in Anime \cup {Nobody}
    PROVE  LibraryInv' /\ AiringKept
  BY DEF LibraryInv, ConfirmUnderCursor, UndoHasRow, Selected, AiringKept

\* The surface shows a show there is, or none.
SurfaceInv == surface \in Anime \cup {Nobody}

LEMMA LibraryStep ==
    ASSUME LibraryInv, ScreenInv, SurfaceInv, NavNext
    PROVE  LibraryInv' /\ AiringKept
  <1>0. /\ saved \subseteq Anime /\ Anime \subseteq Nat \ {0} /\ ListOf(nav, saved) /\ Listed \subseteq Anime
        /\ picked \in Anime \cup {Nobody} /\ card \in Anime \cup {Nobody} /\ airing \in Anime \cup {Nobody}
        /\ undoable = Nobody \/ undoable \in saved
    BY NavigationAssumption DEF LibraryInv, UndoHasRow
  <1>1. CASE FirstSize
    <2>1. asking = Nobody /\ UNCHANGED <<saved, picked, card, asking, undoable, airing>>
      BY <1>1 DEF FirstSize, ScreenInv
    <2>2. ListOf(nav', saved)
      <3>1. CASE UNCHANGED nav
        BY <1>0, <3>1
      <3>2. ASSUME NEW c \in 1 .. Len(nav.order), nav' = [nav EXCEPT !.cursor = c]
            PROVE  ListOf(nav', saved)
        BY <1>0, <3>2 DEF ListOf
      <3> QED
        BY <1>1, <3>1, <3>2 DEF FirstSize
    <2> QED
      BY <1>0, <2>1, <2>2, NothingArmed DEF AiringKept
  <1>2. ASSUME NEW v \in ListViews, SwitchView(v)
        PROVE  LibraryInv' /\ AiringKept
    <2>1. asking = Nobody /\ UNCHANGED <<saved, picked, card, asking, undoable, airing>>
      BY <1>2 DEF SwitchView, Keys, safetyVars
    <2>2. Reordered(saved, {}) \/ UNCHANGED nav
      BY <1>2 DEF SwitchView
    <2>3. ListOf(nav', saved)
      BY <1>0, <2>2, ReorderedGood
    <2> QED
      BY <1>0, <2>1, <2>3, NothingArmed DEF AiringKept
  <1>3. CASE Back \/ Zoom \/ Drill \/ OpenPrompt \/ ToggleTrack \/ EditSettings \/ CommitEdit
    <2>1. UNCHANGED <<listVars, safetyVars>>
      BY <1>3 DEF Back, Zoom, Drill, OpenPrompt, ToggleTrack, EditSettings, CommitEdit, MovesTo
    <2> QED
      BY <1>0, <2>1, ListStays DEF listVars, safetyVars
  <1>4. CASE Resize \/ PageLands
    <2>1. UNCHANGED <<saved, nav, asking, undoable, airing>>
      BY <1>4 DEF Resize, PageLands, listVars, safetyVars
    <2>2. picked' \in Anime \cup {Nobody} /\ card' \in Anime \cup {Nobody}
      BY <1>0, <1>4 DEF Resize, PageLands, listVars
    <2> QED
      BY <2>1, <2>2, ListStays
  <1>5. CASE WalkLands \/ LateLands
    <2>1. UNCHANGED <<listVars, asking, undoable, airing>>
      BY <1>5 DEF WalkLands, LateLands
    <2> QED
      BY <1>0, <2>1, ListStays DEF listVars
  <1>6. CASE MoveCursor
    <2>1. asking = Nobody /\ UNCHANGED <<saved, asking, undoable, airing>>
      BY <1>6 DEF MoveCursor, NormalKeys, Keys, safetyVars
    <2>2. picked' \in Anime \cup {Nobody} /\ card' \in Anime \cup {Nobody}
      BY <1>0, <1>6 DEF MoveCursor
    <2>3. ListOf(nav', saved)
      <3>1. CASE UNCHANGED nav
        BY <1>0, <3>1
      <3>2. ASSUME NEW c \in 1 .. Len(nav.order), nav' = [nav EXCEPT !.cursor = c]
            PROVE  ListOf(nav', saved)
        BY <1>0, <3>2 DEF ListOf
      <3> QED
        BY <1>6, <3>1, <3>2 DEF MoveCursor
    <2> QED
      BY <1>0, <2>1, <2>2, <2>3, NothingArmed DEF AiringKept
  <1>7. CASE EditFilter
    <2>1. asking = Nobody /\ UNCHANGED <<saved, picked, card, asking, undoable, airing>>
      BY <1>7 DEF EditFilter, Keys, safetyVars
    <2>2. PICK listed \in SUBSET saved, f \in BOOLEAN : \E o \in SetToSeqs(listed) :
             (~f => listed = saved) /\ nav' = [order |-> o, cursor |-> Anchored(o, nav), filtered |-> f]
      BY <1>7 DEF EditFilter
    <2>3. PICK o \in SetToSeqs(listed) : nav' = [order |-> o, cursor |-> Anchored(o, nav), filtered |-> f]
      BY <2>2
    <2> DEFINE n == nav'
    <2>4. n = [order |-> o, cursor |-> Anchored(o, nav), filtered |-> n.filtered] /\ (~n.filtered => listed = saved)
      BY <2>2, <2>3
    <2>5. nav.cursor \in Nat \ {0}
      BY <1>0 DEF ListOf
    <2> HIDE DEF n
    <2>6. ListOf(n, saved)
      BY <1>0, <2>4, <2>5, ListAnew
    <2> QED
      BY <1>0, <2>1, <2>6, NothingArmed DEF AiringKept, n
  <1>8. CASE ClosePrompt
    <2>1. asking = Nobody /\ UNCHANGED <<saved, picked, card, asking, undoable, airing>>
      BY <1>8 DEF ClosePrompt, Keys, safetyVars
    <2>2. ListOf(nav', saved)
      <3>1. CASE UNCHANGED nav
        BY <1>0, <3>1
      <3>2. ASSUME NEW o \in SetToSeqs(saved), nav' = [order |-> o, cursor |-> 1, filtered |-> FALSE]
            PROVE  ListOf(nav', saved)
        <4>1. IsFiniteSet(saved)
          BY <1>0, NavigationAssumption, FS_Subset
        <4>2. o \in Seq(saved) /\ \A s \in saved : \E i \in 1 .. Len(o) : o[i] = s
          BY <4>1, SeqsOfAll
        <4> QED
          BY <3>2, <4>2 DEF ListOf
      <3> QED
        BY <1>8, <3>1, <3>2 DEF ClosePrompt
    <2> QED
      BY <1>0, <2>1, <2>2, NothingArmed DEF AiringKept
  <1>9. CASE StatusKeys
    <2>1. asking = Nobody /\ UNCHANGED <<picked, card, asking, airing>> /\ ReloadHistory(saved)
          /\ undoable' \in {Selected(nav), Nobody} /\ Selected(nav) # Nobody
      BY <1>9 DEF StatusKeys, NormalKeys, Keys
    <2>2. saved' = saved /\ ListOf(nav', saved')
      BY <1>0, <2>1, ReloadGood
    <2>3. Selected(nav) \in saved
      BY <1>0, <2>1, SelectedSaved
    <2> QED
      BY <1>0, <2>1, <2>2, <2>3, NothingArmed DEF AiringKept
  <1>10. CASE UndoKey
    <2>1. asking = Nobody /\ UNCHANGED <<picked, card, asking, airing>> /\ ReloadHistory(saved) /\ undoable' = Nobody
      BY <1>10 DEF UndoKey, NormalKeys, Keys
    <2>2. saved' = saved /\ ListOf(nav', saved')
      BY <1>0, <2>1, ReloadGood
    <2> QED
      BY <1>0, <2>1, <2>2, NothingArmed DEF AiringKept
  <1>11. CASE PlanKey
    <2>1. asking = Nobody /\ UNCHANGED <<nav, picked, card, asking, undoable, airing>>
      BY <1>11 DEF PlanKey, NormalKeys, Keys, safetyVars
    <2>2. PICK s \in Anime : saved' = saved \cup {s}
      BY <1>0, <1>11 DEF PlanKey
    <2>3. ListOf(nav', saved')
      BY <1>0, <2>1, <2>2 DEF ListOf
    <2> QED
      BY <1>0, <2>1, <2>2, <2>3, NothingArmed DEF AiringKept
  <1>12. CASE ArmDelete
    <2>1. asking' = Selected(nav) /\ UNCHANGED <<listVars, undoable, airing>>
      BY <1>12 DEF ArmDelete
    <2> QED
      BY <2>1 DEF LibraryInv, ConfirmUnderCursor, UndoHasRow, listVars, AiringKept, Selected
  <1>13. CASE ConfirmKey
    <2>1. asking' = Nobody /\ UNCHANGED <<picked, card, airing>>
      BY <1>13 DEF ConfirmKey
    <2>2. CASE UNCHANGED <<undoable, saved, nav, shownVars>>
      BY <1>0, <2>1, <2>2, NothingArmed DEF AiringKept
    <2>3. CASE ~RefusesDelete(asking) /\ undoable' = UndoAfter(asking) /\ ReloadHistory(saved \ {asking})
      <3>1. saved' = saved \ {asking} /\ ListOf(nav', saved')
        BY <1>0, <2>3, ReloadGood
      <3>2. undoable' = Nobody \/ undoable' \in saved'
        BY <1>0, <2>3, <3>1 DEF UndoAfter
      <3>3. asking # airing
        BY <2>3 DEF RefusesDelete
      <3> QED
        BY <1>0, <2>1, <3>1, <3>2, <3>3, NothingArmed DEF AiringKept
    <2> QED
      BY <1>13, <2>2, <2>3 DEF ConfirmKey
  <1>14. CASE PlayKey
    <2>1. asking = Nobody /\ UNCHANGED <<listVars, asking, undoable>> /\ airing = Nobody /\ airing' = surface
      BY <1>14 DEF PlayKey, NormalKeys, Keys
    <2> QED
      BY <1>0, <2>1, NothingArmed DEF AiringKept, listVars, SurfaceInv
  <1>15. CASE PlayFinishes
    <2>1. airing # Nobody /\ airing' = Nobody /\ UNCHANGED <<picked, card, undoable>>
      BY <1>15 DEF PlayFinishes
    <2>2. CASE ReloadHistory(saved \cup {airing}) /\ asking' = Nobody
      <3>0. saved \cup {airing} \in SUBSET Anime
        BY <1>0, <2>1
      <3>1. saved' = saved \cup {airing} /\ ListOf(nav', saved')
        BY <2>2, <3>0, ReloadGood
      <3> QED
        BY <1>0, <2>1, <2>2, <3>1, NothingArmed DEF AiringKept, Nobody
    <2>3. CASE UNCHANGED <<saved, nav, shownVars, asking>>
      BY <2>1, <2>3 DEF LibraryInv, ConfirmUnderCursor, UndoHasRow, Selected, AiringKept, Nobody
    <2> QED
      BY <1>15, <2>2, <2>3 DEF PlayFinishes
  <1>16. CASE EnrichmentLands
    <2>1. UNCHANGED <<saved, picked, card, asking, undoable, airing>>
      BY <1>16 DEF EnrichmentLands, safetyVars
    <2>2. PICK s \in saved : Reordered(saved, {s})
      BY <1>16 DEF EnrichmentLands
    <2>3. /\ ListOf(nav', saved) /\ nav'.filtered = nav.filtered
          /\ ~nav.filtered /\ Selected(nav) \in saved /\ Selected(nav) # Nobody => Selected(nav') = Selected(nav)
      BY <1>0, <2>2, ReorderedGood
    <2>4. asking # Nobody /\ ~nav.filtered => asking = Selected(nav) /\ Selected(nav) \in saved
      BY <1>0, SelectedSaved DEF LibraryInv, ConfirmUnderCursor
    <2> QED
      BY <2>1, <2>3, <2>4 DEF LibraryInv, ConfirmUnderCursor, UndoHasRow, AiringKept
  <1> QED
    BY <1>1, <1>2, <1>3, <1>4, <1>5, <1>6, <1>7, <1>8, <1>9, <1>10, <1>11, <1>12, <1>13, <1>14, <1>15, <1>16 DEF NavNext, Handles

LEMMA PushShows ==
    ASSUME SurfaceInv, NEW view, NEW s \in Anime \cup {Nobody}, Push(view, s)
    PROVE  SurfaceInv'
  BY DEF Push, Target, SurfaceInv, shownVars

LEMMA SurfaceStep ==
    ASSUME SurfaceInv, LibraryInv, LibraryInv', NavNext
    PROVE  SurfaceInv'
  <1>0. /\ Selected(nav) \in Anime \cup {Nobody} /\ Selected(nav') \in Anime \cup {Nobody}
        /\ {picked, card, picked', card'} \subseteq Anime \cup {Nobody}
    <2>1. Selected(nav) \in Anime \cup {Nobody}
      BY SelectedSaved DEF LibraryInv
    <2> DEFINE n == nav'
               rows == saved'
    <2>2. ListOf(n, rows) /\ rows \subseteq Anime
      BY DEF LibraryInv
    <2> HIDE DEF n, rows
    <2>3. Selected(n) \in Anime \cup {Nobody}
      BY <2>2, SelectedSaved
    <2> QED
      BY <2>1, <2>3 DEF n, LibraryInv
  <1>1. ASSUME UNCHANGED shownVars
        PROVE  SurfaceInv'
    BY <1>1 DEF SurfaceInv, shownVars
  <1>2. ASSUME NEW s \in Anime \cup {Nobody}, NEW own \in BOOLEAN, TargetAndEngage(s, own)
        PROVE  SurfaceInv'
    BY <1>2 DEF SurfaceInv, TargetAndEngage
  <1>3. CASE FirstSize
    <2>1. ASSUME NEW c \in 1 .. Len(nav.order), TargetAndEngage(nav.order[c], TRUE)
          PROVE  SurfaceInv'
      <3>1. nav.order[c] \in Anime
        BY DEF LibraryInv, ListOf
      <3> QED
        BY <1>2, <2>1, <3>1
    <2> QED
      BY <1>1, <1>3, <2>1 DEF FirstSize
  <1>4. ASSUME NEW v \in ListViews, SwitchView(v)
        PROVE  SurfaceInv'
    <2>1. \/ Push(v, picked) \/ Push(v, Selected(nav')) \/ UNCHANGED shownVars
      BY <1>4 DEF SwitchView
    <2> QED
      BY <1>0, <1>1, <2>1, PushShows
  <1>5. CASE Drill
    <2>1. \/ TargetAndEngage(Selected(nav), FALSE) \/ TargetAndEngage(picked, FALSE)
          \/ TargetAndEngage(IF card = Nobody THEN surface ELSE card, FALSE)
      BY <1>5 DEF Drill
    <2>2. (IF card = Nobody THEN surface ELSE card) \in Anime \cup {Nobody}
      BY <1>0 DEF SurfaceInv
    <2> QED
      BY <1>0, <1>2, <2>1, <2>2
  <1>6. ASSUME NEW view, NEW s \in {Selected(nav'), picked, picked'}, Push(view, s) \/ UNCHANGED shownVars
        PROVE  SurfaceInv'
    BY <1>0, <1>1, <1>6, PushShows
  <1>7. CASE MoveCursor \/ OpenPrompt \/ PageLands
    <2>1. \/ Push("history", Selected(nav')) \/ Push("browse", picked') \/ Push("browse", picked)
          \/ Push(screen.view, picked') \/ UNCHANGED shownVars
      BY <1>7 DEF MoveCursor, OpenPrompt, PageLands
    <2> QED
      BY <1>1, <1>6, <2>1
  <1>8. CASE StatusKeys \/ UndoKey \/ ConfirmKey \/ PlayFinishes
    <2>1. Push("history", Selected(nav')) \/ UNCHANGED shownVars
      BY <1>8 DEF StatusKeys, UndoKey, ConfirmKey, PlayFinishes, ReloadHistory
    <2> QED
      BY <1>1, <1>6, <2>1
  <1>9. CASE Back \/ Zoom \/ EditFilter \/ ClosePrompt \/ ToggleTrack \/ EditSettings \/ CommitEdit \/ PlanKey
              \/ ArmDelete \/ PlayKey \/ Resize \/ EnrichmentLands \/ WalkLands \/ LateLands
    <2>1. UNCHANGED surface
      BY <1>9 DEF Back, Zoom, EditFilter, ClosePrompt, ToggleTrack, EditSettings, CommitEdit, PlanKey, ArmDelete,
           PlayKey, Resize, EnrichmentLands, WalkLands, LateLands, shownVars
    <2> QED
      BY <2>1 DEF SurfaceInv
  <1> QED
    BY <1>3, <1>4, <1>5, <1>7, <1>8, <1>9 DEF NavNext, Handles

-----------------------------------------------------------------------------
NavInv == ScreenInv /\ SessionInv /\ LibraryInv /\ SurfaceInv

LEMMA NavInitGood ==
    ASSUME NavInit
    PROVE  NavInv
  <1>1. ScreenInv
    BY DEF NavInit, ScreenInv, ModesKept
  <1>2. SessionInv
    BY DEF NavInit, SessionInv, SessionOfSurface, NoSession
  <1>3. PICK o \in SetToSeqs(saved) : nav = [order |-> o, cursor |-> 1, filtered |-> FALSE]
    BY DEF NavInit
  <1>4. IsFiniteSet(saved) /\ saved \subseteq Anime
    BY NavigationAssumption, FS_Subset DEF NavInit
  <1>5. ListOf(nav, saved)
    BY <1>3, <1>4, SeqsOfAll DEF ListOf
  <1>6. LibraryInv /\ SurfaceInv
    BY <1>4, <1>5, NavigationAssumption DEF NavInit, LibraryInv, SurfaceInv, ConfirmUnderCursor, UndoHasRow
  <1> QED
    BY <1>1, <1>2, <1>6 DEF NavInv

\* A key or a result, and what holds of the surfaces.
LEMMA NavStep ==
    ASSUME NavInv, [NavNext]_navVars
    PROVE  NavInv' /\ [airing # Nobody /\ airing \in saved => airing \in saved']_navVars
  <1>1. CASE NavNext
    BY <1>1, ModesStep, SessionStep, LibraryStep, SurfaceStep DEF NavInv, AiringKept
  <1>2. CASE UNCHANGED navVars
    BY <1>2 DEF NavInv, navVars, ScreenInv, ModesKept, SessionInv, LibraryInv, SurfaceInv, ConfirmUnderCursor,
       UndoHasRow, SessionOfSurface, OnHistoryList, Selected, ListOf
  <1> QED
    BY <1>1, <1>2

\* Whatever keys are pressed and whatever lands between two of them: a confirm names
\* the show under the cursor, an undo has its row, a session is of the show on the
\* surface, settings that are left are saved, and the show that plays stays (app.rs).
THEOREM KeysAreHonest == NavSpec => KeysActOnWhatIsSeen
  <1>1. NavInit => NavInv
    BY NavInitGood
  <1>2. NavInv /\ [NavNext]_navVars => NavInv' /\ [airing # Nobody /\ airing \in saved => airing \in saved']_navVars
    BY NavStep
  <1>3. NavInv => ConfirmUnderCursor /\ UndoHasRow /\ SessionOfSurface /\ SettingsSaved
    BY DEF NavInv, LibraryInv, SessionInv, ScreenInv, SettingsSaved
  <1> QED
    BY <1>1, <1>2, <1>3, PTL DEF NavSpec, KeysActOnWhatIsSeen, PlayingKept

-----------------------------------------------------------------------------
\* A view there is, and the detail pane open only where there is room for one.
ViewsKept ==
    /\ screen.view \in Views
    /\ screen.pane = "detail" => screen.wide /\ screen.view \in {"browse", "history", "detail"}

LEMMA ViewsStep ==
    ASSUME ScreenInv, ViewsKept, [NavNext]_navVars
    PROVE  ViewsKept'
  <1> USE DEF ViewsKept, ModesKept, Views
  <1>0. ModesKept(screen) /\ screen.origin \in {"browse", "history", "discover"}
    BY DEF ScreenInv
  <1>1. ASSUME UNCHANGED screen PROVE ViewsKept'
    BY <1>1
  <1>2. ASSUME NEW w \in BOOLEAN
        PROVE  LET r == Resized(w) IN
               /\ ModesKept(r) /\ r.view = screen.view /\ r.wide = w
               /\ r.pane = IF w THEN screen.pane ELSE "list"
    <2> DEFINE r == Resized(w)
    <2>1. r = [view |-> screen.view, pane |-> IF w THEN screen.pane ELSE "list", mode |-> screen.mode, wide |-> w,
               origin |-> screen.origin]
      <3>1. CASE w
        <4>1. r = [screen EXCEPT !.wide = w]
          BY <1>0, <3>1 DEF Resized
        <4> QED
          BY <1>0, <3>1, <4>1
      <3>2. CASE ~w
        <4>1. r = [screen EXCEPT !.wide = w, !.pane = "list"]
          BY <1>0, <3>2 DEF Resized
        <4> QED
          BY <1>0, <3>2, <4>1
      <3> QED
        BY <3>1, <3>2
    <2> HIDE DEF r
    <2>2. /\ ModesKept(r) /\ r.view = screen.view /\ r.wide = w /\ r.pane = IF w THEN screen.pane ELSE "list"
      BY <2>1
    <2> QED
      BY <2>2 DEF r
  <1>3. CASE FirstSize
    <2>1. screen.view = "history"
      BY <1>3 DEF FirstSize, ScreenInv
    <2>2. PICK w \in BOOLEAN :
             \/ screen' = Resized(w)
             \/ \E c \in 1 .. Len(nav.order) :
                   screen' = IF w THEN [Resized(w) EXCEPT !.pane = "detail"]
                             ELSE [Resized(w) EXCEPT !.view = "detail", !.origin = "history"]
      BY ONLY <1>3 DEF FirstSize
    <2> DEFINE r == Resized(w)
    <2>3. /\ ModesKept(r) /\ r.view = screen.view /\ r.wide = w /\ r.pane = IF w THEN screen.pane ELSE "list"
      BY <1>2
    <2>4. \/ screen' = r
          \/ w /\ screen' = [r EXCEPT !.pane = "detail"]
          \/ ~w /\ screen' = [r EXCEPT !.view = "detail", !.origin = "history"]
      BY <2>2
    <2> HIDE DEF r
    <2> QED
      BY <2>1, <2>3, <2>4
  <1>4. ASSUME NEW v \in ListViews, SwitchView(v)
        PROVE  ViewsKept'
    BY <1>0, <1>4 DEF SwitchView, ListViews
  <1>5. CASE Back \/ Zoom
    BY <1>0, <1>5 DEF Back, Zoom, MovesTo, Demoted, Zoomed, Focused
  <1>6. CASE Drill
    BY <1>0, <1>6 DEF Drill, MovesTo, Zoomed
  <1>7. CASE MoveCursor \/ EditFilter \/ PlanKey \/ PageLands \/ EnrichmentLands
    BY <1>1, <1>7 DEF MoveCursor, EditFilter, PlanKey, PageLands, EnrichmentLands
  <1>8. CASE OpenPrompt
    BY <1>0, <1>8 DEF OpenPrompt
  <1>9. CASE ClosePrompt
    BY <1>0, <1>9 DEF ClosePrompt
  <1>10. CASE ToggleTrack
    BY <1>0, <1>10 DEF ToggleTrack
  <1>11. CASE EditSettings \/ CommitEdit \/ StatusKeys \/ UndoKey \/ ArmDelete \/ ConfirmKey \/ PlayKey
    BY <1>1, <1>11 DEF EditSettings, CommitEdit, StatusKeys, UndoKey, ArmDelete, ConfirmKey, PlayKey
  <1>12. CASE PlayFinishes \/ LateLands
    BY <1>1, <1>12 DEF PlayFinishes, LateLands
  <1>13. CASE Resize
    <2>1. PICK w \in BOOLEAN : screen' = Resized(w)
      BY <1>13 DEF Resize
    <2> DEFINE r == Resized(w)
    <2>2. /\ r.view = screen.view /\ r.wide = w /\ r.pane = IF w THEN screen.pane ELSE "list"
      BY <1>2
    <2>3. screen' = r
      BY <2>1
    <2> HIDE DEF r
    <2> QED
      BY <2>2, <2>3
  <1>14. CASE WalkLands
    <2>1. screen' = screen \/ screen' = [screen EXCEPT !.view = IF @ = "detail" THEN "history" ELSE @, !.pane = "list"]
      BY <1>14 DEF WalkLands, LandingDemotes
    <2> QED
      BY <1>0, <2>1
  <1>15. CASE UNCHANGED navVars
    BY <1>1, <1>15 DEF navVars
  <1> QED
    BY <1>3, <1>4, <1>5, <1>6, <1>7, <1>8, <1>9, <1>10, <1>11, <1>12, <1>13, <1>14, <1>15 DEF NavNext, Handles

LEMMA NavTyped ==
    ASSUME NavInv, ViewsKept
    PROVE  NavTypeOK
  BY DEF NavInv, ScreenInv, LibraryInv, ListOf, ViewsKept, NavTypeOK

\* The surfaces stay in their types: the detail pane is open only where there is room,
\* and the cursor of the History list is on one of its rows.
LEMMA KeysTyped == NavSpec => []NavTypeOK
  <1>1. NavInit => NavInv /\ ViewsKept
    <2>1. NavInit => ViewsKept
      BY DEF NavInit, ViewsKept, Views
    <2> QED
      BY <2>1, NavInitGood
  <1>2. NavInv /\ ViewsKept /\ [NavNext]_navVars => NavInv' /\ ViewsKept'
    BY NavStep, ViewsStep DEF NavInv
  <1>3. NavInv /\ ViewsKept => NavTypeOK
    BY NavTyped
  <1> QED
    BY <1>1, <1>2, <1>3, PTL DEF NavSpec

-----------------------------------------------------------------------------
(***************************************************************************)
(* The windows of the lists.                                               *)
(***************************************************************************)
GroupNames == {"watching", "planning", "paused", "completed", "dropped"}
Entry == [id : Nat, group : GroupNames]

LEMMA GroupNamesCounted ==
    ASSUME NEW heads, heads \subseteq GroupNames, heads # {}
    PROVE  Cardinality(heads) \in Nat /\ Cardinality(heads) >= 1
  <1> DEFINE few == {"watching", "planning"} \cup {"paused"} \cup {"completed"} \cup {"dropped"}
  <1>1. IsFiniteSet({"watching"}) /\ IsFiniteSet({"planning"}) /\ IsFiniteSet({"paused"})
        /\ IsFiniteSet({"completed"}) /\ IsFiniteSet({"dropped"})
    BY FS_Singleton
  <1>2. IsFiniteSet({"watching"} \cup {"planning"})
    BY <1>1, FS_Union
  <1>3. IsFiniteSet({"watching"} \cup {"planning"} \cup {"paused"})
    BY <1>1, <1>2, FS_Union
  <1>4. IsFiniteSet({"watching"} \cup {"planning"} \cup {"paused"} \cup {"completed"})
    BY <1>1, <1>3, FS_Union
  <1>5. IsFiniteSet({"watching"} \cup {"planning"} \cup {"paused"} \cup {"completed"} \cup {"dropped"})
    BY <1>1, <1>4, FS_Union
  <1>6. GroupNames = {"watching"} \cup {"planning"} \cup {"paused"} \cup {"completed"} \cup {"dropped"}
    BY DEF GroupNames
  <1>7. IsFiniteSet(heads)
    BY <1>5, <1>6, FS_Subset
  <1> QED
    BY <1>7, FS_CardinalityType, FS_EmptySet

\* What is read of a group, entry by entry.
LEMMA GroupingTyped ==
    ASSUME NEW s \in Seq(Entry), NEW k, NEW g
    PROVE  Grouping(s, k, g) \in [0 .. Len(s) -> Seq(Entry)]
  <1> DEFINE N == Len(s)
             none == <<>>
             Chosen(i) == s[i].group = g /\ s[i].id \in k
             More(i, r) == IF Chosen(i) THEN Append(r, s[i]) ELSE r
             step == [i \in 1 .. N |-> [r \in Seq(Entry) |-> More(i, r)]]
  <1>1. N \in Nat /\ \A i \in 1 .. N : s[i] \in Entry
    OBVIOUS
  <1>2. none \in Seq(Entry)
    OBVIOUS
  <1>4. Grouping(s, k, g) = CHOOSE h : h = [i \in 0 .. N |-> IF i = 0 THEN none ELSE More(i, h[i - 1])]
    BY DEF Grouping
  <1> HIDE DEF Chosen
  <1>3. \A i \in 1 .. N, r \in Seq(Entry) : More(i, r) \in Seq(Entry)
    BY <1>1
  <1> HIDE DEF More, none, N
  <1>5. step \in StepFunctions(N, Seq(Entry))
    BY <1>3 DEF StepFunctions
  <1>6. \A i \in 1 .. N, r \in Seq(Entry) : step[i][r] = More(i, r)
    OBVIOUS
  <1> HIDE DEF step
  <1>7. PICK f \in [0 .. N -> Seq(Entry)] : MadeUpTo(N, f, none, step)
    BY <1>1, <1>2, <1>5, Recursion
  <1>8. ASSUME NEW i \in 0 .. N
        PROVE  (IF i = 0 THEN none ELSE step[i][f[i - 1]]) = (IF i = 0 THEN none ELSE More(i, f[i - 1]))
    <2>1. CASE i # 0
      <3>1. i \in 1 .. N /\ i - 1 \in 0 .. N
        BY <1>1, <2>1
      <3>2. f[i - 1] \in Seq(Entry)
        BY <3>1
      <3> QED
        BY <1>6, <2>1, <3>1, <3>2
    <2> QED
      BY <2>1
  <1>9. f = [i \in 0 .. N |-> IF i = 0 THEN none ELSE More(i, f[i - 1])]
    BY <1>7, <1>8 DEF MadeUpTo
  <1> DEFINE Gathers(h) == h = [i \in 0 .. N |-> IF i = 0 THEN none ELSE More(i, h[i - 1])]
  <1>10. Grouping(s, k, g) = CHOOSE h : Gathers(h)
    BY <1>4
  <1>11. Gathers(f)
    BY <1>9
  <1> HIDE DEF Gathers
  <1>12. Gathers(Grouping(s, k, g))
    BY <1>10, <1>11
  <1> DEFINE grown == Grouping(s, k, g)
  <1>13. grown = [i \in 0 .. N |-> IF i = 0 THEN none ELSE More(i, grown[i - 1])]
    BY <1>12 DEF Gathers
  <1> HIDE DEF grown
  <1>14. grown[0] = none /\ \A i \in 1 .. N : grown[i] = More(i, grown[i - 1])
    <2>1. 0 \in 0 .. N /\ \A i \in 1 .. N : i \in 0 .. N /\ i # 0
      BY <1>1
    <2> QED
      BY <1>13, <2>1
  <1> DEFINE T == {i \in 0 .. N : grown[i] \in Seq(Entry)}
  <1>15. 0 \in T
    BY <1>1, <1>2, <1>14
  <1>16. ASSUME NEW i \in 0 .. (N - 1), i \in T
         PROVE  i + 1 \in T
    <2>1. i + 1 \in 1 .. N /\ (i + 1) - 1 = i /\ i + 1 \in 0 .. N
      BY <1>1
    <2>2. grown[i] \in Seq(Entry)
      BY <1>16
    <2>3. grown[i + 1] = More(i + 1, grown[i])
      BY <1>14, <2>1
    <2> QED
      BY <1>3, <2>1, <2>2, <2>3
  <1> HIDE DEF T
  <1>17. 0 .. N \subseteq T
    BY <1>1, <1>15, <1>16, ReachedUpTo
  <1>18. \A i \in 0 .. N : grown[i] \in Seq(Entry)
    BY <1>17 DEF T
  <1>19. grown = [i \in 0 .. N |-> grown[i]]
    <2> DEFINE Value(i) == IF i = 0 THEN none ELSE More(i, grown[i - 1])
    <2>1. grown = [i \in 0 .. N |-> Value(i)]
      BY <1>13
    <2> HIDE DEF Value
    <2> QED
      BY <2>1
  <1>20. grown \in [0 .. N -> Seq(Entry)]
    BY <1>18, <1>19
  <1> QED
    BY <1>20 DEF grown, N

\* What is shown of the groups, group by group.
LEMMA GroupedTyped ==
    ASSUME NEW s \in Seq(Entry), NEW k
    PROVE  Grouped(s, k)[Len(Groups)] \in Seq(Entry)
  <1> DEFINE N == Len(Groups)
             none == <<>>
             Of(i) == Grouping(s, k, Groups[i])[Len(s)]
             More(i, r) == r \o Of(i)
             step == [i \in 1 .. N |-> [r \in Seq(Entry) |-> More(i, r)]]
  <1>1. N \in Nat /\ Len(s) \in 0 .. Len(s)
    BY DEF Groups
  <1>2. none \in Seq(Entry)
    OBVIOUS
  <1>3. \A i \in 1 .. N : Of(i) \in Seq(Entry)
    BY <1>1, GroupingTyped
  <1>4. Grouped(s, k) = CHOOSE h : h = [i \in 0 .. N |-> IF i = 0 THEN none ELSE More(i, h[i - 1])]
    BY DEF Grouped
  <1> HIDE DEF Of
  <1>31. \A i \in 1 .. N, r \in Seq(Entry) : More(i, r) \in Seq(Entry)
    BY <1>3, ConcatProperties
  <1> HIDE DEF More, none, N
  <1>5. step \in StepFunctions(N, Seq(Entry))
    BY <1>31 DEF StepFunctions
  <1>6. \A i \in 1 .. N, r \in Seq(Entry) : step[i][r] = More(i, r)
    OBVIOUS
  <1> HIDE DEF step
  <1>7. PICK f \in [0 .. N -> Seq(Entry)] : MadeUpTo(N, f, none, step)
    BY <1>1, <1>2, <1>5, Recursion
  <1>8. ASSUME NEW i \in 0 .. N
        PROVE  (IF i = 0 THEN none ELSE step[i][f[i - 1]]) = (IF i = 0 THEN none ELSE More(i, f[i - 1]))
    <2>1. CASE i # 0
      <3>1. i \in 1 .. N /\ i - 1 \in 0 .. N
        BY <1>1, <2>1
      <3>2. f[i - 1] \in Seq(Entry)
        BY <3>1
      <3> QED
        BY <1>6, <2>1, <3>1, <3>2
    <2> QED
      BY <2>1
  <1>9. f = [i \in 0 .. N |-> IF i = 0 THEN none ELSE More(i, f[i - 1])]
    BY <1>7, <1>8 DEF MadeUpTo
  <1> DEFINE Gathers(h) == h = [i \in 0 .. N |-> IF i = 0 THEN none ELSE More(i, h[i - 1])]
  <1>10. Grouped(s, k) = CHOOSE h : Gathers(h)
    BY <1>4
  <1>11. Gathers(f)
    BY <1>9
  <1> HIDE DEF Gathers
  <1>12. Gathers(Grouped(s, k))
    BY <1>10, <1>11
  <1> DEFINE shown == Grouped(s, k)
  <1>13. shown = [i \in 0 .. N |-> IF i = 0 THEN none ELSE More(i, shown[i - 1])]
    BY <1>12 DEF Gathers
  <1> HIDE DEF shown
  <1>14. shown[0] = none /\ \A i \in 1 .. N : shown[i] = More(i, shown[i - 1])
    <2>1. 0 \in 0 .. N /\ \A i \in 1 .. N : i \in 0 .. N /\ i # 0
      BY <1>1
    <2> QED
      BY <1>13, <2>1
  <1> DEFINE T == {i \in 0 .. N : shown[i] \in Seq(Entry)}
  <1>15. 0 \in T
    BY <1>1, <1>2, <1>14
  <1>16. ASSUME NEW i \in 0 .. (N - 1), i \in T
         PROVE  i + 1 \in T
    <2>1. i + 1 \in 1 .. N /\ (i + 1) - 1 = i /\ i + 1 \in 0 .. N
      BY <1>1
    <2>2. shown[i] \in Seq(Entry)
      BY <1>16
    <2>3. shown[i + 1] = More(i + 1, shown[i])
      BY <1>14, <2>1
    <2> QED
      BY <1>31, <2>1, <2>2, <2>3
  <1> HIDE DEF T
  <1>17. 0 .. N \subseteq T
    BY <1>1, <1>15, <1>16, ReachedUpTo
  <1>18. shown[N] \in Seq(Entry)
    BY <1>1, <1>17 DEF T
  <1> QED
    BY <1>18 DEF shown, N

LEMMA OrderTyped ==
    ASSUME NEW s \in Seq(Entry), NEW k
    PROVE  Order(s, k) \in Seq(Entry)
  BY GroupedTyped DEF Order

-----------------------------------------------------------------------------
\* The arithmetic of the windows.
LEMMA ClampWithin ==
    ASSUME NEW sc \in Nat, NEW rowAt \in Nat, NEW visible \in Nat, visible >= 1
    PROVE  /\ Clamp(sc, rowAt, visible) \in Nat
           /\ Clamp(sc, rowAt, visible) <= rowAt /\ rowAt < Clamp(sc, rowAt, visible) + visible
  BY DEF Clamp, AtMost

LEMMA IntoViewWithin ==
    ASSUME NEW sc \in Nat, NEW title \in Nat, title >= 2, NEW visible \in Nat, visible >= 1
    PROVE  /\ IntoView(sc, title, visible) \in Nat
           /\ visible >= 2 => /\ IntoView(sc, title, visible) <= title
                              /\ title + 1 < IntoView(sc, title, visible) + visible
           /\ visible >= 4 => /\ IntoView(sc, title, visible) <= title - 2
                              /\ title - 2 < IntoView(sc, title, visible) + visible
  BY DEF IntoView, AtMost, AtLeast, Saturating

LEMMA Quotient ==
    ASSUME NEW a \in Nat, NEW n \in Nat, n >= 1
    PROVE  /\ a \div n \in Nat /\ a % n \in 0 .. n - 1
           /\ a = n * (a \div n) + (a % n)
  OBVIOUS

\* What is a whole number of times in a room fits it so many times.
LEMMA TimesFit ==
    ASSUME NEW a \in Nat, NEW n \in Nat, n >= 1, NEW r \in Nat, r <= a \div n
    PROVE  r * n <= a
  <1> DEFINE q == a \div n
  <1>1. q \in Nat /\ a % n \in 0 .. n - 1 /\ a = n * q + (a % n)
    BY Quotient
  <1>2. r <= q
    OBVIOUS
  <1> HIDE DEF q
  <1>3. (q - r) * n >= 0
    BY <1>1, <1>2
  <1>4. (q - r) * n = n * q - r * n
    BY <1>1
  <1> QED
    BY <1>1, <1>3, <1>4

LEMMA RowOf ==
    ASSUME NEW q \in Nat, NEW n \in Nat, n >= 1, NEW j \in 0 .. n - 1
    PROVE  (q * n + j) \div n = q
  OBVIOUS

\* A step to either side in a row of n, round its ends, is undone by the other.
LEMMA NextPlace ==
    ASSUME NEW n \in Nat, n >= 1, NEW x \in 0 .. n - 1, NEW d \in {-1, 1}
    PROVE  /\ (x + d) % n \in 0 .. n - 1
           /\ (((x + d) % n) - d) % n = x
  <1>1. n % n = 0 /\ (-1) % n = n - 1 /\ \A y \in 0 .. n - 1 : y % n = y
    OBVIOUS
  <1>2. CASE x + d \in 0 .. n - 1
    BY <1>1, <1>2
  <1>3. CASE x + d = n
    BY <1>1, <1>3
  <1>4. CASE x + d = -1
    BY <1>1, <1>4
  <1> QED
    BY <1>2, <1>3, <1>4

-----------------------------------------------------------------------------
\* The list and the window in their types, the cursor on a row of what is listed.
WinTyped ==
    /\ listView \in {"browse", "history", "discover"}
    /\ frame.w \in Nat /\ frame.h \in Nat /\ cell.w \in Nat /\ cell.h \in Nat
    /\ contents \in Seq(Entry)
    /\ cursor \in Nat /\ cursor >= 1 /\ cursor <= AtLeast(Len(InOrder), 1)
    /\ scroll \in Nat

WinInv == WinTyped /\ SelectionSeen /\ HeaderSeen /\ RowSeen

LEMMA GeometryTyped ==
    ASSUME WinTyped
    PROVE  /\ InOrder \in Seq(Entry) /\ Len(InOrder) \in Nat
           /\ ContentH \in Nat /\ ContentH = Saturating(frame.h, 3)
           /\ GridGeo.cols \in Nat /\ GridGeo.cols >= 1
           /\ GridGeo.rows \in Nat /\ GridGeo.rows >= 1
           /\ GridGeo.slotH \in Nat /\ GridGeo.slotH >= 4
  <1>1. InOrder \in Seq(Entry)
    BY OrderTyped DEF WinTyped, InOrder
  <1>2. ContentH \in Nat
    BY DEF WinTyped, ContentH, Saturating, AtLeast
  <1> DEFINE t == Tier(frame.w)
             high == CardCoverH(t)
             area == (t.cover * cell.w * 3) \div 2
  <1>3. t.cover \in Nat /\ t.slot \in Nat /\ t.slot >= 1 /\ t.floor \in Nat
    BY DEF Tier
  <1>4. area \in Nat
    <2> DEFINE wide == cell.w
    <2>1. wide \in Nat
      BY DEF WinTyped
    <2> HIDE DEF t, wide
    <2>2. t.cover * wide * 3 \in Nat
      BY <1>3, <2>1
    <2>3. \A a, n \in Nat : n >= 1 => a \div n \in Nat
      BY Quotient
    <2>4. (t.cover * wide * 3) \div 2 \in Nat
      BY <2>2, <2>3
    <2> QED
      BY <2>4 DEF wide
  <1>5. high = IF cell.h = 0 THEN t.floor ELSE AtLeast(area \div cell.h, t.floor)
    BY DEF CardCoverH
  <1> HIDE DEF area
  <1>6. cell.h # 0 => area \div cell.h \in Nat
    <2>1. \A a, n \in Nat : n >= 1 => a \div n \in Nat
      BY Quotient
    <2>2. cell.h \in Nat /\ (cell.h # 0 => cell.h >= 1)
      BY DEF WinTyped
    <2> QED
      BY <1>4, <2>1, <2>2
  <1> HIDE DEF t
  <1>7. high \in Nat
    BY <1>3, <1>5, <1>6 DEF AtLeast
  <1>8. GridGeo = [cols |-> AtLeast(Saturating(frame.w, 2) \div t.slot, 1), slotH |-> high + 4,
                   rows |-> AtLeast(Saturating(ContentH, 2) \div (high + 4), 1)]
    BY DEF GridGeo, t
  <1> HIDE DEF high
  <1>9. Saturating(frame.w, 2) \in Nat /\ Saturating(ContentH, 2) \in Nat
    BY <1>2 DEF WinTyped, Saturating, AtLeast
  <1>10. Saturating(frame.w, 2) \div t.slot \in Nat /\ Saturating(ContentH, 2) \div (high + 4) \in Nat
    <2>1. \A a, n \in Nat : n >= 1 => a \div n \in Nat
      BY Quotient
    <2> QED
      BY <1>3, <1>7, <1>9, <2>1
  <1>11. GridGeo.cols \in Nat /\ GridGeo.cols >= 1 /\ GridGeo.rows \in Nat /\ GridGeo.rows >= 1
    BY <1>8, <1>10 DEF AtLeast
  <1>12. GridGeo.slotH \in Nat /\ GridGeo.slotH >= 4
    BY <1>7, <1>8
  <1> QED
    BY <1>1, <1>2, <1>11, <1>12 DEF ContentH

\* The card of c drawn under a scroll of sc.
CardAt(c, sc) ==
    /\ CardRow(c) - sc \in 0 .. GridGeo.rows - 1
    /\ 2 + ((c - 1) % GridGeo.cols) * Tier(frame.w).slot + Tier(frame.w).cover <= frame.w
    /\ (CardRow(c) - sc + 1) * GridGeo.slotH <= Saturating(ContentH, 2)

LEMMA RowNatural ==
    ASSUME WinTyped, NEW c \in Nat, c >= 1
    PROVE  CardRow(c) \in Nat
  <1> DEFINE cols == GridGeo.cols
  <1>1. cols \in Nat /\ cols >= 1 /\ CardRow(c) = (c - 1) \div cols
    BY GeometryTyped DEF CardRow
  <1> HIDE DEF cols
  <1>2. (c - 1) \div cols \in Nat
    BY <1>1
  <1> QED
    BY <1>1, <1>2

\* A card in the rows of the window is drawn whole.
LEMMA CardWhole ==
    ASSUME WinTyped, ~TooSmall, NEW c \in Nat, c >= 1, NEW sc \in Nat,
           CardRow(c) - sc \in 0 .. GridGeo.rows - 1, Saturating(ContentH, 2) >= GridGeo.slotH
    PROVE  CardAt(c, sc)
  <1> DEFINE cols == GridGeo.cols
             rows == GridGeo.rows
             slotH == GridGeo.slotH
             room == Saturating(ContentH, 2)
             rowAt == CardRow(c) - sc
             wide == Saturating(frame.w, 2)
             slot == Tier(frame.w).slot
             art == Tier(frame.w).cover
             col == (c - 1) % cols
  <1>1. cols \in Nat /\ cols >= 1 /\ rows \in Nat /\ slotH \in Nat /\ slotH >= 4 /\ ContentH \in Nat
    BY GeometryTyped
  <1>2. room \in Nat /\ wide \in Nat /\ wide = frame.w - 2 /\ frame.w >= 16 /\ frame.w \in Nat
    <2>1. frame.w \in Nat /\ frame.w >= 16
      BY DEF WinTyped, TooSmall
    <2>2. \A a \in Nat : Saturating(a, 2) \in Nat /\ (a >= 2 => Saturating(a, 2) = a - 2)
      BY DEF Saturating, AtLeast
    <2> QED
      BY <1>1, <2>1, <2>2
  <1>3. /\ slot \in {16, 22} /\ art = slot - 2
        /\ frame.w >= slot \/ (frame.w >= art + 2)
    BY <1>2 DEF Tier
  <1>4. cols = AtLeast(wide \div slot, 1) /\ rows = AtLeast(room \div slotH, 1)
    BY DEF GridGeo
  <1>5. rowAt \in Nat /\ rowAt + 1 \in Nat /\ rowAt + 1 <= rows
    BY <1>1
  <1> HIDE DEF cols, rows, slotH, room, rowAt, wide, slot, art
  <1>6. slotH <= room
    BY DEF room, slotH
  <1>7. room \div slotH \in Nat /\ room \div slotH >= 1
    <2>1. room \div slotH \in Nat /\ room % slotH \in 0 .. slotH - 1 /\ room = slotH * (room \div slotH) + (room % slotH)
      BY <1>1, <1>2
    <2> DEFINE q == room \div slotH
               r == room % slotH
    <2>2. q \in Nat /\ r \in 0 .. slotH - 1 /\ room = slotH * q + r
      BY <2>1
    <2> HIDE DEF q, r
    <2>3. q # 0
      BY <1>1, <1>6, <2>2
    <2> QED
      BY <2>2, <2>3 DEF q
  <1>8. (rowAt + 1) * slotH <= room
    <2>1. rowAt + 1 <= room \div slotH
      BY <1>4, <1>5, <1>7 DEF AtLeast
    <2>2. slotH >= 1
      BY <1>1
    <2> QED
      BY <1>1, <1>2, <1>5, <2>1, <2>2, TimesFit
  <1>9. col \in 0 .. cols - 1
    <2> DEFINE prior == c - 1
    <2>1. prior \in Nat
      OBVIOUS
    <2> HIDE DEF prior
    <2>2. prior % cols \in 0 .. cols - 1
      BY <1>1, <2>1
    <2> QED
      BY <2>2 DEF prior
  <1> HIDE DEF col
  <1>10. 2 + col * slot + art <= frame.w
    <2>1. CASE col = 0
      BY <1>2, <1>3, <2>1
    <2>2. CASE col # 0
      <3>1. col \in Nat /\ slot \in Nat /\ slot >= 1 /\ wide \div slot \in Nat
        BY <1>1, <1>2, <1>3, <1>9
      <3>2. col + 1 <= wide \div slot
        BY <1>1, <1>4, <1>9, <2>2, <3>1 DEF AtLeast
      <3>3. (col + 1) * slot <= wide
        <4> DEFINE next == col + 1
        <4>1. next \in Nat /\ next <= wide \div slot /\ wide \in Nat
          BY <1>2, <3>1, <3>2
        <4> HIDE DEF next
        <4>2. next * slot <= wide
          BY ONLY <3>1, <4>1, TimesFit
        <4> QED
          BY <4>2 DEF next
      <3>4. (col + 1) * slot = col * slot + slot
        BY <3>1
      <3>5. col * slot \in Nat
        BY <3>1
      <3> QED
        BY <1>2, <1>3, <3>1, <3>3, <3>4, <3>5
    <2> QED
      BY <2>1, <2>2
  <1> QED
    BY <1>8, <1>10 DEF CardAt, rowAt, rows, slotH, room, slot, art, col, cols

\* The line of a title has the header of its group above it.
LEMMA TitleBelowHeader ==
    ASSUME WinTyped, NEW c \in Nat, c >= 1, c <= Len(InOrder)
    PROVE  TitleLine(c) \in Nat /\ TitleLine(c) >= 2
  <1> DEFINE heads == {InOrder[i].group : i \in 1 .. c}
  <1>1. InOrder \in Seq(Entry) /\ Len(InOrder) \in Nat
    BY GeometryTyped
  <1>2. \A i \in 1 .. c : InOrder[i] \in Entry
    BY <1>1
  <1>3. heads \subseteq GroupNames
    BY <1>2 DEF Entry
  <1>4. InOrder[1].group \in heads
    OBVIOUS
  <1> HIDE DEF heads
  <1>5. Cardinality(heads) \in Nat /\ Cardinality(heads) >= 1
    BY <1>3, <1>4, GroupNamesCounted
  <1>6. TitleLine(c) = 2 * (c - 1) + 2 * Cardinality(heads) + Cardinality(heads) - 1
    BY DEF TitleLine, heads
  <1> QED
    BY <1>5, <1>6

-----------------------------------------------------------------------------
LEMMA WindowsStart ==
    ASSUME WindowsAssumption, WindowsInit
    PROVE  WinInv
  <1>1. listView \in {"browse", "history", "discover"} /\ frame \in Frames /\ cell \in CellKinds
        /\ cursor = 1 /\ scroll = 0 /\ steered = FALSE
    BY DEF WindowsInit
  <1>2. PICK n \in 0 .. MaxListed[listView] : \E groups \in [1 .. n -> {"watching", "paused"}] :
           contents = [i \in 1 .. n |-> [id |-> i, group |-> groups[i]]]
    BY DEF WindowsInit
  <1>3. PICK groups \in [1 .. n -> {"watching", "paused"}] :
           contents = [i \in 1 .. n |-> [id |-> i, group |-> groups[i]]]
    BY <1>2
  <1>4. \A i \in 1 .. n : [id |-> i, group |-> groups[i]] \in Entry
    BY DEF Entry, GroupNames
  <1>5. n \in Nat
    BY <1>2
  <1>6. contents \in Seq(Entry)
    BY <1>3, <1>4, <1>5
  <1>7. InOrder \in Seq(Entry)
    BY <1>6, OrderTyped DEF InOrder
  <1>8. WinTyped
    BY <1>1, <1>6, <1>7 DEF WinTyped, AtLeast, WindowsAssumption
  <1> QED
    BY <1>1, <1>8 DEF WinInv, SelectionSeen, HeaderSeen, RowSeen

\* A key of the list.
LEMMA CursorSteers ==
    ASSUME WinInv, NEW c \in Nat, c >= 1, c <= Len(InOrder), CursorTo(c)
    PROVE  WinInv'
  <1>1. cursor' = c /\ scroll' = Scrolled(c)
        /\ listView' = listView /\ frame' = frame /\ cell' = cell /\ contents' = contents /\ kept' = kept
    BY DEF CursorTo
  <1>2. WinTyped /\ InOrder \in Seq(Entry) /\ ContentH \in Nat /\ GridGeo.rows \in Nat /\ GridGeo.rows >= 1
    BY GeometryTyped DEF WinInv
  <1>3. InOrder' = InOrder
    BY <1>1 DEF InOrder, Order
  <1>4. ContentH' = ContentH /\ GridGeo' = GridGeo /\ TooSmall' = TooSmall
    BY <1>1 DEF ContentH, GridGeo, CardCoverH, TooSmall
  <1>5. CardRow(c) \in Nat
    BY <1>2, RowNatural
  <1>6. TitleLine(c) \in Nat /\ TitleLine(c) >= 2
    BY <1>2, TitleBelowHeader
  <1>71. scroll \in Nat
    BY <1>2 DEF WinTyped
  <1>7. /\ listView = "browse" => LET v == AtLeast(ContentH, 1)
                                 IN scroll' \in Nat /\ scroll' <= c - 1 /\ c - 1 < scroll' + v
        /\ listView = "discover" => /\ scroll' \in Nat
                                    /\ scroll' <= CardRow(c) /\ CardRow(c) < scroll' + GridGeo.rows
        /\ listView = "history" =>
              /\ scroll' \in Nat
              /\ ContentH >= 2 => scroll' <= TitleLine(c) /\ TitleLine(c) + 1 < scroll' + ContentH
              /\ ContentH >= 4 => scroll' <= TitleLine(c) - 2 /\ TitleLine(c) - 2 < scroll' + ContentH
    <2>1. CASE listView = "browse"
      <3> DEFINE v == AtLeast(ContentH, 1)
                 rowAt == c - 1
      <3>1. v \in Nat /\ v >= 1 /\ rowAt \in Nat /\ scroll' = Clamp(scroll, rowAt, v)
        BY <1>1, <1>2, <2>1 DEF Scrolled, AtLeast
      <3> HIDE DEF v, rowAt
      <3>2. scroll' \in Nat /\ scroll' <= rowAt /\ rowAt < scroll' + v
        BY <1>71, <3>1, ClampWithin
      <3> QED
        BY <2>1, <3>2 DEF v, rowAt
    <2>2. CASE listView = "discover"
      <3> DEFINE v == GridGeo.rows
                 rowAt == CardRow(c)
      <3>1. v \in Nat /\ v >= 1 /\ rowAt \in Nat /\ scroll' = Clamp(scroll, rowAt, v)
        BY <1>1, <1>2, <1>5, <2>2 DEF Scrolled
      <3> HIDE DEF v, rowAt
      <3>2. scroll' \in Nat /\ scroll' <= rowAt /\ rowAt < scroll' + v
        BY <1>71, <3>1, ClampWithin
      <3> QED
        BY <2>2, <3>2 DEF v, rowAt
    <2>3. CASE listView = "history"
      <3> DEFINE v == ContentH
                 title == TitleLine(c)
      <3>1. v \in Nat /\ title \in Nat /\ title >= 2 /\ scroll' = IF v = 0 THEN scroll ELSE IntoView(scroll, title, v)
        BY <1>1, <1>2, <1>6, <2>3 DEF Scrolled
      <3> HIDE DEF v, title
      <3>2. CASE v = 0
        BY <1>71, <2>3, <3>1, <3>2 DEF v, title
      <3>3. CASE v # 0
        <4>0. v >= 1 /\ scroll' = IntoView(scroll, title, v)
          BY <3>1, <3>3
        <4>1. /\ scroll' \in Nat
              /\ v >= 2 => scroll' <= title /\ title + 1 < scroll' + v
              /\ v >= 4 => scroll' <= title - 2 /\ title - 2 < scroll' + v
          BY <1>71, <3>1, <4>0, IntoViewWithin
        <4> QED
          BY <2>3, <4>1 DEF v, title
      <3> QED
        BY <3>2, <3>3
    <2> QED
      BY <1>2, <2>1, <2>2, <2>3 DEF WinTyped
  <1>72. scroll' \in Nat
    BY <1>2, <1>7 DEF WinTyped
  <1>8. WinTyped'
    BY <1>1, <1>2, <1>3, <1>72 DEF WinTyped, AtLeast
  <1>9. TitleLine(cursor)' = TitleLine(c)
    BY <1>1, <1>3 DEF TitleLine
  <1>10. \A d : CardDrawn(d)' <=> CardAt(d, scroll')
    BY <1>1, <1>4 DEF CardDrawn, CardAt, CardRow
  <1>11. \A line : Drawn(line)' <=> scroll' <= line /\ line < scroll' + ContentH
    BY <1>4 DEF Drawn
  <1>12. SelectionSeen'
    <2>1. CASE listView = "browse"
      <3>1. ~TooSmall => ContentH >= 1
        BY <1>2 DEF TooSmall, ContentH, Saturating, AtLeast, WinTyped
      <3>2. ~TooSmall => scroll' <= c - 1 /\ c - 1 < scroll' + ContentH
        BY <1>2, <1>7, <2>1, <3>1 DEF AtLeast
      <3> QED
        BY <1>1, <1>4, <1>11, <2>1, <3>2 DEF SelectionSeen
    <2>2. CASE listView = "discover"
      <3>1. CardRow(c) - scroll' \in 0 .. GridGeo.rows - 1
        BY <1>2, <1>5, <1>7, <1>72, <2>2
      <3>2. ~TooSmall /\ Saturating(ContentH, 2) >= GridGeo.slotH => CardAt(c, scroll')
        BY <1>2, <1>72, <3>1, CardWhole
      <3>3. ~TooSmall /\ Saturating(ContentH, 2) >= GridGeo.slotH => CardDrawn(c)'
        BY <1>10, <3>2
      <3> QED
        BY <1>1, <1>4, <2>2, <3>3 DEF SelectionSeen, CardDrawn
    <2>3. CASE listView = "history"
      <3> SUFFICES ASSUME ContentH' >= 2
                   PROVE  Drawn(TitleLine(cursor))' /\ Drawn(TitleLine(cursor) + 1)'
        BY <1>1, <2>3 DEF SelectionSeen
      <3>1. scroll' <= TitleLine(c) /\ TitleLine(c) + 1 < scroll' + ContentH
        BY <1>4, <1>7, <2>3
      <3>2. scroll' <= TitleLine(c) + 1 /\ TitleLine(c) < scroll' + ContentH
        BY <1>2, <1>6, <1>72, <3>1
      <3>3. Drawn(TitleLine(cursor))'
        BY <1>4, <1>9, <3>1, <3>2 DEF Drawn
      <3>4. Drawn(TitleLine(cursor) + 1)'
        BY <1>4, <1>9, <3>1, <3>2 DEF Drawn
      <3> QED
        BY <3>3, <3>4
    <2> QED
      BY <1>2, <2>1, <2>2, <2>3 DEF WinTyped
  <1>13. HeaderSeen'
    <2> SUFFICES ASSUME steered', listView' = "history", ContentH' >= 4
                 PROVE  Drawn(TitleLine(cursor) - 2)'
      BY DEF HeaderSeen
    <2> QED
      BY <1>1, <1>4, <1>7, <1>9 DEF Drawn
  <1>14. RowSeen'
    <2> SUFFICES ASSUME listView' = "discover", ~TooSmall', Saturating(ContentH', 2) >= GridGeo'.slotH,
                        NEW d \in DOMAIN InOrder', CardRow(d)' \in scroll' .. scroll' + GridGeo'.rows - 1
                 PROVE  CardDrawn(d)'
      BY DEF RowSeen
    <2>1. d \in Nat /\ d >= 1
      BY <1>2, <1>3
    <2>2. CardRow(d)' = CardRow(d) /\ CardRow(d) \in Nat
      BY <1>2, <1>4, <2>1, RowNatural DEF CardRow
    <2>3. CardRow(d) - scroll' \in 0 .. GridGeo.rows - 1
      BY <1>2, <1>4, <1>72, <2>2
    <2>4. CardAt(d, scroll')
      BY <1>2, <1>4, <1>72, <2>1, <2>3, CardWhole
    <2> QED
      BY <1>10, <2>4
  <1> QED
    BY <1>8, <1>12, <1>13, <1>14 DEF WinInv

LEMMA NoKeyNoClaim ==
    ASSUME WinInv, WinTyped', ~steered'
    PROVE  WinInv'
  BY DEF WinInv, SelectionSeen, HeaderSeen, RowSeen

LEMMA FollowsTyped ==
    ASSUME WinTyped, NEW s \in Seq(Entry), NEW k, Rebuilt(s, k), listView' = listView
    PROVE  /\ contents' = s /\ InOrder' = Order(s, k) /\ cursor' \in Nat /\ cursor' >= 1
           /\ cursor' <= AtLeast(Len(InOrder'), 1)
           /\ (cursor \in DOMAIN InOrder /\ \E c \in DOMAIN InOrder' : InOrder'[c].id = InOrder[cursor].id)
                 => InOrder'[cursor'].id = InOrder[cursor].id
  <1> DEFINE new == Order(s, k)
             old == InOrder
             again == {c \in DOMAIN new : cursor \in DOMAIN old /\ new[c].id = old[cursor].id}
  <1>1. contents' = s /\ kept' = k /\ cursor' = Follows(old, new)
    BY DEF Rebuilt
  <1>2. InOrder' = new
    BY <1>1 DEF InOrder, Order
  <1>3. new \in Seq(Entry) /\ Len(new) \in Nat /\ DOMAIN new = 1 .. Len(new)
    BY OrderTyped
  <1>4. cursor' = IF again # {} THEN CHOOSE c \in again : TRUE ELSE AtLeast(AtMost(cursor, Len(new)), 1)
    BY <1>1 DEF Follows
  <1> HIDE DEF new, old
  <1>5. CASE again # {}
    <2>1. cursor' \in again
      BY <1>4, <1>5
    <2>2. cursor' \in 1 .. Len(new) /\ (cursor \in DOMAIN old => new[cursor'].id = old[cursor].id)
      BY <1>3, <2>1
    <2> QED
      BY <1>1, <1>2, <1>3, <2>2 DEF AtLeast, new, old
  <1>6. CASE again = {}
    <2>1. cursor' = AtLeast(AtMost(cursor, Len(new)), 1) /\ cursor \in Nat /\ cursor >= 1
      BY <1>4, <1>6 DEF WinTyped
    <2>2. cursor' \in Nat /\ cursor' >= 1 /\ cursor' <= AtLeast(Len(new), 1)
      BY <1>3, <2>1 DEF AtLeast, AtMost
    <2>3. ~(cursor \in DOMAIN old /\ \E c \in DOMAIN new : new[c].id = old[cursor].id)
      BY <1>6
    <2> QED
      BY <1>1, <1>2, <2>2, <2>3 DEF new, old
  <1> QED
    BY <1>5, <1>6

\* h and l in a row of cards.
LEMMA WrapsInRow ==
    ASSUME WinTyped, InOrder # <<>>, NEW d \in {-1, 1}, NEW start, start = CardRow(cursor) * GridGeo.cols + 1
    PROVE  /\ Wraps(cursor, start, d) \in 1 .. Len(InOrder)
           /\ CardRow(Wraps(cursor, start, d)) = CardRow(cursor)
           /\ Wraps(Wraps(cursor, start, d), start, -d) = cursor
  <1> DEFINE cols == GridGeo.cols
             q == (cursor - 1) \div cols
             x == (cursor - 1) % cols
             size == Len(InOrder)
             n == AtMost(size - start + 1, cols)
             y == (x + d) % n
  <1>1. cols \in Nat /\ cols >= 1 /\ size \in Nat
    BY GeometryTyped
  <1>2. cursor \in Nat /\ cursor >= 1 /\ cursor <= size
    <2>1. size # 0
      BY GeometryTyped
    <2> QED
      BY <1>1, <2>1 DEF WinTyped, AtLeast
  <1>3. CardRow(cursor) = q /\ start = q * cols + 1
    BY DEF CardRow
  <1>4. \A c : CardRow(c) = (c - 1) \div cols
    BY DEF CardRow
  <1>5. \A c, e : Wraps(c, start, e) = start + ((c - start + e) % n)
    BY DEF Wraps
  <1> HIDE DEF cols, size
  <1>6. q \in Nat /\ x \in 0 .. cols - 1 /\ cursor - 1 = cols * q + x
    <2> DEFINE prior == cursor - 1
    <2>1. prior \in Nat
      BY <1>2
    <2> HIDE DEF prior
    <2>2. prior \div cols \in Nat /\ prior % cols \in 0 .. cols - 1
          /\ prior = cols * (prior \div cols) + (prior % cols)
      BY <1>1, <2>1
    <2> QED
      BY <2>2 DEF prior
  <1> HIDE DEF q, x
  <1>7. q * cols = cols * q /\ q * cols \in Nat
    BY <1>1, <1>6
  <1>8. cursor - start = x /\ start \in Nat /\ start >= 1 /\ cursor = start + x
    BY <1>1, <1>2, <1>3, <1>6, <1>7
  <1>9. n \in Nat /\ n >= 1 /\ x \in 0 .. n - 1 /\ n <= cols /\ n <= size - start + 1
    <2> DEFINE room == size - start + 1
    <2>1. room \in Int /\ x + 1 <= room /\ x + 1 <= cols /\ x \in Nat
      BY <1>1, <1>2, <1>6, <1>8
    <2>2. n = AtMost(room, cols)
      OBVIOUS
    <2> HIDE DEF room, n
    <2>3. n \in Nat /\ n >= 1 /\ x \in 0 .. n - 1 /\ n <= cols /\ n <= room
      BY <1>1, <2>1, <2>2 DEF AtMost
    <2> QED
      BY <2>3 DEF room
  <1> HIDE DEF n
  <1>10. y \in 0 .. n - 1 /\ (y - d) % n = x
    BY <1>9, NextPlace
  <1>11. Wraps(cursor, start, d) = start + y
    BY <1>5, <1>8
  <1>111. -d \in Int /\ d \in Int
    OBVIOUS
  <1> HIDE DEF y
  <1>12. start + y \in 1 .. size
    BY <1>1, <1>8, <1>9, <1>10
  <1>13. CardRow(start + y) = q
    <2>1. start + y - 1 = q * cols + y /\ y \in 0 .. cols - 1
      <3> DEFINE prior == q * cols
      <3>1. prior \in Nat /\ start = prior + 1
        BY <1>3, <1>7
      <3> HIDE DEF prior
      <3>2. start + y - 1 = prior + y /\ y \in 0 .. cols - 1
        BY <1>1, <1>9, <1>10, <3>1
      <3> QED
        BY <3>2 DEF prior
    <2>2. (q * cols + y) \div cols = q
      BY <1>1, <1>6, <2>1, RowOf
    <2> QED
      BY <1>4, <2>1, <2>2
  <1>14. Wraps(start + y, start, -d) = cursor
    <2>1. (start + y) - start + (-d) = y - d
      BY <1>8, <1>10, <1>111
    <2> QED
      BY <1>5, <1>8, <1>10, <2>1
  <1> QED
    BY <1>3, <1>11, <1>12, <1>13, <1>14 DEF size

\* What a reload and a filter may never do.
KeepsItsShow ==
    listView = "history" /\ cursor \in DOMAIN InOrder /\ ~steered'
          /\ (contents' # contents \/ kept' # {contents[i].id : i \in DOMAIN contents})
          /\ (\E c \in DOMAIN InOrder' : InOrder'[c].id = InOrder[cursor].id)
        => InOrder'[cursor'].id = InOrder[cursor].id

LEMMA KeysSteer ==
    ASSUME WinInv, NEW d \in {-1, 1}, NavBy(d) \/ NavAcross(d)
    PROVE  WinInv' /\ KeepsItsShow
  <1>1. WinTyped /\ Len(InOrder) \in Nat /\ InOrder \in Seq(Entry) /\ cursor \in Nat
    BY GeometryTyped DEF WinInv, WinTyped
  <1>2. CASE NavBy(d)
    <2> DEFINE by == IF listView = "discover" THEN GridGeo.cols ELSE 1
               c == AtLeast(AtMost(cursor + d * by, Len(InOrder)), 1)
    <2>1. CursorTo(c) /\ InOrder # <<>>
      BY <1>2 DEF NavBy, CursorTo
    <2>2. by \in Nat
      BY <1>1, GeometryTyped
    <2> HIDE DEF by
    <2>3. d * by \in Int
      BY <2>2
    <2>4. Len(InOrder) >= 1
      BY <1>1, <2>1
    <2>5. c \in Nat /\ c >= 1 /\ c <= Len(InOrder)
      BY <1>1, <2>3, <2>4 DEF AtLeast, AtMost
    <2> HIDE DEF c
    <2> QED
      BY <2>1, <2>5, CursorSteers DEF CursorTo, KeepsItsShow
  <1>3. CASE NavAcross(d)
    <2> DEFINE start == CardRow(cursor) * GridGeo.cols + 1
               c == Wraps(cursor, start, d)
    <2>1. CursorTo(c) /\ InOrder # <<>>
      BY <1>3 DEF NavAcross
    <2>2. start = CardRow(cursor) * GridGeo.cols + 1
      OBVIOUS
    <2> HIDE DEF start
    <2>3. c \in 1 .. Len(InOrder)
      BY <1>1, <2>1, <2>2, WrapsInRow
    <2>4. c \in Nat /\ c >= 1 /\ c <= Len(InOrder)
      BY <1>1, <2>3
    <2> HIDE DEF c
    <2> QED
      BY <2>1, <2>4, CursorSteers DEF CursorTo, KeepsItsShow
  <1> QED
    BY <1>2, <1>3

LEMMA WindowsStep ==
    ASSUME WindowsAssumption, WinInv, [WindowsNext]_windowVars
    PROVE  WinInv' /\ KeepsItsShow
  <1>1. WinTyped /\ Len(InOrder) \in Nat /\ InOrder \in Seq(Entry) /\ cursor \in Nat /\ contents \in Seq(Entry)
    BY GeometryTyped DEF WinInv, WinTyped
  <1>2. ASSUME NEW d \in {-1, 1}, NavBy(d) \/ NavAcross(d)
        PROVE  WinInv' /\ KeepsItsShow
    BY <1>2, KeysSteer
  <1>3. ASSUME NEW top \in BOOLEAN, Jump(top)
        PROVE  WinInv' /\ KeepsItsShow
    <2> DEFINE c == IF top THEN 1 ELSE Len(InOrder)
    <2>1. CursorTo(c) /\ InOrder # <<>> /\ steered'
      BY <1>3 DEF Jump, CursorTo
    <2>2. c \in Nat /\ c >= 1 /\ c <= Len(InOrder)
      BY <1>1, <2>1
    <2> HIDE DEF c
    <2> QED
      BY <2>1, <2>2, CursorSteers DEF KeepsItsShow
  <1>4. CASE Lands
    <2>1. PICK c \in DOMAIN InOrder : CursorTo(c)
      BY <1>4 DEF Lands
    <2>2. c \in Nat /\ c >= 1 /\ c <= Len(InOrder) /\ steered'
      BY <1>1, <2>1 DEF CursorTo
    <2> QED
      BY <2>1, <2>2, CursorSteers DEF KeepsItsShow
  <1>5. CASE ResizeFrame
    <2>1. ~steered' /\ frame' \in Frames /\ listView' = listView /\ cell' = cell /\ contents' = contents
          /\ kept' = kept /\ cursor' = cursor /\ scroll' = scroll
      BY <1>5 DEF ResizeFrame, Changes
    <2>2. InOrder' = InOrder
      BY <2>1 DEF InOrder, Order
    <2>3. WinTyped'
      BY <1>1, <2>1, <2>2 DEF WinTyped, WindowsAssumption, AtLeast
    <2> QED
      BY <2>1, <2>2, <2>3, NoKeyNoClaim DEF KeepsItsShow
  <1>6. CASE NextPageLands
    <2> DEFINE e == [id |-> Len(contents) + 1, group |-> "watching"]
    <2>1. ~steered' /\ listView # "history" /\ contents' = Append(contents, e) /\ listView' = listView /\ cell' = cell
          /\ frame' = frame /\ cursor' = cursor /\ scroll' = scroll
      BY <1>6 DEF NextPageLands, Changes
    <2>2. e \in Entry
      BY <1>1 DEF Entry, GroupNames
    <2> HIDE DEF e
    <2>3. contents' \in Seq(Entry) /\ Len(contents') = Len(contents) + 1
      BY <1>1, <2>1, <2>2
    <2>4. InOrder = contents /\ InOrder' = contents'
      BY <2>1 DEF InOrder, Order
    <2>5. WinTyped'
      BY <1>1, <2>1, <2>3, <2>4 DEF WinTyped, AtLeast
    <2> QED
      BY <2>1, <2>5, NoKeyNoClaim DEF KeepsItsShow
  <1>7. CASE FirstPageLands
    <2>1. ~steered' /\ listView = "browse" /\ listView' = listView /\ cell' = cell
          /\ frame' = frame /\ cursor' = 1 /\ scroll' = 0
      BY <1>7 DEF FirstPageLands, Changes
    <2>2. PICK n \in 0 .. MaxListed[listView] : contents' = [i \in 1 .. n |-> [id |-> i, group |-> "watching"]]
      BY <1>7 DEF FirstPageLands
    <2>3. \A i \in 1 .. n : [id |-> i, group |-> "watching"] \in Entry
      BY DEF Entry, GroupNames
    <2>4. contents' \in Seq(Entry)
      BY <2>2, <2>3
    <2>5. InOrder' = contents'
      BY <2>1 DEF InOrder, Order
    <2>6. WinTyped'
      BY <1>1, <2>1, <2>4, <2>5 DEF WinTyped, AtLeast
    <2> QED
      BY <2>1, <2>6, NoKeyNoClaim DEF KeepsItsShow
  <1>8. ASSUME NEW s \in Seq(Entry), NEW k, Rebuilt(s, k), ~steered', listView' = listView, frame' = frame,
               cell' = cell, scroll' \in Nat
        PROVE  WinInv' /\ KeepsItsShow
    <2>1. /\ contents' = s /\ InOrder' = Order(s, k) /\ cursor' \in Nat /\ cursor' >= 1
          /\ cursor' <= AtLeast(Len(InOrder'), 1)
          /\ (cursor \in DOMAIN InOrder /\ \E c \in DOMAIN InOrder' : InOrder'[c].id = InOrder[cursor].id)
                => InOrder'[cursor'].id = InOrder[cursor].id
      BY <1>1, <1>8, FollowsTyped
    <2>2. AtLeast(Len(InOrder), 1)' = AtLeast(Len(InOrder'), 1)
      BY DEF AtLeast
    <2>3. WinTyped'
      BY <1>1, <1>8, <2>1, <2>2 DEF WinTyped
    <2> QED
      BY <1>8, <2>1, <2>3, NoKeyNoClaim DEF KeepsItsShow
  <1>9. CASE Reloads
    <2>1. ~steered' /\ listView' = listView /\ frame' = frame /\ cell' = cell /\ scroll' = scroll /\ scroll' \in Nat
      BY <1>1, <1>9 DEF Reloads, Changes, WinTyped
    <2>2. PICK i \in DOMAIN contents :
            \/ Rebuilt([contents EXCEPT ![i].group = "completed"], kept)
            \/ Rebuilt(RemoveAt(contents, i), kept)
            \/ Rebuilt(<<contents[i]>> \o RemoveAt(contents, i), kept)
      BY <1>9 DEF Reloads
    <2>3. contents[i] \in Entry /\ i \in 1 .. Len(contents)
      BY <1>1
    <2>4. [contents EXCEPT ![i].group = "completed"] \in Seq(Entry)
      <3>1. [contents[i] EXCEPT !.group = "completed"] \in Entry
        BY <2>3 DEF Entry, GroupNames
      <3>2. [contents EXCEPT ![i].group = "completed"] = [contents EXCEPT ![i] = [contents[i] EXCEPT !.group = "completed"]]
        OBVIOUS
      <3> QED
        BY <1>1, <2>3, <3>1, <3>2
    <2>5. RemoveAt(contents, i) \in Seq(Entry)
      <3>1. SubSeq(contents, 1, i - 1) \in Seq(Entry) /\ SubSeq(contents, i + 1, Len(contents)) \in Seq(Entry)
        BY <1>1, <2>3
      <3> QED
        BY <3>1, ConcatProperties DEF RemoveAt
    <2>6. <<contents[i]>> \o RemoveAt(contents, i) \in Seq(Entry)
      <3>1. <<contents[i]>> \in Seq(Entry)
        BY <2>3
      <3> QED
        BY <2>5, <3>1, ConcatProperties
    <2> QED
      BY <1>8, <2>1, <2>2, <2>4, <2>5, <2>6
  <1>10. CASE FilterEdited
    <2>1. ~steered' /\ listView' = listView /\ frame' = frame /\ cell' = cell /\ scroll' \in Nat
      BY <1>10 DEF FilterEdited, Changes
    <2>2. \E k \in SUBSET {contents[i].id : i \in DOMAIN contents} : Rebuilt(contents, k)
      BY <1>10 DEF FilterEdited
    <2> QED
      BY <1>1, <1>8, <2>1, <2>2
  <1>11. CASE FilterCleared
    <2>1. ~steered' /\ listView' = listView /\ frame' = frame /\ cell' = cell /\ contents' = contents
          /\ kept' = {contents[i].id : i \in DOMAIN contents} /\ cursor' = 1 /\ scroll' = 0
      BY <1>11 DEF FilterCleared, Changes
    <2>2. InOrder' = Order(contents, kept')
      BY <2>1 DEF InOrder, Order
    <2>3. InOrder' \in Seq(Entry)
      BY <1>1, <2>2, OrderTyped
    <2>4. WinTyped'
      BY <1>1, <2>1, <2>3 DEF WinTyped, AtLeast
    <2> QED
      BY <2>1, <2>4, NoKeyNoClaim DEF KeepsItsShow
  <1>12. CASE UNCHANGED windowVars
    <2>1. InOrder' = InOrder /\ cursor' = cursor
      BY <1>12 DEF windowVars, InOrder, Order
    <2>2. WinTyped'
      BY <1>1, <1>12, <2>1 DEF windowVars, WinTyped, AtLeast
    <2>3. SelectionSeen'
      BY <1>12 DEF WinInv, windowVars, SelectionSeen, Drawn, TooSmall, ContentH, GridGeo, CardCoverH, CardDrawn, CardRow,
                   TitleLine, InOrder, Order
    <2>4. HeaderSeen'
      BY <1>12 DEF WinInv, windowVars, HeaderSeen, Drawn, ContentH, TitleLine, InOrder, Order
    <2>5. RowSeen'
      BY <1>12 DEF WinInv, windowVars, RowSeen, TooSmall, ContentH, GridGeo, CardCoverH, CardDrawn, CardRow, InOrder, Order
    <2>6. WinInv'
      BY <2>2, <2>3, <2>4, <2>5 DEF WinInv
    <2> QED
      BY <2>1, <2>6 DEF KeepsItsShow
  <1> QED
    BY <1>2, <1>3, <1>4, <1>5, <1>6, <1>7, <1>9, <1>10, <1>11, <1>12 DEF WindowsNext

\* What every list and every grid of cards keeps between its keys and in them.
THEOREM WindowsAreSound == WindowsSpec => WindowsSound
  <1>1. WindowsInit => WinInv
    BY WindowsAssumption, WindowsStart
  <1>2. WinInv /\ [WindowsNext]_windowVars => WinInv' /\ KeepsItsShow
    BY WindowsAssumption, WindowsStep
  <1>3. WinInv => SelectionSeen /\ HeaderSeen /\ RowSeen /\ AcrossStays
    <2>1. ASSUME WinInv PROVE AcrossStays
      BY <2>1, WrapsInRow DEF WinInv, AcrossStays
    <2> QED
      BY <2>1 DEF WinInv
  <1>4. WinInv /\ [WindowsNext]_windowVars => [listView = "history" /\ cursor \in DOMAIN InOrder /\ ~steered'
          /\ (contents' # contents \/ kept' # {contents[i].id : i \in DOMAIN contents})
          /\ (\E c \in DOMAIN InOrder' : InOrder'[c].id = InOrder[cursor].id)
        => InOrder'[cursor'].id = InOrder[cursor].id]_windowVars
    BY <1>2 DEF KeepsItsShow
  <1> QED
    BY <1>1, <1>2, <1>3, <1>4, PTL DEF WindowsSpec, WindowsSound, SelectionFollows

-----------------------------------------------------------------------------
\* The entries are those of the list, and so is what the filter keeps of them.
FromList(s) == \A i \in DOMAIN s : s[i].id \in 1 .. MaxListed[listView]
OwnListed == FromList(contents) /\ kept \subseteq 1 .. MaxListed[listView] /\ changes \in 0 .. MaxChanges

LEMMA OwnStart ==
    ASSUME WindowsInit
    PROVE  OwnListed
  <1>1. PICK n \in 0 .. MaxListed[listView] : \E groups \in [1 .. n -> {"watching", "paused"}] :
           contents = [i \in 1 .. n |-> [id |-> i, group |-> groups[i]]] /\ kept = 1 .. n
    BY DEF WindowsInit
  <1>2. PICK groups \in [1 .. n -> {"watching", "paused"}] :
           contents = [i \in 1 .. n |-> [id |-> i, group |-> groups[i]]] /\ kept = 1 .. n
    BY <1>1
  <1>3. MaxListed[listView] \in Nat /\ MaxChanges \in Nat
    BY WindowsAssumption DEF WindowsInit
  <1>4. 1 .. n \subseteq 1 .. MaxListed[listView] /\ 0 \in 0 .. MaxChanges
    BY <1>1, <1>3
  <1>5. DOMAIN contents = 1 .. n /\ \A i \in 1 .. n : contents[i].id = i
    BY <1>2
  <1> QED
    BY <1>2, <1>4, <1>5 DEF OwnListed, FromList, WindowsInit

LEMMA OwnStep ==
    ASSUME WinTyped, OwnListed, [WindowsNext]_windowVars
    PROVE  OwnListed'
  <1> DEFINE most == MaxListed[listView]
  <1>1. most \in Nat /\ MaxChanges \in Nat /\ contents \in Seq(Entry) /\ Len(contents) \in Nat
    BY WindowsAssumption DEF WinTyped
  <1>2. /\ \A i \in DOMAIN contents : contents[i].id \in 1 .. most
        /\ kept \subseteq 1 .. most /\ changes \in 0 .. MaxChanges
    BY DEF OwnListed, FromList
  <1>3. ASSUME UNCHANGED listView, changes' \in 0 .. MaxChanges, kept' \subseteq 1 .. most,
               \A i \in DOMAIN contents' : contents'[i].id \in 1 .. most
        PROVE  OwnListed'
    BY <1>3 DEF OwnListed, FromList
  <1>4. ASSUME NEW c, CursorTo(c) \/ UNCHANGED windowVars
        PROVE  OwnListed'
    BY <1>2, <1>3, <1>4 DEF CursorTo, windowVars
  <1>5. Changes => changes' \in 0 .. MaxChanges
    BY <1>1, <1>2 DEF Changes
  <1>6. ASSUME NEW d \in {-1, 1}, NEW top \in BOOLEAN, NavBy(d) \/ NavAcross(d) \/ Jump(top) \/ Lands
        PROVE  OwnListed'
    BY <1>4, <1>6 DEF NavBy, NavAcross, Jump, Lands
  <1>7. CASE ResizeFrame
    BY <1>2, <1>3, <1>5, <1>7 DEF ResizeFrame
  <1>8. CASE NextPageLands
    <2> DEFINE e == [id |-> Len(contents) + 1, group |-> "watching"]
    <2>1. /\ contents' = Append(contents, e) /\ kept' = kept \cup {Len(contents) + 1} /\ UNCHANGED listView
          /\ Len(contents) < most /\ Changes
      BY <1>8 DEF NextPageLands
    <2>2. e.id = Len(contents) + 1 /\ Len(contents) + 1 \in 1 .. most
      BY <1>1, <2>1
    <2> HIDE DEF e, most
    <2>3. DOMAIN contents' = 1 .. Len(contents) + 1
      BY <1>1, <2>1
    <2>4. \A i \in 1 .. Len(contents) + 1 : contents'[i] = IF i = Len(contents) + 1 THEN e ELSE contents[i]
      BY <1>1, <2>1
    <2>5. ASSUME NEW i \in DOMAIN contents'
          PROVE  contents'[i].id \in 1 .. most
      <3>1. CASE i = Len(contents) + 1
        BY <2>2, <2>3, <2>4, <3>1
      <3>2. CASE i # Len(contents) + 1
        <4>1. i \in DOMAIN contents
          BY <1>1, <2>3, <3>2
        <4> QED
          BY <1>2, <2>3, <2>4, <3>2, <4>1
      <3> QED
        BY <3>1, <3>2
    <2>6. kept' \subseteq 1 .. most
      BY <1>2, <2>1, <2>2
    <2> QED
      BY <1>3, <1>5, <2>1, <2>5, <2>6
  <1>9. CASE FirstPageLands
    <2>1. PICK n \in 0 .. most :
             contents' = [i \in 1 .. n |-> [id |-> i, group |-> "watching"]] /\ kept' = 1 .. n
      BY <1>9 DEF FirstPageLands
    <2>2. UNCHANGED listView /\ Changes
      BY <1>9 DEF FirstPageLands
    <2>3. 1 .. n \subseteq 1 .. most
      BY <1>1, <2>1
    <2>4. DOMAIN contents' = 1 .. n /\ \A i \in 1 .. n : contents'[i].id = i
      BY <2>1
    <2> QED
      BY <1>3, <1>5, <2>1, <2>2, <2>3, <2>4
  <1>10. ASSUME NEW s, NEW k, k \subseteq 1 .. most, \A j \in DOMAIN s : s[j].id \in 1 .. most, Rebuilt(s, k),
                Changes, UNCHANGED listView
         PROVE  OwnListed'
    BY <1>3, <1>5, <1>10 DEF Rebuilt
  <1>11. CASE Reloads
    <2>1. PICK i \in DOMAIN contents :
            \/ Rebuilt([contents EXCEPT ![i].group = "completed"], kept)
            \/ Rebuilt(RemoveAt(contents, i), kept)
            \/ Rebuilt(<<contents[i]>> \o RemoveAt(contents, i), kept)
      BY <1>11 DEF Reloads
    <2>2. Changes /\ UNCHANGED listView
      BY <1>11 DEF Reloads
    <2>3. contents[i] \in Entry /\ i \in 1 .. Len(contents)
      BY <1>1
    <2> DEFINE done == [contents EXCEPT ![i].group = "completed"]
               rest == RemoveAt(contents, i)
               front == <<contents[i]>> \o rest
    <2>4. \A j \in DOMAIN done : done[j].id \in 1 .. most
      <3>1. DOMAIN done = DOMAIN contents
        BY <1>1
      <3>2. ASSUME NEW j \in DOMAIN contents
            PROVE  done[j].id = contents[j].id
        <4>1. contents[j] \in Entry
          BY <1>1
        <4>2. done[j] = IF j = i THEN [contents[j] EXCEPT !.group = "completed"] ELSE contents[j]
          BY <1>1
        <4> QED
          BY <4>1, <4>2 DEF Entry
      <3> QED
        BY <1>2, <3>1, <3>2
    <2>5. rest \in Seq(Entry) /\ \A j \in DOMAIN rest : rest[j].id \in 1 .. most
      <3> DEFINE left == SubSeq(contents, 1, i - 1)
                 right == SubSeq(contents, i + 1, Len(contents))
      <3>1. /\ left \in Seq(Entry) /\ Len(left) = i - 1 /\ \A j \in 1 .. (i - 1) : left[j] = contents[j]
            /\ right \in Seq(Entry) /\ Len(right) = Len(contents) - i
            /\ \A j \in 1 .. (Len(contents) - i) : right[j] = contents[i + j]
        BY <1>1, <2>3
      <3>2. rest = left \o right
        BY DEF RemoveAt
      <3> HIDE DEF left, right, rest
      <3>3. /\ rest \in Seq(Entry) /\ Len(rest) = Len(left) + Len(right)
            /\ \A j \in 1 .. Len(rest) : rest[j] = IF j <= Len(left) THEN left[j] ELSE right[j - Len(left)]
        <4>1. left \in Seq(Entry) /\ right \in Seq(Entry)
          BY <3>1
        <4> QED
          BY <3>2, <4>1, ConcatProperties
      <3>4. ASSUME NEW j \in DOMAIN rest
            PROVE  rest[j].id \in 1 .. most
        <4>1. j \in 1 .. Len(rest)
          BY <3>3
        <4>2. CASE j <= Len(left)
          <5>1. j \in 1 .. (i - 1) /\ j \in DOMAIN contents
            BY <1>1, <2>3, <3>1, <4>1, <4>2
          <5>2. rest[j] = contents[j]
            BY <3>1, <3>3, <4>1, <4>2, <5>1
          <5> QED
            BY <1>2, <5>1, <5>2
        <4>3. CASE j > Len(left)
          <5> DEFINE m == j - (i - 1)
                     all == Len(contents)
          <5>1. all \in Nat /\ i \in 1 .. all /\ DOMAIN contents = 1 .. all
            BY <1>1, <2>3
          <5>2. j \in 1 .. (i - 1) + (all - i) /\ j > i - 1
            BY <3>1, <3>3, <4>1, <4>3
          <5> HIDE DEF all
          <5>3. m \in 1 .. (all - i) /\ i + m \in 1 .. all
            BY <5>1, <5>2
          <5>4. rest[j] = right[m]
            BY <3>1, <3>3, <4>1, <4>3
          <5> HIDE DEF m
          <5>5. rest[j] = contents[i + m]
            BY <3>1, <5>3, <5>4 DEF all
          <5> QED
            BY <1>2, <5>1, <5>3, <5>5
        <4> QED
          BY <2>3, <3>1, <4>1, <4>2, <4>3
      <3> QED
        BY <3>3, <3>4
    <2>6. \A j \in DOMAIN front : front[j].id \in 1 .. most
      <3> HIDE DEF rest
      <3>1. DOMAIN front = 1 .. Len(rest) + 1
        BY <2>3, <2>5
      <3>2. \A j \in 1 .. Len(rest) + 1 : front[j] = IF j = 1 THEN contents[i] ELSE rest[j - 1]
        BY <2>3, <2>5
      <3> HIDE DEF front
      <3>3. ASSUME NEW j \in DOMAIN front
            PROVE  front[j].id \in 1 .. most
        <4>1. CASE j = 1
          BY <1>2, <2>3, <3>1, <3>2, <4>1
        <4>2. CASE j # 1
          <5>1. j - 1 \in DOMAIN rest
            BY <2>5, <3>1, <4>2
          <5> QED
            BY <2>5, <3>1, <3>2, <4>2, <5>1
        <4> QED
          BY <4>1, <4>2
      <3> QED
        BY <3>3
    <2>7. Rebuilt(done, kept) \/ Rebuilt(rest, kept) \/ Rebuilt(front, kept)
      BY <2>1
    <2> HIDE DEF done, rest, front
    <2> QED
      BY <1>2, <1>10, <2>2, <2>4, <2>5, <2>6, <2>7
  <1>12. {contents[i].id : i \in DOMAIN contents} \subseteq 1 .. most
    BY <1>2
  <1>13. CASE FilterEdited
    <2>1. Changes /\ UNCHANGED listView
      BY <1>13 DEF FilterEdited
    <2>2. PICK k \in SUBSET {contents[i].id : i \in DOMAIN contents} : Rebuilt(contents, k)
      BY <1>13 DEF FilterEdited
    <2>3. k \subseteq 1 .. most
      BY <1>12
    <2> QED
      BY <1>2, <1>10, <2>1, <2>2, <2>3
  <1>14. CASE FilterCleared
    BY <1>2, <1>3, <1>5, <1>12, <1>14 DEF FilterCleared
  <1> QED
    BY <1>4, <1>6, <1>7, <1>8, <1>9, <1>11, <1>13, <1>14 DEF WindowsNext

LEMMA WindowsTyped ==
    ASSUME WinTyped, OwnListed
    PROVE  WindowsTypeOK
  <1>1. InOrder \in Seq(Entry) /\ Len(InOrder) \in Nat
    BY OrderTyped DEF WinTyped, InOrder
  <1>2. cursor >= 1 /\ (InOrder # <<>> => cursor <= Len(InOrder)) /\ scroll >= 0
    BY <1>1 DEF WinTyped, AtLeast
  <1> QED
    BY <1>2, WindowsAssumption DEF OwnListed, WindowsTypeOK

\* The windows stay in their types.
LEMMA ListsTyped == WindowsSpec => []WindowsTypeOK
  <1>1. WindowsInit => WinInv /\ OwnListed
    BY WindowsAssumption, WindowsStart, OwnStart
  <1>2. WinInv /\ OwnListed /\ [WindowsNext]_windowVars => WinInv' /\ OwnListed'
    BY WindowsAssumption, WindowsStep, OwnStep DEF WinInv
  <1>3. WinInv /\ OwnListed => WindowsTypeOK
    BY WindowsTyped DEF WinInv
  <1> QED
    BY <1>1, <1>2, <1>3, PTL DEF WindowsSpec

-----------------------------------------------------------------------------
(***************************************************************************)
(* The panes.                                                              *)
(***************************************************************************)
PaneInv ==
    /\ term.w \in Nat /\ term.h \in Nat /\ pixels.w \in Nat /\ pixels.h \in Nat
    /\ place \in {"browse", "history", "zoom", "rows"} /\ focus \in BOOLEAN
    /\ subject.header \in Nat /\ subject.header <= 5 /\ subject.synopsis \in Nat
    /\ gridView.engaged \in BOOLEAN /\ gridView.provider \in BOOLEAN
    /\ gridView.length \in Nat /\ gridView.cursor \in Nat
    /\ bar.progress \in Nat /\ bar.total \in Nat \cup {-1} /\ bar.aired \in Nat \cup {-1}
    /\ bar.resume \in Nat \cup {-1}

\* A share of a bar is as long as the share, and short of the bar when it is one.
LEMMA Share ==
    ASSUME NEW B \in Nat, NEW total \in Nat, total >= 1, NEW a \in Nat
    PROVE  /\ (a * B) \div total \in Nat
           /\ a <= total => (a * B) \div total <= B
           /\ a < total /\ B >= 1 => (a * B) \div total < B
  <1> DEFINE p == a * B
             q == p \div total
             r == p % total
  <1>1. p \in Nat
    OBVIOUS
  <1>2. q \in Nat /\ r \in 0 .. total - 1 /\ p = total * q + r
    <2> HIDE DEF p
    <2> QED
      BY <1>1
  <1>3. p = a * B
    OBVIOUS
  <1> HIDE DEF p, q, r
  <1>4. ASSUME a <= total PROVE q <= B
    <2>1. (total - a) * B >= 0 /\ (total - a) * B = total * B - a * B
      BY <1>4
    <2>2. total * q <= total * B
      BY <1>1, <1>2, <1>3, <2>1
    <2>3. CASE q > B
      <3>1. total * (q - B - 1) >= 0 /\ total * (q - B - 1) = total * q - total * B - total
        BY <1>2, <2>3
      <3> QED
        BY <1>2, <2>2, <3>1
    <2> QED
      BY <1>2, <2>3
  <1>5. ASSUME a < total, B >= 1 PROVE q < B
    <2>1. (total - a) * B >= 1 /\ (total - a) * B = total * B - a * B
      BY <1>5
    <2>2. total * q < total * B
      BY <1>1, <1>2, <1>3, <2>1
    <2>3. CASE q >= B
      <3>1. total * (q - B) >= 0 /\ total * (q - B) = total * q - total * B
        BY <1>2, <2>3
      <3> QED
        BY <1>2, <2>2, <3>1
    <2> QED
      BY <1>2, <2>3
  <1> QED
    BY <1>2, <1>4, <1>5 DEF q, p

LEMMA ShareGrows ==
    ASSUME NEW B \in Nat, NEW total \in Nat, total >= 1, NEW a \in Nat, NEW b \in Nat, a <= b
    PROVE  (a * B) \div total <= (b * B) \div total
  <1> DEFINE p == a * B
             o == b * B
             q == p \div total
             r == p % total
             m == o \div total
             n == o % total
  <1>1. p \in Nat /\ o \in Nat
    OBVIOUS
  <1>2. p <= o
    <2>1. (b - a) * B >= 0 /\ (b - a) * B = b * B - a * B
      OBVIOUS
    <2> QED
      BY <2>1
  <1> HIDE DEF p, o
  <1>3. q \in Nat /\ r \in 0 .. total - 1 /\ p = total * q + r
    BY <1>1
  <1>4. m \in Nat /\ n \in 0 .. total - 1 /\ o = total * m + n
    BY <1>1
  <1> HIDE DEF q, r, m, n
  <1>5. CASE q > m
    <2>1. total * (q - m - 1) >= 0 /\ total * (q - m - 1) = total * q - total * m - total
      BY <1>3, <1>4, <1>5
    <2> QED
      BY <1>2, <1>3, <1>4, <2>1
  <1> QED
    BY <1>3, <1>4, <1>5 DEF q, m, p, o

LEMMA BarIsHonest ==
    ASSUME PaneInv
    PROVE  BarHonest
  <1> DEFINE B == BarW
             p == bar.progress
             t == bar.total
             a == bar.aired
             s == bar.resume
             part(e) == (e * B) \div t
  <1>1. B \in Nat /\ B >= 16
    <2>1. BarW = Higher(Lower(Less(ListArea.w, 30), 24), 16)
      BY DEF BarW
    <2>2. ListArea.w \in Int
      BY DEF ListArea, Rect, Higher, Lower, Less, ListW, PaneInv
    <2> QED
      BY <2>1, <2>2 DEF Higher, Lower, Less
  <1>2. p \in Nat /\ t \in Nat \cup {-1} /\ a \in Nat \cup {-1} /\ s \in Nat \cup {-1}
    BY DEF PaneInv
  <1>3. Filled = IF t > 0 THEN Higher(part(Lower(p, t)), IF Lower(p, t) > 0 THEN 1 ELSE 0)
                 ELSE IF p > 0 THEN B \div 3 ELSE 0
    BY DEF Filled, FillCell
  <1>4. ResumeCell = IF t > 0 /\ s >= 1 THEN part(Lower(s - 1, t - 1)) ELSE -1
    BY DEF ResumeCell
  <1>5. AiredEdge = IF t > 0 /\ a >= 0 /\ a < t THEN Higher(part(a), IF a > 0 THEN 1 ELSE 0) ELSE B
    BY DEF AiredEdge, EdgeCell
  <1>6. AiredCells = {i \in 0 .. B - 1 : Filled <= i /\ i < AiredEdge}
    BY DEF AiredCells
  <1>7. BarHonest <=> /\ t > 0 /\ p >= a /\ a >= 0 => AiredCells = {} \/ a >= t
                      /\ t > 0 => (Filled = B => p >= t \/ B = 1)
                      /\ Filled <= B /\ ResumeCell < B
                      /\ p > 0 => Filled > 0
    BY DEF BarHonest
  <1> HIDE DEF B, p, t, a, s
  <1>8. CASE t > 0
    <2>1. t \in Nat /\ t >= 1
      BY <1>2, <1>8
    <2>2. \A e \in Nat : /\ part(e) \in Nat
                         /\ e <= t => part(e) <= B
                         /\ e < t => part(e) < B
      BY <1>1, <2>1, Share
    <2>3. \A e, g \in Nat : e <= g => part(e) <= part(g)
      BY <1>1, <2>1, ShareGrows
    <2> HIDE DEF part
    <2> DEFINE e == Lower(p, t)
               g == Lower(s - 1, t - 1)
    <2>4. e \in Nat /\ e <= t /\ (p < t => e < t) /\ (p > 0 => e > 0) /\ (p >= a /\ a < t => a <= e)
      BY <1>2, <2>1 DEF Lower
    <2>5. s >= 1 => g \in Nat /\ g < t
      BY <1>2, <2>1 DEF Lower
    <2> HIDE DEF e, g
    <2>6. Filled = Higher(part(e), IF e > 0 THEN 1 ELSE 0)
      BY <1>3, <1>8 DEF e
    <2>7. part(e) \in Nat /\ part(e) <= B /\ (p < t => part(e) < B)
      BY <2>2, <2>4
    <2>8. Filled \in Nat /\ Filled <= B /\ (p > 0 => Filled > 0) /\ (p < t => Filled < B)
      BY <1>1, <2>4, <2>6, <2>7 DEF Higher
    <2>9. ResumeCell < B
      BY <1>1, <1>4, <1>8, <2>2, <2>5 DEF g
    <2>10. ASSUME p >= a, a >= 0, ~(a >= t) PROVE AiredCells = {}
      <3>1. a \in Nat /\ a <= e /\ a < t
        BY <1>2, <2>1, <2>4, <2>10
      <3>2. part(a) <= part(e) /\ part(a) \in Nat
        BY <2>2, <2>3, <2>4, <3>1
      <3>3. AiredEdge = Higher(part(a), IF a > 0 THEN 1 ELSE 0)
        BY <1>5, <1>8, <3>1
      <3>4. AiredEdge <= Filled /\ AiredEdge \in Nat
        BY <2>4, <2>6, <2>7, <3>1, <3>2, <3>3 DEF Higher
      <3> QED
        BY <1>1, <1>6, <2>8, <3>4
    <2> QED
      BY <1>2, <1>7, <2>1, <2>8, <2>9, <2>10
  <1>9. CASE ~(t > 0)
    <2>1. B \div 3 \in Nat /\ B \div 3 <= B /\ B \div 3 > 0
      BY <1>1
    <2>2. Filled <= B /\ (p > 0 => Filled > 0) /\ ResumeCell < B
      BY <1>1, <1>2, <1>3, <1>4, <1>9, <2>1
    <2> QED
      BY <1>7, <1>9, <2>2
  <1> QED
    BY <1>8, <1>9

LEMMA TopBarIsClear ==
    ASSUME PaneInv
    PROVE  TopBarClear
  <1> SUFFICES ASSUME term.w >= 29, NEW e \in TopBarEnds
               PROVE  e <= term.w - 2
    BY DEF TopBarClear
  <1> DEFINE w == term.w
  <1>1. w \in Nat /\ w >= 29 /\ Less(w, 2) = w - 2
    BY DEF PaneInv, Less, Higher
  <1>2. e \in IF FullW <= Less(w, 2) THEN {FullW} ELSE IF BriefW <= Less(w, 2) THEN {BriefW}
              ELSE {Wordmark + 2 + l : l \in LabelWidths}
    BY DEF TopBarEnds
  <1> HIDE DEF w
  <1>3. \A l \in LabelWidths : Wordmark + 2 + l <= 27
    BY DEF LabelWidths, Wordmark
  <1>4. e <= w - 2
    BY <1>1, <1>2, <1>3 DEF FullW, BriefW, Wordmark, LabelWidths
  <1> QED
    BY <1>4 DEF w

-----------------------------------------------------------------------------
\* What the lines of the drawing come to, one after the other.
LEMMA LayoutOf ==
    ASSUME NEW l, l = Layout
    PROVE  /\ l.coverH = CoverH
           /\ l.headerY = IF Split \/ CoverH = 0 THEN 1 ELSE 1 + CoverH + 1
           /\ l.headerEnd = Past(l.headerY, subject.header)
           /\ l.bodyY = IF Split THEN Past(Past(Past(l.headerEnd, 1), 1), 1) ELSE Past(Past(l.headerEnd, 1), 1) + 1
           /\ l.synopsisH = SynopsisRows(l, Remaining(l))
           /\ l.gridY = GridY(l)
           /\ l.gridH = IF ShowsGrid(l) THEN Less(Column.h, l.gridY) ELSE 0
  <1> DEFINE y == IF Split \/ CoverH = 0 THEN 1 ELSE 1 + CoverH + 1
             end == Past(y, subject.header)
             meta == Past(Past(end, 1), 1)
             body == IF Split THEN Past(meta, 1) ELSE meta + 1
             l1 == WithHeader(CoverH)
             l2 == WithBody(l1)
             l3 == WithSynopsis(l2)
             syn == SynopsisRows(l2, Remaining(l2))
             gy == GridY(l3)
             gh == IF ShowsGrid(l3) THEN Less(Column.h, gy) ELSE 0
  <1>1. l1 = [coverH |-> CoverH, headerY |-> y, headerEnd |-> end, bodyY |-> 0, synopsisH |-> 0, gridY |-> 0, gridH |-> 0]
    BY DEF WithHeader
  <1>2. l2 = [l1 EXCEPT !.bodyY = IF Split THEN Past(Past(Past(l1.headerEnd, 1), 1), 1)
                                  ELSE Past(Past(l1.headerEnd, 1), 1) + 1]
    BY DEF WithBody
  <1>3. l3 = [l2 EXCEPT !.synopsisH = syn]
    BY DEF WithSynopsis
  <1>4. l = [l3 EXCEPT !.gridY = gy, !.gridH = gh]
    BY DEF Layout, BodyLaid, WithGrid
  <1> HIDE DEF y, end, l1, l2, l3, syn, gy, gh
  <1>5. l1.headerEnd = end
    BY <1>1
  <1>6. l2 = [l1 EXCEPT !.bodyY = body]
    BY <1>2, <1>5
  <1> HIDE DEF body
  <1>7. l2 = [coverH |-> CoverH, headerY |-> y, headerEnd |-> end, bodyY |-> body, synopsisH |-> 0, gridY |-> 0, gridH |-> 0]
    BY <1>1, <1>6
  <1>8. l3 = [coverH |-> CoverH, headerY |-> y, headerEnd |-> end, bodyY |-> body, synopsisH |-> syn, gridY |-> 0, gridH |-> 0]
    BY <1>3, <1>7
  <1>9. l = [coverH |-> CoverH, headerY |-> y, headerEnd |-> end, bodyY |-> body, synopsisH |-> syn, gridY |-> gy, gridH |-> gh]
    <2>1. [l3 EXCEPT !.gridY = gy]
          = [coverH |-> CoverH, headerY |-> y, headerEnd |-> end, bodyY |-> body, synopsisH |-> syn, gridY |-> gy, gridH |-> 0]
      BY <1>8
    <2> QED
      BY <1>4, <2>1
  <1>10. l.coverH = CoverH /\ l.headerY = y /\ l.headerEnd = end /\ l.bodyY = body /\ l.synopsisH = syn
         /\ l.gridY = gy /\ l.gridH = gh
    BY <1>9
  <1>11. l2.headerY = y /\ l2.bodyY = body /\ l3.headerY = y /\ l3.bodyY = body /\ l3.synopsisH = syn
    BY <1>7, <1>8
  <1>12. ShowsGrid(l2) = ShowsGrid(l) /\ ShowsGrid(l3) = ShowsGrid(l)
    BY <1>10, <1>11 DEF ShowsGrid, BodyDrawn
  <1>13. Remaining(l2) = Remaining(l) /\ Remaining(l3) = Remaining(l)
    BY <1>10, <1>11 DEF Remaining
  <1>14. SynopsisRows(l2, Remaining(l2)) = SynopsisRows(l, Remaining(l))
    BY <1>12, <1>13 DEF SynopsisRows
  <1>15. ProviderShown(l3) = ProviderShown(l)
    BY <1>10, <1>11, <1>13 DEF ProviderShown
  <1>16. GridY(l3) = GridY(l)
    BY <1>10, <1>11, <1>15 DEF GridY
  <1>17. gh = IF ShowsGrid(l) THEN Less(Column.h, gy) ELSE 0
    BY <1>12 DEF gh
  <1> QED
    BY <1>10, <1>14, <1>16, <1>17 DEF y, end, body, syn, gy

\* Saturating arithmetic.
LEMMA Halves ==
    /\ \A a, b \in Int : Less(a, b) \in Nat /\ (a >= b => Less(a, b) = a - b) /\ (a < b => Less(a, b) = 0)
    /\ \A a, b \in Int : /\ Higher(a, b) \in {a, b} /\ Higher(a, b) >= a /\ Higher(a, b) >= b
                         /\ Lower(a, b) \in {a, b} /\ Lower(a, b) <= a /\ Lower(a, b) <= b
  BY DEF Less, Higher, Lower

LEMMA PosterTyped ==
    ASSUME PaneInv, NEW w \in Nat
    PROVE  NaturalH(w) \in Nat
  <1> DEFINE pw == pixels.w
             ph == pixels.h
             cap == IF w = 20 THEN 28 ELSE 20
  <1>1. pw \in Nat /\ ph \in Nat
    BY DEF PaneInv
  <1>2. NaturalH(w) = IF ph = 0 THEN cap ELSE Higher(Lower(((w * pw * 3) \div 2) \div ph, cap), 1)
    BY DEF NaturalH
  <1> HIDE DEF pw, ph
  <1>3. w * pw * 3 \in Nat
    BY <1>1
  <1>4. (w * pw * 3) \div 2 \in Nat
    BY <1>3
  <1> DEFINE half == (w * pw * 3) \div 2
  <1>5. half \in Nat
    BY <1>4
  <1> HIDE DEF half
  <1>6. ph # 0 => half \div ph \in Nat
    BY <1>1, <1>5
  <1>7. ph # 0 => Higher(Lower(half \div ph, cap), 1) \in Nat
    BY <1>6 DEF Higher, Lower
  <1> QED
    BY <1>2, <1>7 DEF half

\* The surface and its column.
LEMMA SurfaceTyped ==
    ASSUME PaneInv
    PROVE  /\ Area.x \in Nat /\ Area.y = 2 /\ Area.w \in Nat /\ Area.h \in Nat /\ Area.h = Less(term.h, 3)
           /\ ListArea.x = 2 /\ ListArea.y = 2 /\ ListArea.w \in Nat /\ ListArea.h = Less(term.h, 3)
           /\ CoverH \in Nat
           /\ Column.x \in Nat /\ Column.y = 2 /\ Column.w \in Nat /\ Column.h = Area.h
           /\ Column.x >= Area.x /\ Column.x + Column.w <= Area.x + Area.w
           /\ Split => CoverH <= Less(Area.h, 2) /\ (CoverH > 0 => Area.x + SplitCoverW <= Column.x) /\ SplitCoverW \in Nat
                       /\ SplitCoverW <= 20
           /\ ~Split => CoverH <= HeightCap(Area.h) /\ CoverW(Area.w) <= Area.w /\ CoverW(Area.w) \in Nat
  <1>1. term.w \in Nat /\ term.h \in Nat
    BY DEF PaneInv
  <1>2. ListW \in Nat /\ DetailX \in Nat /\ Less(term.w, DetailX) \in Nat
    <2>1. (term.w * 38) \div 100 \in Nat
      BY <1>1
    <2> QED
      BY <1>1, <2>1 DEF ListW, DetailX, Higher, Less
  <1>3. Content.h = Less(term.h, 3) /\ Content.h \in Nat
    BY <1>1 DEF Content, Rect, Less, Higher
  <1>4. /\ Area.x \in Nat /\ Area.y = 2 /\ Area.w \in Nat /\ Area.h = Content.h
    <2>1. CASE place = "zoom"
      <3>1. Area = Rect(2, 2, Less(term.w, 3), Content.h)
        BY <2>1 DEF Area
      <3> QED
        BY <1>1, <3>1 DEF Rect, Less, Higher
    <2>2. CASE place # "zoom"
      <3>1. Area = Rect(DetailX, 2, Lower(Less(Less(term.w, DetailX), 1), Less(term.w, DetailX)), Content.h)
        BY <2>2 DEF Area, PaneArea
      <3>2. Lower(Less(Less(term.w, DetailX), 1), Less(term.w, DetailX)) \in Nat
        BY <1>2 DEF Less, Lower, Higher
      <3> QED
        BY <1>2, <3>1, <3>2 DEF Rect
    <2> QED
      BY <2>1, <2>2
  <1>5. /\ ListArea.x = 2 /\ ListArea.y = 2 /\ ListArea.w \in Nat /\ ListArea.h = Content.h
    <2> DEFINE w == IF TwoPane THEN Lower(ListW, Less(term.w, 2)) ELSE Less(term.w, 3)
    <2>1. ListArea = Rect(2, 2, w, Content.h)
      BY DEF ListArea
    <2>2. w \in Nat
      BY <1>1, <1>2 DEF Less, Lower, Higher
    <2> HIDE DEF w
    <2> QED
      BY <2>1, <2>2 DEF Rect
  <1> DEFINE aw == Area.w
             ah == Area.h
             sw == SplitCoverW
             gap == IF sw > 0 THEN sw + 4 ELSE 0
  <1>6. \A w \in Nat : CoverW(w) \in {0, 14, 20} /\ CoverW(w) <= w
    BY DEF CoverW
  <1>7. sw \in {0, 14, 20}
    <2> DEFINE w == Higher((aw * 38) \div 100, 20)
    <2>1. aw \in Nat
      BY <1>4
    <2> HIDE DEF aw
    <2>2. (aw * 38) \div 100 \in Nat
      BY <2>1
    <2>3. w \in Nat
      BY <2>2 DEF Higher
    <2>4. sw = CoverW(w)
      BY DEF SplitCoverW, aw
    <2> HIDE DEF w, sw
    <2> QED
      BY <1>6, <2>3, <2>4
  <1>8. Split => aw >= 100
    BY DEF Split
  <1>9. Column = IF ~Split THEN Area ELSE Rect(Area.x + gap, Area.y, Less(aw, gap), ah)
    BY DEF Column
  <1>10. CoverH = LET w == IF Split THEN sw ELSE CoverW(aw)
                      h == Lower(NaturalH(w), IF Split THEN Less(ah, 2) ELSE HeightCap(ah))
                  IN IF w > 0 /\ h >= MinCoverRows THEN h ELSE 0
    BY DEF CoverH
  <1>11. aw \in Nat /\ ah \in Nat
    BY <1>3, <1>4
  <1> HIDE DEF sw, aw, ah
  <1>12. Split => gap \in 0 .. 24 /\ Less(aw, gap) = aw - gap /\ (sw > 0 => gap >= sw)
    BY <1>7, <1>8, <1>11 DEF Less, Higher
  <1>13. /\ Column.x \in Nat /\ Column.y = 2 /\ Column.w \in Nat /\ Column.h = ah
         /\ Column.x >= Area.x /\ Column.x + Column.w <= Area.x + aw
         /\ Split /\ sw > 0 => Area.x + sw <= Column.x
    <2>1. CASE Split
      <3>1. Column.x = Area.x + gap /\ Column.y = Area.y /\ Column.w = Less(aw, gap) /\ Column.h = ah
        BY <1>9, <2>1 DEF Rect
      <3>2. gap \in Nat /\ gap <= 24 /\ Less(aw, gap) = aw - gap /\ (sw > 0 => gap >= sw) /\ aw >= 100
        BY <1>8, <1>12, <2>1
      <3> HIDE DEF gap
      <3> QED
        BY <1>4, <1>7, <1>11, <2>1, <3>1, <3>2
    <2>2. CASE ~Split
      BY <1>4, <1>9, <1>11, <2>2 DEF aw, ah
    <2> QED
      BY <2>1, <2>2
  <1>14. HeightCap(ah) \in Nat /\ Less(ah, 2) \in Nat
    BY <1>11 DEF HeightCap, CoverReserve, MinCoverRows, Less, Higher
  <1>15. CoverH \in Nat /\ (Split => CoverH <= Less(ah, 2) /\ (CoverH > 0 => sw > 0)) /\ (~Split => CoverH <= HeightCap(ah))
    <2> DEFINE w == IF Split THEN sw ELSE CoverW(aw)
               most == IF Split THEN Less(ah, 2) ELSE HeightCap(ah)
               h == Lower(NaturalH(w), most)
    <2>1. w \in Nat /\ most \in Nat
      BY <1>6, <1>7, <1>11, <1>14
    <2>2. CoverH = IF w > 0 /\ h >= MinCoverRows THEN h ELSE 0
      BY <1>10
    <2>3. Split => w = sw /\ most = Less(ah, 2)
      OBVIOUS
    <2>4. ~Split => most = HeightCap(ah)
      OBVIOUS
    <2> HIDE DEF w, most
    <2>5. h \in Nat /\ h <= most
      BY <2>1, PosterTyped DEF Lower
    <2> HIDE DEF h
    <2> QED
      BY <2>1, <2>2, <2>3, <2>4, <2>5
  <1> QED
    BY <1>3, <1>4, <1>5, <1>6, <1>7, <1>11, <1>13, <1>15 DEF aw, ah, sw

LEMMA PastBounded ==
    ASSUME PaneInv, NEW y \in Nat, NEW n \in Nat
    PROVE  /\ Past(y, n) \in Nat /\ y <= Past(y, n) /\ Past(y, n) <= y + n
           /\ (y < Column.h => Past(y, n) <= Column.h) /\ (y >= Column.h => Past(y, n) = y)
  <1> DEFINE h == Column.h
  <1>1. h \in Nat
    BY SurfaceTyped
  <1>2. Past(y, n) = IF y >= h THEN y ELSE Lower(y + n, h)
    BY DEF Past
  <1> HIDE DEF h
  <1>3. /\ Past(y, n) \in Nat /\ y <= Past(y, n) /\ Past(y, n) <= y + n
        /\ (y < h => Past(y, n) <= h) /\ (y >= h => Past(y, n) = y)
    BY <1>1, <1>2 DEF Lower
  <1> QED
    BY <1>3 DEF h

\* The lines of a layout follow one another.
LEMMA LinesInOrder ==
    ASSUME PaneInv, NEW l, l = Layout
    PROVE  /\ l.headerY \in Nat /\ l.headerEnd \in Nat /\ l.bodyY \in Nat /\ l.synopsisH \in Nat
           /\ l.gridY \in Nat /\ l.gridH \in Nat /\ l.coverH \in Nat /\ l.coverH = CoverH
           /\ l.headerY = IF Split \/ CoverH = 0 THEN 1 ELSE CoverH + 2
           /\ l.headerY <= l.headerEnd /\ l.headerEnd <= l.headerY + 5
           /\ (l.headerY < Column.h => l.headerEnd <= Column.h) /\ (l.headerY >= Column.h => l.headerEnd = l.headerY)
           /\ l.headerEnd <= l.bodyY /\ l.bodyY <= l.headerEnd + 3
           /\ Remaining(l) = Less(Column.h, l.bodyY) /\ Remaining(l) \in Nat
           /\ l.synopsisH = SynopsisRows(l, Remaining(l)) /\ l.synopsisH <= Remaining(l)
           /\ l.gridY = l.bodyY + l.synopsisH + 1 + (IF ProviderShown(l) THEN 1 ELSE 0)
           /\ l.gridH = IF ShowsGrid(l) THEN Less(Column.h, l.gridY) ELSE 0
  <1> DEFINE H == Column.h
             y == l.headerY
             e == l.headerEnd
             b == l.bodyY
             rem == Remaining(l)
             syn == l.synopsisH
             g == l.gridY
  <1>1. H \in Nat /\ CoverH \in Nat
    BY SurfaceTyped
  <1>2. /\ l.coverH = CoverH
        /\ y = IF Split \/ CoverH = 0 THEN 1 ELSE 1 + CoverH + 1
        /\ e = Past(y, subject.header)
        /\ b = IF Split THEN Past(Past(Past(e, 1), 1), 1) ELSE Past(Past(e, 1), 1) + 1
        /\ syn = SynopsisRows(l, rem)
        /\ g = GridY(l)
        /\ l.gridH = IF ShowsGrid(l) THEN Less(H, g) ELSE 0
    BY LayoutOf
  <1>3. rem = Less(H, b)
    BY DEF Remaining
  <1>4. g = b + syn + 1 + (IF ProviderShown(l) THEN 1 ELSE 0)
    BY <1>2 DEF GridY
  <1> HIDE DEF H, y, e, b, rem, syn, g
  <1>5. y \in Nat /\ y = IF Split \/ CoverH = 0 THEN 1 ELSE CoverH + 2
    BY <1>1, <1>2
  <1>6. subject.header \in Nat /\ subject.header <= 5
    BY DEF PaneInv
  <1>7. e \in Nat /\ y <= e /\ e <= y + 5 /\ (y < H => e <= H) /\ (y >= H => e = y)
    <2> DEFINE n == subject.header
    <2>1. n \in Nat /\ n <= 5 /\ e = Past(y, n)
      BY <1>2, <1>6
    <2> HIDE DEF n
    <2>2. /\ Past(y, n) \in Nat /\ y <= Past(y, n) /\ Past(y, n) <= y + n
          /\ (y < Column.h => Past(y, n) <= Column.h) /\ (y >= Column.h => Past(y, n) = y)
      BY <1>5, <2>1, PastBounded
    <2> QED
      BY <1>5, <2>1, <2>2 DEF H
  <1>8. b \in Nat /\ e <= b /\ b <= e + 3
    <2> DEFINE m == Past(e, 1)
               k == Past(m, 1)
               j == Past(k, 1)
    <2>1. m \in Nat /\ e <= m /\ m <= e + 1
      BY <1>7, PastBounded
    <2> HIDE DEF m
    <2>2. k \in Nat /\ m <= k /\ k <= m + 1
      BY <2>1, PastBounded
    <2> HIDE DEF k
    <2>3. j \in Nat /\ k <= j /\ j <= k + 1
      BY <2>2, PastBounded
    <2>4. b = IF Split THEN j ELSE k + 1
      BY <1>2 DEF j, k, m
    <2> HIDE DEF j
    <2> QED
      BY <1>7, <2>1, <2>2, <2>3, <2>4
  <1>9. rem \in Nat
    BY <1>1, <1>3, <1>8 DEF Less, Higher
  <1>10. syn \in Nat /\ syn <= rem
    <2> DEFINE rows == GridRows(gridView.length)
    <2>1. syn = IF ~ShowsGrid(l) THEN Less(rem, GridReserve)
                ELSE Lower(Lower(subject.synopsis, Higher(Less(rem, 1 + Prov + Higher(rows, 1)), 2)), Less(rem, 1 + Prov + 2))
      BY <1>2 DEF SynopsisRows
    <2>2. Prov \in Nat /\ subject.synopsis \in Nat /\ rows \in Int
      <3>1. Column.w \div 5 \in Nat
        BY SurfaceTyped
      <3>2. GridCols \in Nat /\ GridCols >= 1
        BY <3>1 DEF GridCols, Higher
      <3>3. gridView.length \in Nat
        BY DEF PaneInv
      <3>4. gridView.length + GridCols - 1 \in Nat
        BY <3>2, <3>3
      <3> DEFINE up == gridView.length + GridCols - 1
                 c == GridCols
      <3>5. rows = up \div c
        BY DEF GridRows
      <3>6. up \in Nat /\ c \in Nat /\ c >= 1
        BY <3>2, <3>4
      <3> HIDE DEF up, c, rows
      <3>7. rows \in Nat
        BY <3>5, <3>6
      <3> QED
        BY <3>7 DEF PaneInv, Prov
    <2> HIDE DEF rows
    <2> QED
      BY <1>9, <2>1, <2>2 DEF Lower, Higher, Less, GridReserve
  <1>11. g \in Nat /\ l.gridH \in Nat
    BY <1>1, <1>2, <1>4, <1>8, <1>10 DEF Less, Higher
  <1> QED
    BY <1>1, <1>2, <1>3, <1>4, <1>5, <1>7, <1>8, <1>9, <1>10, <1>11 DEF H, y, e, b, rem, syn, g

LEMMA RowsTyped ==
    ASSUME PaneInv
    PROVE  /\ GridCols \in Nat /\ GridCols >= 1 /\ GridRows(gridView.length) \in Nat /\ Prov \in {0, 1}
           /\ gridView.cursor \div GridCols \in Nat
  <1>1. Column.w \div 5 \in Nat
    BY SurfaceTyped
  <1> DEFINE c == GridCols
             n == gridView.length
             k == gridView.cursor
  <1>2. c \in Nat /\ c >= 1
    BY <1>1 DEF GridCols, Higher
  <1>3. n \in Nat /\ k \in Nat
    BY DEF PaneInv
  <1>4. GridRows(n) = (n + c - 1) \div c
    BY DEF GridRows
  <1> HIDE DEF c, n, k
  <1>5. n + c - 1 \in Nat
    BY <1>2, <1>3
  <1> DEFINE up == n + c - 1
  <1>6. up \in Nat
    BY <1>5
  <1>7. GridRows(n) = up \div c
    BY <1>4
  <1> HIDE DEF up
  <1>8. up \div c \in Nat /\ k \div c \in Nat
    BY <1>2, <1>3, <1>6
  <1> QED
    BY <1>2, <1>7, <1>8 DEF c, n, k, Prov

LEMMA GridsAreKept ==
    ASSUME PaneInv, NEW l, l = Layout
    PROVE  GridKeepsTwo(l) /\ CursorCellSeen(l) /\ ProviderHeads(l)
  <1> DEFINE H == Column.h
             rem == Remaining(l)
             syn == l.synopsisH
             rows == GridRows(gridView.length)
             shown == ProviderShown(l)
             rowAt == gridView.cursor \div GridCols
  <1>1. /\ H \in Nat /\ rem \in Nat /\ syn \in Nat /\ syn <= rem /\ l.bodyY \in Nat /\ rem = Less(H, l.bodyY)
        /\ l.gridY \in Nat /\ l.gridH \in Nat
        /\ l.gridY = l.bodyY + syn + 1 + (IF shown THEN 1 ELSE 0)
    BY LinesInOrder, SurfaceTyped
  <1>2. rows \in Nat /\ Prov \in {0, 1} /\ rowAt \in Nat
    BY RowsTyped
  <1>3. shown => gridView.provider /\ Prov = 1 /\ syn + 2 < rem
    BY DEF ProviderShown, Prov
  <1>4. ShowsGrid(l) => /\ l.gridH = Less(H, l.gridY)
                        /\ syn = Lower(Lower(subject.synopsis, Higher(Less(rem, 1 + Prov + Higher(rows, 1)), 2)),
                                       Less(rem, 1 + Prov + 2))
    BY LinesInOrder DEF SynopsisRows
  <1>5. subject.synopsis \in Nat
    BY DEF PaneInv
  <1>6. GridKeepsTwo(l)
    <2> SUFFICES ASSUME HasSurface, ShowsGrid(l), ~Split, l.coverH > 0
                 PROVE  l.gridH >= Lower(2, rows)
      BY DEF GridKeepsTwo
    <2>1. l.coverH \in Nat /\ l.coverH = CoverH /\ l.bodyY <= l.coverH + 10 /\ H = Area.h
          /\ CoverH <= HeightCap(Area.h) /\ Area.h \in Nat
      BY LinesInOrder, SurfaceTyped
    <2>2. l.coverH + 14 <= H
      BY <2>1 DEF HeightCap, CoverReserve, MinCoverRows, Less, Higher
    <2> HIDE DEF H, rem, syn, rows, shown
    <2>3. rem >= 4 /\ H = l.bodyY + rem
      BY <1>1, <2>1, <2>2 DEF Less, Higher
    <2>4. syn <= rem - 3 - Prov
      BY <1>1, <1>2, <1>4, <1>5, <2>3 DEF Less, Higher, Lower
    <2>5. l.gridH >= 2
      <3>1. l.gridH = Less(H, l.gridY) /\ (shown => Prov = 1)
        BY <1>3, <1>4
      <3>2. l.gridY = l.bodyY + syn + 1 + (IF shown THEN 1 ELSE 0) /\ l.gridY \in Nat /\ l.bodyY \in Nat /\ H \in Nat
            /\ syn \in Nat /\ rem \in Nat
        BY <1>1
      <3>3. l.gridY + 2 <= H
        BY <1>2, <2>3, <2>4, <3>1, <3>2
      <3> QED
        BY <3>1, <3>2, <3>3 DEF Less, Higher
    <2> QED
      BY <1>1, <1>2, <2>5 DEF Lower
  <1>7. CursorCellSeen(l)
    <2>1. GridScroll(l) = Less(rowAt, Less(l.gridH, 1))
      BY DEF GridScroll
    <2> HIDE DEF rowAt
    <2>2. l.gridH > 0 => GridScroll(l) <= rowAt /\ rowAt < GridScroll(l) + l.gridH
      BY <1>1, <1>2, <2>1 DEF Less, Higher
    <2> QED
      BY <2>2 DEF CursorCellSeen, rowAt
  <1>8. ProviderHeads(l)
    <2> SUFFICES ASSUME ShowsGrid(l)
                 PROVE  (shown => l.gridH >= 1) /\ (syn > 2 => l.gridH >= rows)
      BY DEF ProviderHeads
    <2> HIDE DEF H, rem, syn, rows, shown
    <2>1. shown => l.gridH >= 1
      BY <1>1, <1>3, <1>4 DEF Less, Higher
    <2>2. ASSUME syn > 2 PROVE l.gridH >= rows
      <3>1. syn <= Less(rem, 1 + Prov + Higher(rows, 1))
        BY <1>1, <1>2, <1>4, <1>5, <2>2 DEF Less, Higher, Lower
      <3>2. syn + 1 + Prov + rows <= rem
        BY <1>1, <1>2, <2>2, <3>1 DEF Less, Higher
      <3>3. H = l.bodyY + rem
        BY <1>1, <1>2, <2>2, <3>2 DEF Less, Higher
      <3> QED
        BY <1>1, <1>2, <1>3, <1>4, <3>2, <3>3 DEF Less, Higher
    <2> QED
      BY <2>1, <2>2
  <1> QED
    BY <1>6, <1>7, <1>8

\* A region of the column lies in its lines, from the first to before the last.
Lies(r, from, last) ==
    /\ r.x = Column.x /\ r.w = Column.w /\ r.y = 2 + from /\ r.h \in Nat
    /\ r.h > 0 => from + r.h <= last /\ from + r.h <= Column.h

\* The regions of the column, one below the other.
Stacked(l, head, meta, text, line, grid) ==
    /\ Lies(head, l.headerY, l.headerEnd) /\ Lies(meta, l.headerEnd, l.bodyY)
    /\ Lies(text, l.bodyY, l.bodyY + l.synopsisH)
    /\ line = text \/ (Lies(line, l.gridY - 1, l.gridY) /\ l.bodyY + l.synopsisH <= l.gridY - 1)
    /\ Lies(grid, l.gridY, Column.h)

LEMMA RegionsPlaced ==
    ASSUME PaneInv, NEW l, l = Layout, NEW r \in Regions(l)
    PROVE  /\ HasSurface /\ Area.w # 0
           /\ \E head, meta, text, line, grid :
                 Stacked(l, head, meta, text, line, grid) /\ Regions(l) \subseteq {Cover(l), head, meta, text, line, grid}
  <1> DEFINE H == Column.h
             part(y, h) == Rect(Column.x, Column.y + y, Column.w, h)
             hs == Less(l.headerEnd, l.headerY)
             ms == Less(Lower(l.bodyY, H), l.headerEnd)
             ts == Lower(l.synopsisH, Higher(subject.synopsis, 1))
             head == part(l.headerY, hs)
             meta == part(l.headerEnd, ms)
             text == part(l.bodyY, ts)
             grid == part(l.gridY, l.gridH)
             line == IF ProviderShown(l) THEN part(l.gridY - 1, 1) ELSE text
  <1>1. Regions(l) = IF ~HasSurface \/ Area.w = 0 \/ Area.h = 0 THEN {}
                     ELSE {Cover(l), head}
                          \cup IF ~BodyDrawn(l) THEN {}
                               ELSE {meta, text, grid} \cup IF ShowsGrid(l) /\ ProviderShown(l) THEN {part(l.gridY - 1, 1)} ELSE {}
    BY DEF Regions
  <1>2. /\ H \in Nat /\ Column.y = 2 /\ Column.x \in Nat /\ Column.w \in Nat
        /\ l.headerY \in Nat /\ l.headerEnd \in Nat /\ l.bodyY \in Nat /\ l.synopsisH \in Nat
        /\ l.gridY \in Nat /\ l.gridH \in Nat
        /\ l.headerY <= l.headerEnd /\ l.headerEnd <= l.bodyY
        /\ (l.headerY < H => l.headerEnd <= H) /\ (l.headerY >= H => l.headerEnd = l.headerY)
    BY SurfaceTyped, LinesInOrder
  <1>3. /\ Remaining(l) = Less(H, l.bodyY) /\ l.synopsisH <= Remaining(l)
        /\ l.gridY = l.bodyY + l.synopsisH + 1 + (IF ProviderShown(l) THEN 1 ELSE 0)
        /\ l.gridH = IF ShowsGrid(l) THEN Less(H, l.gridY) ELSE 0
        /\ subject.synopsis \in Nat
    BY LinesInOrder DEF PaneInv
  <1>4. ProviderShown(l) => l.synopsisH + 2 < Remaining(l)
    BY DEF ProviderShown
  <1>5. Regions(l) \subseteq {Cover(l), head, meta, text, line, grid}
    <2> HIDE DEF part, hs, ms, ts
    <2> QED
      BY <1>1
  <1>6. HasSurface /\ Area.w # 0
    BY <1>1
  <1>7. \A y, h : part(y, h).x = Column.x /\ part(y, h).w = Column.w /\ part(y, h).y = Column.y + y /\ part(y, h).h = h
    BY DEF Rect
  <1> HIDE DEF part, H
  <1>8. Lies(head, l.headerY, l.headerEnd)
    <2>1. hs \in Nat /\ (hs > 0 => l.headerY + hs <= l.headerEnd /\ l.headerY + hs <= H)
      BY <1>2 DEF Less, Higher
    <2> HIDE DEF hs
    <2> QED
      BY <1>2, <1>7, <2>1 DEF Lies, H
  <1>9. Lies(meta, l.headerEnd, l.bodyY)
    <2>1. ms \in Nat /\ (ms > 0 => l.headerEnd + ms <= l.bodyY /\ l.headerEnd + ms <= H)
      BY <1>2 DEF Less, Higher, Lower
    <2> HIDE DEF ms
    <2> QED
      BY <1>2, <1>7, <2>1 DEF Lies, H
  <1>10. Lies(text, l.bodyY, l.bodyY + l.synopsisH)
    <2>1. ts \in Nat /\ ts <= l.synopsisH
      BY <1>2, <1>3 DEF Higher, Lower
    <2> HIDE DEF ts
    <2>2. ts > 0 => l.bodyY + ts <= H
      BY <1>2, <1>3, <2>1 DEF Less, Higher
    <2>3. ts > 0 => l.bodyY + ts <= l.bodyY + l.synopsisH
      BY <1>2, <2>1
    <2> QED
      BY <1>2, <1>7, <2>1, <2>2, <2>3 DEF Lies, H
  <1>11. Lies(grid, l.gridY, Column.h)
    <2>1. l.gridH > 0 => l.gridY + l.gridH <= H
      BY <1>2, <1>3 DEF Less, Higher
    <2> QED
      BY <1>2, <1>7, <2>1 DEF Lies, H
  <1>12. CASE ProviderShown(l)
    <2>1. l.gridY = l.bodyY + l.synopsisH + 2 /\ l.gridY <= H
      BY <1>2, <1>3, <1>4, <1>12 DEF Less, Higher
    <2>2. line = part(l.gridY - 1, 1)
      BY <1>12
    <2> HIDE DEF line, text, head, meta, grid
    <2>3. Lies(line, l.gridY - 1, l.gridY)
      BY <1>2, <1>7, <2>1, <2>2 DEF Lies, H
    <2>4. Stacked(l, head, meta, text, line, grid)
      BY <1>2, <1>8, <1>9, <1>10, <1>11, <2>1, <2>3 DEF Stacked
    <2> QED
      BY <1>5, <1>6, <2>4
  <1>13. CASE ~ProviderShown(l)
    <2>1. line = text
      BY <1>13
    <2> HIDE DEF line, text, head, meta, grid
    <2>2. Stacked(l, head, meta, text, line, grid)
      BY <1>8, <1>9, <1>10, <1>11, <2>1 DEF Stacked
    <2> QED
      BY <1>5, <1>6, <2>2
  <1> QED
    BY <1>12, <1>13

LEMMA LiesApart ==
    ASSUME NEW r, NEW s, NEW a \in Nat, NEW b \in Nat, NEW c \in Nat, NEW d \in Nat,
           Lies(r, a, b), Lies(s, c, d), b <= c, HasCells(r), HasCells(s)
    PROVE  Disjoint(r, s) /\ Disjoint(s, r)
  BY DEF Lies, HasCells, Disjoint

\* Where a surface is drawn at all, it is inside the frame and beside the list.
LEMMA AreaInside ==
    ASSUME PaneInv, ~TooSmallFrame, HasSurface, Area.w # 0
    PROVE  /\ Area.x + Area.w <= term.w /\ (place # "zoom" => ListArea.x + ListArea.w <= Area.x)
  <1>1. term.w \in Nat /\ term.w >= 16
    BY DEF PaneInv, TooSmallFrame
  <1>2. ListW \in Nat
    <2>1. (term.w * 38) \div 100 \in Nat
      BY <1>1
    <2> QED
      BY <2>1 DEF ListW, Higher
  <1>3. CASE place = "zoom"
    <2>1. Area = Rect(2, 2, Less(term.w, 3), Content.h)
      BY <1>3 DEF Area
    <2> QED
      BY <1>1, <1>3, <2>1 DEF Rect, Less, Higher
  <1>4. CASE place # "zoom"
    <2>1. TwoPane
      BY <1>4 DEF HasSurface
    <2> DEFINE pw == Lower(Less(Less(term.w, DetailX), 1), Less(term.w, DetailX))
               lw == Lower(ListW, Less(term.w, 2))
    <2>2. Area = Rect(DetailX, 2, pw, Content.h)
      BY <1>4 DEF Area, PaneArea
    <2>3. ListArea = Rect(2, 2, lw, Content.h)
      BY <2>1 DEF ListArea
    <2>4. lw <= ListW /\ lw \in Int /\ DetailX = ListW + 4
      BY <1>1, <1>2 DEF Lower, DetailX, Less, Higher
    <2>5. pw # 0 => DetailX + pw <= term.w
      BY <1>1, <1>2 DEF Lower, DetailX, Less, Higher
    <2> HIDE DEF pw, lw
    <2>6. Area.x = DetailX /\ Area.w = pw /\ ListArea.x = 2 /\ ListArea.w = lw
      BY <2>2, <2>3 DEF Rect
    <2> QED
      BY <1>2, <2>4, <2>5, <2>6
  <1> QED
    BY <1>3, <1>4

LEMMA CoverPlaced ==
    ASSUME PaneInv, NEW l, l = Layout, HasCells(Cover(l))
    PROVE  /\ Cover(l).x = Area.x /\ Cover(l).y = 3 /\ Cover(l).h = CoverH /\ Cover(l).w \in Nat
           /\ Cover(l).w <= Area.w /\ CoverH > 0 /\ 1 + CoverH <= Area.h
           /\ Split => Cover(l).x + Cover(l).w <= Column.x
           /\ ~Split => l.headerY = CoverH + 2
  <1> DEFINE w == IF Split THEN SplitCoverW ELSE CoverW(Area.w)
             ah == Area.h
             aw == Area.w
             ch == CoverH
  <1>1. l.coverH = ch /\ l.headerY = IF Split \/ ch = 0 THEN 1 ELSE ch + 2
    BY LinesInOrder
  <1>2. /\ Area.y = 2 /\ ah \in Nat /\ aw \in Nat /\ ch \in Nat
        /\ Split => ch <= Less(ah, 2) /\ (ch > 0 => Area.x + w <= Column.x) /\ w \in Nat /\ w <= 20
        /\ ~Split => ch <= HeightCap(ah) /\ w <= aw /\ w \in Nat
    BY SurfaceTyped
  <1>3. Split => aw >= 100
    BY DEF Split
  <1>4. Cover(l) = Rect(Area.x, 3, w, ch)
    BY <1>1, <1>2 DEF Cover
  <1> HIDE DEF w, ah, aw, ch
  <1>5. Cover(l).x = Area.x /\ Cover(l).y = 3 /\ Cover(l).w = w /\ Cover(l).h = ch
    BY <1>4 DEF Rect
  <1>6. ch > 0
    BY <1>5 DEF HasCells
  <1>7. 1 + ch <= ah
    <2>1. HeightCap(ah) <= Less(ah, 2)
      BY <1>2 DEF HeightCap, CoverReserve, MinCoverRows, Less, Higher
    <2>2. ch <= Less(ah, 2)
      <3>1. Less(ah, 2) \in Nat /\ HeightCap(ah) \in Nat
        BY <1>2 DEF HeightCap, CoverReserve, MinCoverRows, Less, Higher
      <3> QED
        BY <1>2, <2>1, <3>1
    <2> QED
      BY <1>2, <1>6, <2>2 DEF Less, Higher
  <1>8. w \in Nat /\ w <= aw
    BY <1>2, <1>3
  <1> QED
    BY <1>1, <1>2, <1>5, <1>6, <1>7, <1>8 DEF w, ah, aw, ch

LEMMA NothingOverlaps ==
    ASSUME PaneInv, NEW l, l = Layout
    PROVE  RegionsApart(Regions(l))
  <1> SUFFICES ASSUME ~TooSmallFrame
               PROVE  /\ HasCells(ListArea) => WithinFrame(ListArea)
                      /\ \A r \in Regions(l) : HasCells(r) =>
                            /\ WithinFrame(r)
                            /\ place # "zoom" => ListArea.x + ListArea.w <= r.x
                            /\ \A s \in Regions(l) \ {r} : HasCells(s) => Disjoint(r, s)
    BY DEF RegionsApart
  <1>1. term.w \in Nat /\ term.w >= 16 /\ term.h \in Nat /\ term.h >= 4 /\ Less(term.h, 3) = term.h - 3
    BY DEF PaneInv, TooSmallFrame, Less, Higher
  <1>2. HasCells(ListArea) => WithinFrame(ListArea)
    <2> DEFINE w == IF TwoPane THEN Lower(ListW, Less(term.w, 2)) ELSE Less(term.w, 3)
    <2>1. ListArea = Rect(2, 2, w, Content.h)
      BY DEF ListArea
    <2>2. (term.w * 38) \div 100 \in Nat
      BY <1>1
    <2>3. ListW \in Nat
      BY <2>2 DEF ListW, Higher
    <2>4. w <= term.w - 2 /\ w \in Nat
      BY <1>1, <2>3 DEF Less, Higher, Lower
    <2> HIDE DEF w
    <2>5. ListArea.x = 2 /\ ListArea.y = 2 /\ ListArea.w = w /\ ListArea.h = term.h - 3
      BY <1>1, <2>1 DEF Rect, Content
    <2> QED
      BY <1>1, <2>4, <2>5 DEF WithinFrame
  <1>3. ASSUME NEW r \in Regions(l), HasCells(r)
        PROVE  /\ WithinFrame(r)
               /\ place # "zoom" => ListArea.x + ListArea.w <= r.x
               /\ \A s \in Regions(l) \ {r} : HasCells(s) => Disjoint(r, s)
    <2>1. HasSurface /\ Area.w # 0
      BY RegionsPlaced
    <2>2. PICK head, meta, text, line, grid :
             Stacked(l, head, meta, text, line, grid) /\ Regions(l) \subseteq {Cover(l), head, meta, text, line, grid}
      BY RegionsPlaced
    <2>3. Area.x + Area.w <= term.w /\ (place # "zoom" => ListArea.x + ListArea.w <= Area.x)
      BY <2>1, AreaInside
    <2>4. /\ Area.x \in Nat /\ Area.y = 2 /\ Area.w \in Nat /\ Area.h \in Nat /\ Area.h = term.h - 3
          /\ Column.x \in Nat /\ Column.w \in Nat /\ Column.h = Area.h
          /\ Column.x >= Area.x /\ Column.x + Column.w <= Area.x + Area.w
          /\ ListArea.x = 2 /\ ListArea.w \in Nat
      BY <1>1, SurfaceTyped
    <2>5. /\ l.headerY \in Nat /\ l.headerEnd \in Nat /\ l.bodyY \in Nat /\ l.synopsisH \in Nat
          /\ l.gridY \in Nat /\ l.headerY <= l.headerEnd /\ l.headerEnd <= l.bodyY
          /\ l.bodyY + l.synopsisH \in Nat /\ l.bodyY + l.synopsisH <= l.gridY
      <3>1. /\ l.headerY \in Nat /\ l.headerEnd \in Nat /\ l.bodyY \in Nat /\ l.synopsisH \in Nat
            /\ l.gridY \in Nat /\ l.headerY <= l.headerEnd /\ l.headerEnd <= l.bodyY
            /\ l.gridY = l.bodyY + l.synopsisH + 1 + (IF ProviderShown(l) THEN 1 ELSE 0)
        BY LinesInOrder
      <3> QED
        BY <3>1
    <2> DEFINE a == l.headerY
               b == l.headerEnd
               c == l.bodyY
               d == l.bodyY + l.synopsisH
               e == l.gridY
    <2>6. /\ Lies(head, a, b) /\ Lies(meta, b, c) /\ Lies(text, c, d) /\ Lies(grid, e, Column.h)
          /\ line = text \/ (Lies(line, e - 1, e) /\ d <= e - 1)
      BY <2>2 DEF Stacked
    <2>7. a \in Nat /\ b \in Nat /\ c \in Nat /\ d \in Nat /\ e \in Nat /\ a <= b /\ b <= c /\ c <= d /\ d <= e
      BY <2>5
    <2> HIDE DEF a, b, c, d, e
    <2>8. ASSUME NEW s, s \in {head, meta, text, line, grid}, HasCells(s)
          PROVE  /\ WithinFrame(s) /\ s.x = Column.x /\ s.y \in Nat /\ s.y >= 2 + a
                 /\ place # "zoom" => ListArea.x + ListArea.w <= s.x
      <3>1. \E f \in Nat : \E last : f >= a /\ Lies(s, f, last)
        <4>1. a >= a /\ b >= a /\ c >= a /\ e >= a
          BY <2>7
        <4>2. CASE s = line /\ line # text
          <5>1. e - 1 \in Nat /\ e - 1 >= a
            BY <2>6, <2>7, <4>2
          <5> QED
            BY <2>6, <4>2, <5>1
        <4> QED
          BY <2>6, <2>7, <2>8, <4>1, <4>2
      <3>2. PICK f \in Nat : \E last : f >= a /\ Lies(s, f, last)
        BY <3>1
      <3>3. s.x = Column.x /\ s.w = Column.w /\ s.y = 2 + f /\ s.h \in Nat /\ s.h > 0 /\ f + s.h <= Column.h /\ f >= a
        BY <2>8, <3>2 DEF Lies, HasCells
      <3>4. WithinFrame(s)
        BY <1>1, <2>3, <2>4, <3>3 DEF WithinFrame
      <3> QED
        BY <2>3, <2>4, <2>7, <3>3, <3>4
    <2>9. ASSUME HasCells(Cover(l))
          PROVE  /\ WithinFrame(Cover(l))
                 /\ place # "zoom" => ListArea.x + ListArea.w <= Cover(l).x
                 /\ \A s \in {head, meta, text, line, grid} : HasCells(s) => Disjoint(Cover(l), s) /\ Disjoint(s, Cover(l))
      <3>1. /\ Cover(l).x = Area.x /\ Cover(l).y = 3 /\ Cover(l).h = CoverH /\ Cover(l).w \in Nat
            /\ Cover(l).w <= Area.w /\ CoverH > 0 /\ 1 + CoverH <= Area.h
            /\ Split => Cover(l).x + Cover(l).w <= Column.x
            /\ ~Split => a = CoverH + 2
        BY <2>9, CoverPlaced DEF a
      <3>2. CoverH \in Nat
        BY SurfaceTyped
      <3> DEFINE top == Cover(l)
      <3>3. top.x = Area.x /\ top.y = 3 /\ top.h = CoverH /\ top.w \in Nat /\ top.w <= Area.w
            /\ (Split => top.x + top.w <= Column.x)
        BY <3>1
      <3> HIDE DEF top
      <3>4. WithinFrame(top)
        BY <1>1, <2>3, <2>4, <3>1, <3>2, <3>3 DEF WithinFrame
      <3>5. place # "zoom" => ListArea.x + ListArea.w <= top.x
        BY <2>3, <3>3
      <3>6. ASSUME NEW s, s \in {head, meta, text, line, grid}, HasCells(s)
            PROVE  Disjoint(top, s) /\ Disjoint(s, top)
        <4>1. s.x = Column.x /\ s.y \in Nat /\ s.y >= 2 + a
          BY <2>8, <3>6
        <4>2. CASE Split
          BY <3>3, <4>1, <4>2 DEF Disjoint
        <4>3. CASE ~Split
          <5>1. top.y + top.h <= s.y
            BY <3>1, <3>2, <3>3, <4>1, <4>3
          <5> QED
            BY <5>1 DEF Disjoint
        <4> QED
          BY <4>2, <4>3
      <3> QED
        BY <3>4, <3>5, <3>6 DEF top
    <2>10. ASSUME NEW s, NEW t, HasCells(s), HasCells(t), s # t, s \in {head, meta, text, line, grid},
                  t \in {head, meta, text, line, grid}
           PROVE  Disjoint(s, t)
      <3> DEFINE Apart(x, y) == HasCells(x) /\ HasCells(y) => Disjoint(x, y) /\ Disjoint(y, x)
      <3>0. /\ a <= b /\ b <= c /\ c <= d /\ d <= e /\ b <= d /\ b <= e /\ c <= e /\ Column.h \in Nat
            /\ a \in Nat /\ b \in Nat /\ c \in Nat /\ d \in Nat /\ e \in Nat
        BY <2>4, <2>7
      <3>1. Apart(head, meta) /\ Apart(head, text) /\ Apart(head, grid)
        BY <2>6, <3>0, LiesApart
      <3>2. Apart(meta, text) /\ Apart(meta, grid) /\ Apart(text, grid)
        <4>1. Apart(meta, text)
          BY <2>6, <3>0, LiesApart
        <4>2. Apart(meta, grid)
          BY <2>6, <3>0, LiesApart
        <4>3. Apart(text, grid)
          BY <2>6, <3>0, LiesApart
        <4> QED
          BY <4>1, <4>2, <4>3
      <3>3. CASE line = text
        <4> HIDE DEF Apart
        <4>1. Apart(s, t) \/ Apart(t, s)
          BY <2>10, <3>1, <3>2, <3>3
        <4> QED
          BY <2>10, <4>1 DEF Apart
      <3>4. CASE line # text
        <4>1. Lies(line, e - 1, e) /\ d <= e - 1 /\ e - 1 \in Nat /\ e <= e /\ b <= e - 1 /\ c <= e - 1
          BY <2>6, <3>0, <3>4
        <4>2. Apart(head, line) /\ Apart(meta, line) /\ Apart(text, line)
          BY <2>6, <3>0, <4>1, LiesApart
        <4>3. Apart(line, grid)
          BY <2>6, <3>0, <4>1, LiesApart
        <4> HIDE DEF Apart
        <4>4. Apart(s, t) \/ Apart(t, s)
          BY <2>10, <3>1, <3>2, <4>2, <4>3
        <4> QED
          BY <2>10, <4>4 DEF Apart
      <3> QED
        BY <3>3, <3>4
    <2> QED
      BY <1>3, <2>2, <2>8, <2>9, <2>10
  <1> QED
    BY <1>2, <1>3

\* Nothing that is drawn of a show, in a terminal of any size, takes the place of another.
LEMMA PanesStaySound ==
    ASSUME PaneInv
    PROVE  PanesSound
  <1> DEFINE l == Layout
  <1>1. l = Layout
    OBVIOUS
  <1> HIDE DEF l
  <1>2. LayoutSound(l)
    BY <1>1, NothingOverlaps, GridsAreKept DEF LayoutSound
  <1> QED
    BY <1>1, <1>2, BarIsHonest, TopBarIsClear DEF PanesSound

-----------------------------------------------------------------------------
LEMMA PanesStart ==
    ASSUME PanesAssumption, PanesInit
    PROVE  PaneInv
  <1>1. \A n \in TermWidths \cup TermHeights \cup Headers \cup Synopses \cup GridLengths \cup SeasonLengths : n \in Nat
    BY DEF PanesAssumption
  <1>2. term.w \in TermWidths /\ term.h \in TermHeights /\ pixels.w \in Nat /\ pixels.h \in Nat
        /\ subject.header \in Headers /\ subject.synopsis \in Synopses
    BY DEF PanesInit, PanesAssumption, Subjects
  <1>3. place \in {"browse", "history", "zoom", "rows"} /\ focus \in BOOLEAN /\ gridView = NoGrid /\ bar = NoBar
    BY DEF PanesInit
  <1>4. subject.header <= 5
    BY <1>2 DEF PanesAssumption
  <1> QED
    BY <1>1, <1>2, <1>3, <1>4 DEF PaneInv, NoGrid, NoBar

LEMMA PanesStep ==
    ASSUME PanesAssumption, PaneInv, [PanesNext]_paneVars
    PROVE  PaneInv'
  <1>1. \A n \in TermWidths \cup TermHeights \cup Headers \cup Synopses \cup GridLengths \cup SeasonLengths : n \in Nat
    BY DEF PanesAssumption
  <1>2. CASE OpensDetail
    <2>1. PICK q \in BOOLEAN : gridView' = [NoGrid EXCEPT !.engaged = TRUE, !.provider = q]
      BY <1>2 DEF OpensDetail
    <2>2. gridView' = [engaged |-> TRUE, length |-> 0, cursor |-> 0, provider |-> q]
      BY <2>1 DEF NoGrid
    <2> QED
      BY <1>2, <2>2 DEF OpensDetail, PaneInv
  <1>3. CASE Promotes
    BY <1>3 DEF Promotes, PaneInv
  <1>4. CASE Closes
    <2>1. place' \in {"browse", "history", "zoom", "rows"} /\ focus' \in BOOLEAN
      <3> DEFINE wide == TwoPane
      <3>1. wide \in BOOLEAN
        BY DEF TwoPane
      <3>2. IF place = "zoom" THEN place' = "history" /\ focus' = wide ELSE focus' = FALSE /\ UNCHANGED place
        BY <1>4 DEF Closes
      <3>3. place \in {"browse", "history", "zoom", "rows"}
        BY DEF PaneInv
      <3> HIDE DEF wide
      <3>4. CASE place = "zoom"
        BY <3>1, <3>2, <3>4, Zenon
      <3>5. CASE place # "zoom"
        BY <3>2, <3>3, <3>5, Zenon
      <3> QED
        BY <3>4, <3>5
    <2> QED
      BY <1>4, <2>1 DEF Closes, PaneInv
  <1>5. CASE EpisodesLand
    <2>1. PICK n \in GridLengths : gridView' = [gridView EXCEPT !.length = n, !.cursor = 0]
      BY <1>5 DEF EpisodesLand
    <2>2. gridView'.engaged \in BOOLEAN /\ gridView'.provider \in BOOLEAN /\ gridView'.length \in Nat /\ gridView'.cursor \in Nat
      BY <2>1, <1>1 DEF PaneInv
    <2> QED
      BY <1>5, <2>2 DEF EpisodesLand, PaneInv
  <1>6. CASE CursorMoves
    <2> DEFINE n == gridView.length
    <2>1. n \in Nat /\ n > 0
      BY <1>6 DEF CursorMoves, PaneInv
    <2>2. PICK c \in {0, n \div 2, n - 1} : gridView' = [gridView EXCEPT !.cursor = c]
      BY <1>6 DEF CursorMoves
    <2> HIDE DEF n
    <2>3. c \in Nat
      BY <2>1, <2>2
    <2>4. gridView'.engaged \in BOOLEAN /\ gridView'.provider \in BOOLEAN /\ gridView'.length \in Nat /\ gridView'.cursor \in Nat
      BY <2>2, <2>3 DEF PaneInv
    <2> QED
      BY <1>6, <2>4 DEF CursorMoves, PaneInv
  <1>7. CASE Resizes
    <2>1. PICK w \in TermWidths : term' = [term EXCEPT !.w = w] /\ focus' = (focus /\ (place = "zoom" \/ w >= 60))
      BY <1>7 DEF Resizes
    <2>2. term'.w \in Nat /\ term'.h \in Nat
      BY <1>1, <2>1 DEF PaneInv
    <2>3. focus' \in BOOLEAN
      BY <2>1, Zenon
    <2> QED
      BY <1>7, <2>2, <2>3 DEF Resizes, PaneInv
  <1>8. CASE RowReads
    <2>1. PICK t \in SeasonLengths \cup {-1}, q \in SeasonLengths, a \in SeasonLengths \cup {-1}, r \in SeasonLengths \cup {-1} :
             bar' = [progress |-> q, total |-> t, aired |-> a, resume |-> r]
      BY <1>8 DEF RowReads
    <2>2. q \in Nat /\ t \in Nat \cup {-1} /\ a \in Nat \cup {-1} /\ r \in Nat \cup {-1}
      BY <1>1
    <2> QED
      BY <1>8, <2>1, <2>2 DEF RowReads, PaneInv
  <1>9. CASE UNCHANGED paneVars
    BY <1>9 DEF paneVars, PaneInv
  <1> QED
    BY <1>2, <1>3, <1>4, <1>5, <1>6, <1>7, <1>8, <1>9 DEF PanesNext

\* On every frame the terminal can be resized to, a layout's regions are inside it, none
\* overlaps another, the cursor's cell is on the screen, and what the top bar and an
\* entry's bar show adds up (layout.rs, detail.rs).
THEOREM PanesAreSound == PanesSpec => []PanesSound
  <1>1. PanesInit => PaneInv
    BY PanesAssumption, PanesStart
  <1>2. PaneInv /\ [PanesNext]_paneVars => PaneInv'
    BY PanesAssumption, PanesStep
  <1>3. PaneInv => PanesSound
    BY PanesStaySound
  <1> QED
    BY <1>1, <1>2, <1>3, PTL DEF PanesSpec

-----------------------------------------------------------------------------
\* The terminal has one of its sizes, and the cursor is on an episode of the grid.
GridMade(g) == g = [engaged |-> g.engaged, length |-> g.length, cursor |-> g.cursor, provider |-> g.provider]
CursorInGrid(g) == g.length \in Nat /\ g.cursor \in Nat /\ g.cursor < Higher(g.length, 1)
PanesKept ==
    /\ term \in [w : TermWidths, h : TermHeights] /\ place \in {"browse", "history", "zoom", "rows"}
    /\ GridMade(gridView) /\ CursorInGrid(gridView)

LEMMA KeptStart ==
    ASSUME PanesInit
    PROVE  PanesKept
  BY DEF PanesInit, PanesKept, GridMade, CursorInGrid, NoGrid, Higher

LEMMA KeptStep ==
    ASSUME PanesKept, [PanesNext]_paneVars
    PROVE  PanesKept'
  <1>1. /\ term \in [w : TermWidths, h : TermHeights] /\ place \in {"browse", "history", "zoom", "rows"}
        /\ GridMade(gridView) /\ CursorInGrid(gridView)
    BY DEF PanesKept
  <1>2. ASSUME term' \in [w : TermWidths, h : TermHeights], place' \in {"browse", "history", "zoom", "rows"},
               GridMade(gridView'), CursorInGrid(gridView')
        PROVE  PanesKept'
    BY <1>2 DEF PanesKept, GridMade, CursorInGrid, Higher
  <1>3. CASE Promotes \/ Closes \/ RowReads \/ UNCHANGED paneVars
    <2>1. UNCHANGED <<term, gridView>> /\ place' \in {"browse", "history", "zoom", "rows"}
      BY <1>1, <1>3 DEF Promotes, Closes, RowReads, paneVars
    <2> QED
      BY <1>1, <1>2, <2>1
  <1>4. CASE OpensDetail
    <2>1. PICK p \in BOOLEAN : gridView' = [NoGrid EXCEPT !.engaged = TRUE, !.provider = p]
      BY <1>4 DEF OpensDetail
    <2>2. gridView' = [engaged |-> TRUE, length |-> 0, cursor |-> 0, provider |-> p]
      BY <2>1 DEF NoGrid
    <2>3. GridMade(gridView') /\ CursorInGrid(gridView')
      BY <2>2 DEF GridMade, CursorInGrid, Higher
    <2>4. UNCHANGED term /\ place' \in {"browse", "history", "zoom", "rows"}
      BY <1>1, <1>4 DEF OpensDetail
    <2> QED
      BY <1>1, <1>2, <2>3, <2>4
  <1>5. CASE EpisodesLand
    <2>1. PICK n \in GridLengths : gridView' = [gridView EXCEPT !.length = n, !.cursor = 0]
      BY <1>5 DEF EpisodesLand
    <2>2. gridView' = [engaged |-> gridView.engaged, length |-> n, cursor |-> 0, provider |-> gridView.provider]
      BY <1>1, <2>1 DEF GridMade
    <2>3. n \in Nat
      BY PanesAssumption
    <2>4. GridMade(gridView') /\ CursorInGrid(gridView')
      BY <2>2, <2>3 DEF GridMade, CursorInGrid, Higher
    <2>5. UNCHANGED <<term, place>>
      BY <1>5 DEF EpisodesLand
    <2> QED
      BY <1>1, <1>2, <2>4, <2>5
  <1>6. CASE CursorMoves
    <2>1. PICK c \in {0, gridView.length \div 2, gridView.length - 1} : gridView' = [gridView EXCEPT !.cursor = c]
      BY <1>6 DEF CursorMoves
    <2>2. gridView.length > 0 /\ UNCHANGED <<term, place>>
      BY <1>6 DEF CursorMoves
    <2>3. gridView' = [engaged |-> gridView.engaged, length |-> gridView.length, cursor |-> c, provider |-> gridView.provider]
      BY <1>1, <2>1 DEF GridMade
    <2>4. c \in Nat /\ c < gridView.length /\ gridView.length \in Nat
      <3> DEFINE all == gridView.length
      <3>1. all \in Nat /\ all > 0
        BY <1>1, <2>2 DEF CursorInGrid
      <3>2. c \in {0, all \div 2, all - 1}
        BY <2>1
      <3> HIDE DEF all
      <3>3. all \div 2 \in Nat /\ all \div 2 < all
        BY <3>1
      <3>4. c \in Nat /\ c < all /\ all \in Nat
        BY <3>1, <3>2, <3>3
      <3> QED
        BY <3>4 DEF all
    <2>5. GridMade(gridView') /\ CursorInGrid(gridView')
      BY <2>3, <2>4 DEF GridMade, CursorInGrid, Higher
    <2> QED
      BY <1>1, <1>2, <2>2, <2>5
  <1>7. CASE Resizes
    <2>1. PICK w \in TermWidths : term' = [term EXCEPT !.w = w]
      BY <1>7 DEF Resizes
    <2>2. term' \in [w : TermWidths, h : TermHeights] /\ UNCHANGED <<place, gridView>>
      BY <1>1, <1>7, <2>1 DEF Resizes
    <2> QED
      BY <1>1, <1>2, <2>2
  <1> QED
    BY <1>3, <1>4, <1>5, <1>6, <1>7 DEF PanesNext

\* The grid's cursor is on one of its episodes, whatever the terminal is resized to.
LEMMA PanesTyped == PanesSpec => []PanesTypeOK
  <1>1. PanesInit => PanesKept
    BY KeptStart
  <1>2. PanesKept /\ [PanesNext]_paneVars => PanesKept'
    BY KeptStep
  <1>3. PanesKept => PanesTypeOK
    BY DEF PanesKept, CursorInGrid, PanesTypeOK
  <1> QED
    BY <1>1, <1>2, <1>3, PTL DEF PanesSpec

\* Keys, surfaces and windows: every key acts on what the screen shows, whatever was
\* resized or landed since it was drawn (app.rs, layout.rs, history.rs, discover.rs).
THEOREM ScreensAreHonest == NavSpec /\ PanesSpec /\ WindowsSpec => ScreenHonest
  BY KeysAreHonest, PanesAreSound, WindowsAreSound, PTL DEF ScreenHonest

=============================================================================
