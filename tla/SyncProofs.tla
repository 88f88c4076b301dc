----------------------------- MODULE SyncProofs -----------------------------
(***************************************************************************)
(* Theorems about the synced library for every set of shows, every bound   *)
(* on progress and any number of edits, faults, crashes and concurrent     *)
(* runs: its types; what sync may believe and what a pull may overwrite;   *)
(* what a push may overwrite; and that an undisturbed run is the one-step  *)
(* sync of Replicas.                                                       *)
(***************************************************************************)
EXTENDS Library, Replicas, FiniteSetTheorems, TLAPS

-----------------------------------------------------------------------------
(***************************************************************************)
(* What the row writers return                                             *)
(***************************************************************************)

\* Minting and promoting give a row of the table.
LEMMA MintType ==
    /\ Unset \in Pair
    /\ Identity \in Row
    /\ \A r \in Row \cup {None} : BindProvider(r) \in Row /\ AddToLibrary(r) \in Row
<1>1. Unset \in Pair
  BY ProgressAssumption DEF Unset, Pair, ListStatus
<1>2. Identity \in Row
  BY <1>1 DEF Identity, Row
<1>3. ASSUME NEW r \in Row \cup {None}
      PROVE  BindProvider(r) \in Row /\ AddToLibrary(r) \in Row
  BY <1>2 DEF BindProvider, AddToLibrary, Row
<1>4. QED
  BY <1>1, <1>2, <1>3

\* Every writer of user state gives a row of the table.
LEMMA WriterType ==
    ASSUME NEW r \in Row
    PROVE  /\ \A k \in 0..MaxProgress, natural \in BOOLEAN, m \in Media :
                 RecordFinish(r, k, natural, m) \in Row
           /\ \A status \in ListStatus, m \in Media : SetListStatus(r, status, m) \in Row
           /\ \A pair \in Pair : RestoreListStatus(r, pair) \in Row /\ MarkSynced(r, pair) \in Row
           /\ \A n \in 0..MaxProgress : RecomputeProgress(r, n) \in Row
           /\ RecordEngagement(r) \in Row
           /\ SaveProgress(r) \in Row
           /\ AdoptOrphanedProgress(r) \in Row
<1>1. ASSUME NEW k \in 0..MaxProgress, NEW natural \in BOOLEAN, NEW m \in Media
      PROVE  RecordFinish(r, k, natural, m) \in Row
  <2> DEFINE progress == IF natural THEN Larger(r.pair.progress, k) ELSE r.pair.progress
  <2>1. progress \in 0..MaxProgress
    BY ProgressAssumption DEF Row, Pair, Larger
  <2>2. AfterPlay(r.pair.status, progress, m) \in ListStatus
    BY DEF AfterPlay, ListStatus
  <2>3. QED
    BY <2>1, <2>2 DEF RecordFinish, Row, Pair
<1>2. ASSUME NEW status \in ListStatus, NEW m \in Media
      PROVE  SetListStatus(r, status, m) \in Row
  BY DEF SetListStatus, Row, Pair, Media
<1>3. ASSUME NEW pair \in Pair
      PROVE  RestoreListStatus(r, pair) \in Row /\ MarkSynced(r, pair) \in Row
  BY NoneAssumption DEF RestoreListStatus, MarkSynced, Row
<1>4. ASSUME NEW n \in 0..MaxProgress
      PROVE  RecomputeProgress(r, n) \in Row
  BY DEF RecomputeProgress, Row, Pair
<1>5. RecordEngagement(r) \in Row /\ SaveProgress(r) \in Row
  BY DEF RecordEngagement, SaveProgress, Row
<1>6. AdoptOrphanedProgress(r) \in Row
  BY <1>5 DEF AdoptOrphanedProgress
<1>7. QED
  BY <1>1, <1>2, <1>3, <1>4, <1>5, <1>6

\* The merge of two pairs is a pair.
LEMMA MergeType ==
    ASSUME NEW snap \in Entry, NEW local \in Pair, NEW remote \in Pair
    PROVE  MergePair(snap, local, remote) \in Pair
<1>1. Base(snap) \in Pair
  BY MintType DEF Base, Entry
<1>2. MergeStatus(Base(snap).status, local.status, remote.status) \in ListStatus
  BY DEF MergeStatus, Pair
<1>3. MergeProgress(Base(snap).progress, local.progress, remote.progress) \in 0..MaxProgress
  BY <1>1, ProgressAssumption DEF MergeProgress, Larger, Pair
<1>4. QED
  BY <1>2, <1>3 DEF MergePair, Pair

\* An idle run and a started one are runs.
LEMMA IdleType ==
    /\ Idle \in Run
    /\ \A mode \in Mode : Started(mode) \in Run
    /\ \A b \in BOOLEAN : [Idle EXCEPT !.pc = "done", !.changed = b] \in Run
    /\ [Idle EXCEPT !.pc = "done"] \in Run
  BY DEF Idle, Run, Step, Mode, NoReply, Entry, Started

-----------------------------------------------------------------------------
(***************************************************************************)
(* Type correctness of a run's steps                                       *)
(***************************************************************************)

\* A run that is about to save or to stamp holds the row it does it for.
CurSet == \A p \in Runs : run[p].pc \in {"save", "mark"} => run[p].cur \in WorkRow

TypeInv == TypeOK /\ CurSet

FunnelInv == FunnelTypeOK /\ CurSet

\* What a run record must satisfy for FunnelInv.
GoodRun(r) == r \in Run /\ (r.pc \in {"save", "mark"} => r.cur \in WorkRow)

\* Replacing one run by a good one keeps all of them good.
LEMMA RunBecomesType ==
    ASSUME FunnelInv, NEW p \in Runs, NEW r, GoodRun(r), RunBecomes(p, r)
    PROVE  run' \in [Runs -> Run] /\ CurSet'
  BY DEF FunnelInv, FunnelTypeOK, CurSet, GoodRun, RunBecomes

\* A step that changes one run and nothing else.
LEMMA OnlyRunType ==
    ASSUME FunnelInv, NEW p \in Runs, NEW r, GoodRun(r), RunBecomes(p, r),
           UNCHANGED <<rows, server, held, acct>>
    PROVE  FunnelInv'
<1>1. run' \in [Runs -> Run] /\ CurSet'
  BY RunBecomesType
<1>2. QED
  BY <1>1 DEF FunnelInv, FunnelTypeOK

\* The shared tails of the steps give good runs.
LEMMA TailType ==
    ASSUME FunnelInv, NEW p \in Runs
    PROVE  /\ GoodRun(run[p])
           /\ \A pc \in Step \ {"save", "mark"} : GoodRun([run[p] EXCEPT !.pc = pc])
           /\ GoodRun([Idle EXCEPT !.pc = "done", !.changed = run[p].changed])
           /\ GoodRun([Idle EXCEPT !.pc = "done"])
           /\ GoodRun(Idle)
           /\ \A mode \in Mode : GoodRun(Started(mode))
           /\ \A w : GoodRun(Past(run[p], w))
           /\ \A w \in Candidates(p) : w \in WorkRow
<1>1. run[p] \in Run /\ GoodRun(run[p])
  BY DEF FunnelInv, FunnelTypeOK, CurSet, GoodRun
<1>2. ASSUME NEW pc \in Step \ {"save", "mark"}
      PROVE  GoodRun([run[p] EXCEPT !.pc = pc])
  BY <1>1 DEF GoodRun, Run
<1>3. GoodRun([Idle EXCEPT !.pc = "done", !.changed = run[p].changed])
  <2>1. run[p].changed \in BOOLEAN
    BY <1>1 DEF Run
  <2>2. [Idle EXCEPT !.pc = "done", !.changed = run[p].changed].pc = "done"
    BY DEF Idle
  <2>3. QED
    BY <2>1, <2>2, IdleType DEF GoodRun
<1>4. GoodRun([Idle EXCEPT !.pc = "done"])
  <2>1. [Idle EXCEPT !.pc = "done"].pc = "done"
    BY DEF Idle
  <2>2. QED
    BY <2>1, IdleType DEF GoodRun
<1>5. GoodRun(Idle)
  BY IdleType DEF GoodRun, Idle
<1>6. ASSUME NEW mode \in Mode PROVE GoodRun(Started(mode))
  <2>1. Started(mode).pc \in {"list", "fetch"}
    BY DEF Started, Idle
  <2>2. QED
    BY <2>1, IdleType DEF GoodRun
<1>7. ASSUME NEW w PROVE GoodRun(Past(run[p], w))
  BY <1>1 DEF GoodRun, Past, Run, Step
<1>8. ASSUME NEW w \in Candidates(p) PROVE w \in WorkRow
  BY <1>1 DEF Candidates, Run
<1>9. QED
  BY <1>1, <1>2, <1>3, <1>4, <1>5, <1>6, <1>7, <1>8

\* A write on AniList keeps its entries, their history and the runs well typed.
LEMMA ServerWriteType ==
    ASSUME FunnelInv, NEW s \in Shows, NEW pair \in Entry
    PROVE  /\ ServerWrites(s, pair) => /\ server' \in [Shows -> Entry]
                                       /\ held' \in [Shows -> SUBSET Pair]
           /\ Overtaken(s) \in [Runs -> Run]
           /\ \A q \in Runs : GoodRun(Overtaken(s)[q])
<1>1. ASSUME NEW q \in Runs PROVE GoodRun(Overtaken(s)[q])
  <2>1. run[q] \in Run /\ GoodRun(run[q])
    BY TailType DEF GoodRun
  <2>2. GoodRun([run[q] EXCEPT !.raced = TRUE])
    BY <2>1 DEF GoodRun, Run
  <2>3. QED
    BY <2>1, <2>2 DEF Overtaken
<1>2. Overtaken(s) \in [Runs -> Run]
  BY <1>1 DEF Overtaken, GoodRun
<1>3. ASSUME ServerWrites(s, pair)
      PROVE  server' \in [Shows -> Entry] /\ held' \in [Shows -> SUBSET Pair]
  <2>1. server' \in [Shows -> Entry]
    BY <1>3 DEF ServerWrites, FunnelInv, FunnelTypeOK
  <2>2. pair # None => pair \in Pair
    BY DEF Entry
  <2>3. held' \in [Shows -> SUBSET Pair]
    BY <1>3, <2>2 DEF ServerWrites, FunnelInv, FunnelTypeOK
  <2>4. QED
    BY <2>1, <2>3
<1>4. QED
  BY <1>1, <1>2, <1>3

\* An overtaken set of runs with one of them replaced by a good one is good.
LEMMA OvertakenType ==
    ASSUME FunnelInv, NEW s \in Shows, NEW pair \in Entry, ServerWrites(s, pair),
           UNCHANGED <<rows, acct>>,
           \/ run' = Overtaken(s)
           \/ \E p \in Runs : \E r : GoodRun(r) /\ run' = [Overtaken(s) EXCEPT ![p] = r]
    PROVE  FunnelInv'
<1>1. \A q \in Runs : run'[q] \in Run /\ GoodRun(run'[q])
  BY ServerWriteType DEF GoodRun
<1>2. run' \in [Runs -> Run]
  BY <1>1, ServerWriteType DEF GoodRun
<1>3. CurSet'
  BY <1>1 DEF CurSet, GoodRun
<1>4. QED
  BY <1>2, <1>3, ServerWriteType DEF FunnelInv, FunnelTypeOK

\* The planned seeds and updates of a read of the library are well typed.
LEMMA PlanType ==
    ASSUME FunnelInv, NEW p \in Runs
    PROVE  LET remote == run[p].remote
           IN  /\ {[id |-> s, pair |-> remote[s]] : s \in Capped(Importable(remote))}
                    \subseteq ImportRow
               /\ \A s \in Shows : remote[s] # None /\ InLibrary(rows[s]) =>
                    PlanFor(s, rows[s], remote[s]) \in PlanRow
<1> DEFINE remote == run[p].remote
<1>1. remote \in [Shows -> Entry]
  BY DEF FunnelInv, FunnelTypeOK, Run
<1>2. {[id |-> s, pair |-> remote[s]] : s \in Capped(Importable(remote))} \subseteq ImportRow
  <2>1. \A s \in Capped(Importable(remote)) : s \in Shows /\ remote[s] # None
    BY DEF Capped, Importable, Unmatched
  <2>2. \A s \in Capped(Importable(remote)) : [id |-> s, pair |-> remote[s]] \in ImportRow
    BY <1>1, <2>1 DEF ImportRow, Entry
  <2>3. QED
    BY <2>2
<1>3. ASSUME NEW s \in Shows, remote[s] # None, InLibrary(rows[s])
      PROVE  PlanFor(s, rows[s], remote[s]) \in PlanRow
  <2>1. remote[s] \in Pair /\ rows[s] \in Row
    BY <1>1, <1>3 DEF InLibrary, Entry, FunnelInv, FunnelTypeOK
  <2>2. rows[s].pair \in Pair /\ rows[s].snap \in Entry
    BY <2>1 DEF Row, Entry
  <2>3. MergePair(rows[s].snap, rows[s].pair, remote[s]) \in Pair
    BY <2>1, <2>2, MergeType
  <2>4. QED
    BY <2>1, <2>2, <2>3 DEF PlanFor, PlanRow
<1>4. QED
  BY <1>2, <1>3

\* Every step of a run, faults included, preserves the types.
LEMMA RunStepType ==
    ASSUME FunnelInv, NEW p \in Runs, RunStep(p) \/ RunFault(p)
    PROVE  FunnelInv'
<1>a. run[p] \in Run /\ GoodRun(run[p])
  BY TailType DEF GoodRun
<1>1. CASE FetchList(p)
  <2>1. GoodRun([run[p] EXCEPT !.pc = "plan", !.remote = server])
    BY <1>a DEF GoodRun, Run, Step, FunnelInv, FunnelTypeOK
  <2>2. QED
    BY <1>1, <2>1, OnlyRunType DEF FetchList
<1>2. CASE ReconcilePlan(p)
  <2> DEFINE remote == run[p].remote
  <2> DEFINE imports == {[id |-> s, pair |-> remote[s]] : s \in Capped(Importable(remote))}
  <2> DEFINE matched == {s \in Shows : remote[s] # None /\ InLibrary(rows[s])}
  <2> DEFINE written == {s \in matched : NeedsWrite(rows[s], remote[s])}
  <2> DEFINE plan == {PlanFor(s, rows[s], remote[s]) : s \in written}
  <2>1. imports \subseteq ImportRow
    BY PlanType
  <2>2. plan \subseteq PlanRow
    BY PlanType
  <2>3. /\ RunBecomes(p, [run[p] EXCEPT !.pc = "import", !.remote = NoReply,
                                        !.imports = imports, !.plan = plan])
        /\ UNCHANGED <<rows, server, held, acct>>
    BY <1>2 DEF ReconcilePlan
  <2>4. GoodRun([run[p] EXCEPT !.pc = "import", !.remote = NoReply,
                               !.imports = imports, !.plan = plan])
    <3> HIDE DEF imports, plan
    <3> QED
      BY <1>a, <2>1, <2>2 DEF GoodRun, Run, Step, NoReply, Entry
  <2>5. QED
    BY <2>3, <2>4, OnlyRunType
<1>3. CASE ImportOne(p)
  <2>1. PICK i \in run[p].imports :
          LET minted == AddToLibrary(rows[i.id])
              fresh == minted.pair = Unset /\ minted.snap = None
          IN  /\ rows' = IF fresh
                         THEN [rows EXCEPT ![i.id] = [minted EXCEPT !.pair = i.pair,
                                                                    !.snap = i.pair]]
                         ELSE rows
              /\ acct' = IF fresh THEN [acct EXCEPT ![i.id] = @ \cup {i.pair}] ELSE acct
              /\ RunBecomes(p, [run[p] EXCEPT
                    !.imports = @ \ {i},
                    !.contended = IF fresh THEN @ ELSE @ \cup {i.id},
                    !.changed = @ \/ fresh])
    BY <1>3 DEF ImportOne
  <2> DEFINE minted == AddToLibrary(rows[i.id])
  <2> DEFINE fresh == minted.pair = Unset /\ minted.snap = None
  <2>2. i.id \in Shows /\ i.pair \in Pair
    BY <1>a DEF Run, ImportRow
  <2>3. minted \in Row
    BY <2>2, MintType DEF FunnelInv, FunnelTypeOK
  <2>4. [minted EXCEPT !.pair = i.pair, !.snap = i.pair] \in Row
    <3> HIDE DEF minted
    <3> QED
      BY <2>2, <2>3 DEF Row
  <2>5. rows' \in [Shows -> Row \cup {None}] /\ acct' \in [Shows -> SUBSET Pair]
    BY <2>1, <2>2, <2>4 DEF FunnelInv, FunnelTypeOK
  <2>6. GoodRun([run[p] EXCEPT !.imports = @ \ {i},
                               !.contended = IF fresh THEN @ ELSE @ \cup {i.id},
                               !.changed = @ \/ fresh])
    <3> HIDE DEF fresh
    <3>1. fresh \in BOOLEAN
      BY DEF fresh
    <3>2. (run[p].changed \/ fresh) \in BOOLEAN
      OBVIOUS
    <3>3. QED
      BY <1>a, <2>2, <3>2 DEF GoodRun, Run
  <2>7. run' \in [Runs -> Run] /\ CurSet'
    BY <2>1, <2>6, RunBecomesType
  <2>8. QED
    BY <1>3, <2>5, <2>7 DEF ImportOne, FunnelInv, FunnelTypeOK
<1>4. CASE ImportsDone(p)
  BY <1>4, TailType, OnlyRunType DEF ImportsDone, Goto, Step
<1>5. CASE ApplyOne(p)
  <2>1. PICK w \in run[p].plan :
          LET hit == rows[w.id] # None /\ rows[w.id].pair = w.guard
          IN  /\ rows' = IF hit
                         THEN [rows EXCEPT ![w.id].pair = w.merged, ![w.id].snap = w.snapshot]
                         ELSE rows
              /\ acct' = IF hit THEN [acct EXCEPT ![w.id] = @ \cup {w.snapshot}] ELSE acct
              /\ RunBecomes(p, [run[p] EXCEPT
                    !.plan = @ \ {w},
                    !.contended = IF hit THEN @ ELSE @ \cup {w.id},
                    !.changed = @ \/ hit])
    BY <1>5 DEF ApplyOne
  <2> DEFINE hit == rows[w.id] # None /\ rows[w.id].pair = w.guard
  <2>2. w.id \in Shows /\ w.merged \in Pair /\ w.snapshot \in Pair
    BY <1>a DEF Run, PlanRow
  <2>3. rows' \in [Shows -> Row \cup {None}] /\ acct' \in [Shows -> SUBSET Pair]
    BY <2>1, <2>2 DEF Row, FunnelInv, FunnelTypeOK
  <2>4. GoodRun([run[p] EXCEPT !.plan = @ \ {w},
                               !.contended = IF hit THEN @ ELSE @ \cup {w.id},
                               !.changed = @ \/ hit])
    <3> HIDE DEF hit
    <3>1. (run[p].changed \/ hit) \in BOOLEAN
      OBVIOUS
    <3>2. QED
      BY <1>a, <2>2, <3>1 DEF GoodRun, Run
  <2>5. run' \in [Runs -> Run] /\ CurSet'
    BY <2>1, <2>4, RunBecomesType
  <2>6. QED
    BY <1>5, <2>3, <2>5 DEF ApplyOne, FunnelInv, FunnelTypeOK
<1>6. CASE AppliesDone(p)
  BY <1>6, TailType, OnlyRunType DEF AppliesDone, Goto, Finish, Step
<1>7. CASE ListDirty(p)
  <2> DEFINE work == {[id |-> s, pair |-> rows[s].pair, snap |-> rows[s].snap] :
                        s \in Dirty \ run[p].contended}
  <2>1. work \subseteq WorkRow
    BY DEF Dirty, IsDirty, InLibrary, Row, WorkRow, Entry, FunnelInv, FunnelTypeOK
  <2>2. /\ RunBecomes(p, [run[p] EXCEPT !.pc = "push", !.work = work, !.stale = {}])
        /\ UNCHANGED <<rows, server, held, acct>>
    BY <1>7 DEF ListDirty
  <2>3. GoodRun([run[p] EXCEPT !.pc = "push", !.work = work, !.stale = {}])
    <3> HIDE DEF work
    <3> QED
      BY <1>a, <2>1 DEF GoodRun, Run, Step
  <2>4. QED
    BY <2>2, <2>3, OnlyRunType
<1>8. CASE GuardPasses(p)
  <2>1. \A w \in WorkRow : GoodRun([run[p] EXCEPT !.pc = "save", !.cur = w, !.raced = FALSE])
    BY <1>a DEF GoodRun, Run, Step
  <2>2. QED
    BY <1>8, <2>1, TailType, OnlyRunType DEF GuardPasses
<1>9. CASE GuardHolds(p) \/ GuardFails(p)
  BY <1>9, TailType, OnlyRunType DEF GuardHolds, GuardFails, HoldBack
<1>10. CASE RateLimited(p)
  <2>1. \A w \in WorkRow :
          GoodRun([run[p] EXCEPT !.pc = "push", !.cur = w, !.backedOff = TRUE])
    BY <1>a DEF GoodRun, Run, Step
  <2>2. QED
    BY <1>10, <2>1, TailType, OnlyRunType DEF RateLimited
<1>11. CASE SaveEntry(p) \/ SaveEntryUnconfirmed(p)
  <2> DEFINE w == run[p].cur
  <2>1. w \in WorkRow /\ w.id \in Shows /\ w.pair \in Entry
    BY <1>a, <1>11 DEF GoodRun, SaveEntry, SaveEntryUnconfirmed, WorkRow, Entry
  <2>2. GoodRun([run[p] EXCEPT !.pc = "mark"])
    BY <1>a, <2>1 DEF GoodRun, Run, Step
  <2>3. QED
    BY <1>11, <2>1, <2>2, TailType, OvertakenType DEF SaveEntry, SaveEntryUnconfirmed
<1>12. CASE SaveEntryFails(p)
  BY <1>12, TailType, OnlyRunType DEF SaveEntryFails, HoldBack
<1>13. CASE MarkRow(p)
  <2> DEFINE w == run[p].cur
  <2>1. w \in WorkRow /\ w.id \in Shows /\ w.pair \in Pair
    BY <1>a, <1>13 DEF GoodRun, MarkRow, WorkRow
  <2>2. rows[w.id] \in Row \cup {None}
    BY <2>1 DEF FunnelInv, FunnelTypeOK
  <2>3. MarkSynced(rows[w.id], w.pair) \in Row \cup {None}
    BY <2>1, <2>2, WriterType DEF MarkSynced
  <2>4. rows' \in [Shows -> Row \cup {None}]
    BY <1>13, <2>1, <2>3 DEF MarkRow, FunnelInv, FunnelTypeOK
  <2>5. acct' \in [Shows -> SUBSET Pair]
    BY <1>13, <2>1 DEF MarkRow, FunnelInv, FunnelTypeOK
  <2>6. run' \in [Runs -> Run] /\ CurSet'
    BY <1>13, TailType, RunBecomesType DEF MarkRow, HoldBack
  <2>7. QED
    BY <1>13, <2>4, <2>5, <2>6 DEF MarkRow, FunnelInv, FunnelTypeOK
<1>14. CASE \/ PushDone(p) \/ FetchListMisses(p) \/ FetchListRefused(p)
            \/ PushRefused(p) \/ StoreFails(p)
  BY <1>14, TailType, OnlyRunType
     DEF PushDone, FetchListMisses, FetchListRefused, PushRefused, StoreFails, Goto, Finish, Step
<1>15. QED
  BY <1>1, <1>2, <1>3, <1>4, <1>5, <1>6, <1>7, <1>8, <1>9, <1>10, <1>11, <1>12, <1>13, <1>14
     DEF RunStep, RunFault

-----------------------------------------------------------------------------
(***************************************************************************)
(* Type correctness of the app's steps                                     *)
(***************************************************************************)

\* The History list shows pairs.
LEMMA ListedType ==
    ASSUME NEW table \in [Shows -> Row \cup {None}]
    PROVE  Listed(table) \in [Shows -> Entry]
  BY DEF Listed, InLibrary, Row, Entry

\* Writing one row of the table keeps the table, and its list, well typed.
LEMMA SetRowType ==
    ASSUME TypeInv, NEW s \in Shows, NEW newRow \in Row \cup {None}, SetRow(s, newRow)
    PROVE  rows' \in [Shows -> Row \cup {None}] /\ Listed(rows') \in [Shows -> Entry]
<1>1. rows' \in [Shows -> Row \cup {None}]
  BY DEF SetRow, TypeInv, TypeOK, FunnelTypeOK
<1>2. QED
  BY <1>1, ListedType

\* A started or finished run of either slot.
LEMMA SlotType ==
    ASSUME TypeInv, NEW p \in Runs
    PROVE  /\ \A mode \in Mode : StartRun(p, mode) => run' \in [Runs -> Run] /\ CurSet'
           /\ run' = [run EXCEPT ![p] = Idle] => run' \in [Runs -> Run] /\ CurSet'
           /\ run' = run => run' \in [Runs -> Run] /\ CurSet'
<1>1. FunnelInv
  BY DEF TypeInv, TypeOK, FunnelInv
<1>2. ASSUME NEW mode \in Mode, StartRun(p, mode) PROVE run' \in [Runs -> Run] /\ CurSet'
  BY <1>1, <1>2, TailType, RunBecomesType DEF StartRun
<1>3. ASSUME run' = [run EXCEPT ![p] = Idle] PROVE run' \in [Runs -> Run] /\ CurSet'
  BY <1>1, <1>3, TailType, RunBecomesType DEF RunBecomes
<1>4. ASSUME run' = run PROVE run' \in [Runs -> Run] /\ CurSet'
  BY <1>4 DEF TypeInv, TypeOK, FunnelTypeOK, CurSet
<1>5. QED
  BY <1>2, <1>3, <1>4

\* The initial states are well typed.
LEMMA InitType == Init => TypeInv
<1> SUFFICES ASSUME Init PROVE TypeInv
  OBVIOUS
<1>1. run \in [Runs -> Run] /\ CurSet
  BY IdleType DEF Init, FunnelInit, CurSet, Idle
<1>2. server \in [Shows -> Entry]
  BY RemoteAssumption DEF Init, FunnelInit, Entry
<1>3. held \in [Shows -> SUBSET Pair]
  BY <1>2 DEF Init, FunnelInit, Entry
<1>4. QED
  BY <1>1, <1>2, <1>3 DEF Init, FunnelInit, TypeInv, TypeOK, FunnelTypeOK, NoReply, Entry

\* Every step preserves the types.
LEMMA NextType == TypeInv /\ [Next]_vars => TypeInv'
<1> SUFFICES ASSUME TypeInv, [Next]_vars PROVE TypeInv'
  OBVIOUS
<1>a. FunnelInv /\ Tui \in Runs /\ Cli \in Runs
  BY RunsAssumption DEF TypeInv, TypeOK, FunnelInv
<1>b. \A mode \in {"full", "pullOnly", "pushOnly"} : mode \in Mode
  BY DEF Mode
<1> DEFINE UiOK == /\ phase \in {"down", "up", "draining"}
                   /\ enabled \in BOOLEAN
                   /\ history \in [Shows -> Entry]
                   /\ undo \in Undo \cup {None}
                   /\ prior \in Entry
                   /\ armed \in BOOLEAN
                   /\ playing \in Shows \cup {None}
<1>c. UiOK
  BY DEF TypeInv, TypeOK
<1>d. ASSUME FunnelInv', UiOK' PROVE TypeInv'
  BY <1>d DEF TypeInv, TypeOK, FunnelInv
<1>e. ASSUME rows' \in [Shows -> Row \cup {None}], run' \in [Runs -> Run], CurSet',
             UNCHANGED <<server, held>>, acct' \in [Shows -> SUBSET Pair]
      PROVE  FunnelInv'
  BY <1>e, <1>a DEF FunnelInv, FunnelTypeOK
<1>f. acct \in [Shows -> SUBSET Pair] /\ rows \in [Shows -> Row \cup {None}]
  BY <1>a DEF FunnelInv, FunnelTypeOK
<1>1. CASE \E p \in Runs : (RunStep(p) \/ RunFault(p)) /\ UNCHANGED uiVars
  BY <1>1, <1>a, <1>c, <1>d, RunStepType DEF uiVars
<1>2. CASE RemoteClients /\ UNCHANGED uiVars
  <2>1. PICK s \in Shows : RemoteDelete(s) \/ \E pair \in RemotePairs : RemoteEdit(s, pair)
    BY <1>2 DEF RemoteClients
  <2>2. FunnelInv'
    BY <1>a, <2>1, OvertakenType, RemoteAssumption DEF RemoteDelete, RemoteEdit, Entry
  <2>3. QED
    BY <1>2, <1>c, <1>d, <2>2 DEF uiVars
<1>3. ASSUME NEW s \in Shows, Browse(s) PROVE TypeInv'
  <2>1. BindProvider(rows[s]) \in Row /\ AddToLibrary(rows[s]) \in Row
    BY <1>f, MintType
  <2>2. rows' \in [Shows -> Row \cup {None}]
    BY <1>3, <2>1, SetRowType DEF Browse, Bind, PlanIt
  <2>3. FunnelInv'
    BY <1>3, <1>a, <1>e, <1>f, <2>2, SlotType DEF Browse, Bind, PlanIt
  <2>4. UiOK'
    BY <1>3, <1>c DEF Browse, Bind, PlanIt, ArmSync, uiVars
  <2>5. QED
    BY <1>d, <2>3, <2>4
<1>4. ASSUME NEW s \in Shows, EditList(s) PROVE TypeInv'
  <2>1. rows[s] \in Row /\ history[s] \in Pair
    BY <1>4, <1>c, <1>f DEF EditList, StatusKey, RecomputeKey, Entry
  <2>2. /\ \A status \in StatusKeys, m \in MediaSeen : SetListStatus(rows[s], status, m) \in Row
        /\ \A n \in 0..MaxProgress : RecomputeProgress(rows[s], n) \in Row
    BY <2>1, WriterType, KeysAssumption
  <2>3. rows' \in [Shows -> Row \cup {None}] /\ Listed(rows') \in [Shows -> Entry]
    BY <1>4, <2>2, SetRowType DEF EditList, StatusKey, RecomputeKey
  <2>4. FunnelInv'
    BY <1>4, <1>a, <1>e, <1>f, <2>3, SlotType DEF EditList, StatusKey, RecomputeKey
  <2>5. [id |-> s, pair |-> history[s]] \in Undo /\ rows[s].pair \in Entry
    BY <2>1 DEF Undo, Row, Entry
  <2>6. UiOK'
    BY <1>4, <1>c, <2>3, <2>5 DEF EditList, StatusKey, RecomputeKey, ArmSync, LoadHistory, Entry
  <2>7. QED
    BY <1>d, <2>4, <2>6
<1>5. ASSUME NEW s \in Shows, Delete(s) PROVE TypeInv'
  <2>1. rows' \in [Shows -> Row \cup {None}] /\ Listed(rows') \in [Shows -> Entry]
    BY <1>5, SetRowType DEF Delete
  <2>2. acct' \in [Shows -> SUBSET Pair]
    BY <1>5, <1>f DEF Delete
  <2>3. run' \in [Runs -> Run] /\ CurSet'
    <3>1. \A p \in Runs : GoodRun([run[p] EXCEPT !.stale = @ \cup {s}])
      <4>1. \A p \in Runs : GoodRun(run[p])
        BY <1>a, TailType
      <4>2. QED
        BY <4>1 DEF GoodRun, Run
    <3>2. \A p \in Runs : run'[p] = [run[p] EXCEPT !.stale = @ \cup {s}]
      BY <1>5 DEF Delete
    <3>3. QED
      BY <1>5, <3>1, <3>2 DEF Delete, GoodRun, CurSet
  <2>4. FunnelInv'
    BY <1>5, <1>e, <2>1, <2>2, <2>3 DEF Delete
  <2>5. UiOK'
    BY <1>5, <1>c, <2>1 DEF Delete, LoadHistory, Entry
  <2>6. QED
    BY <1>d, <2>4, <2>5
<1>6. ASSUME NEW s \in Shows, Watch(s) PROVE TypeInv'
  <2>1. CASE Play(s) \/ PlayEnded
    <3>1. FunnelInv'
      BY <2>1, <1>a, <1>e, <1>f, SlotType DEF Play, PlayEnded, funnelVars
    <3>2. UiOK'
      BY <2>1, <1>c DEF Play, PlayEnded
    <3>3. QED
      BY <1>d, <3>1, <3>2
  <2>2. CASE Engage \/ Checkpoint
    <3>1. playing \in Shows /\ rows[playing] \in Row
      BY <2>2, <1>c, <1>f DEF Engage, Checkpoint
    <3>2. rows' \in [Shows -> Row \cup {None}]
      BY <2>2, <3>1, SetRowType, WriterType DEF Engage, Checkpoint
    <3>3. FunnelInv'
      BY <2>2, <1>a, <1>e, <1>f, <3>2, SlotType DEF Engage, Checkpoint
    <3>4. UiOK'
      BY <2>2, <1>c DEF Engage, Checkpoint, uiVars
    <3>5. QED
      BY <1>d, <3>3, <3>4
  <2>3. ASSUME NEW k \in Episodes, NEW natural \in BOOLEAN, NEW m \in MediaSeen,
               PlayFinished(k, natural, m)
        PROVE  TypeInv'
    <3>1. playing \in Shows /\ rows[playing] \in Row
      BY <2>3, <1>c, <1>f DEF PlayFinished
    <3>2. RecordFinish(rows[playing], k, natural, m) \in Row
      <4>1. k \in 0..MaxProgress /\ m \in Media
        BY KeysAssumption, ProgressAssumption DEF Episodes
      <4>2. QED
        BY <3>1, <4>1, WriterType
    <3>3. rows' \in [Shows -> Row \cup {None}] /\ Listed(rows') \in [Shows -> Entry]
      BY <2>3, <3>1, <3>2, SetRowType DEF PlayFinished
    <3>4. FunnelInv'
      BY <2>3, <1>a, <1>e, <1>f, <3>3, SlotType DEF PlayFinished
    <3>5. UiOK'
      BY <2>3, <1>c, <3>3 DEF PlayFinished, ArmSync, LoadHistory
    <3>6. QED
      BY <1>d, <3>4, <3>5
  <2>4. QED
    BY <1>6, <2>1, <2>2, <2>3 DEF Watch
<1>7. CASE UndoKey
  <2>1. undo.id \in Shows /\ undo.pair \in Pair
    BY <1>7, <1>c DEF UndoKey, Undo
  <2>2. RestoreListStatus(rows[undo.id], undo.pair) \in Row
    BY <1>7, <1>f, <2>1, WriterType DEF UndoKey
  <2>3. rows' \in [Shows -> Row \cup {None}] /\ Listed(rows') \in [Shows -> Entry]
    BY <1>7, <2>1, <2>2, SetRowType DEF UndoKey
  <2>4. FunnelInv'
    BY <1>7, <1>a, <1>e, <1>f, <2>3, SlotType DEF UndoKey
  <2>5. UiOK'
    BY <1>7, <1>c, <2>3 DEF UndoKey, ArmSync, LoadHistory, Entry
  <2>6. QED
    BY <1>d, <2>4, <2>5
<1>8. CASE ReloadHistory
  <2>1. FunnelInv'
    BY <1>8, <1>a, <1>e, <1>f, SlotType DEF ReloadHistory, funnelVars
  <2>2. UiOK'
    BY <1>8, <1>c, <1>f, ListedType DEF ReloadHistory
  <2>3. QED
    BY <1>d, <2>1, <2>2
<1>9. CASE SyncTick \/ SyncTickFails \/ OnSyncFlushed \/ CliSync \/ CliSyncEnds
  <2>1. run' \in [Runs -> Run] /\ CurSet'
    BY <1>9, <1>a, <1>b, SlotType
       DEF SyncTick, SyncTickFails, OnSyncFlushed, CliSync, CliSyncEnds, funnelVars
  <2>2. FunnelInv'
    BY <1>9, <1>e, <1>f, <2>1
       DEF SyncTick, SyncTickFails, OnSyncFlushed, CliSync, CliSyncEnds, funnelVars
  <2>3. UiOK'
    BY <1>9, <1>c DEF SyncTick, SyncTickFails, OnSyncFlushed, CliSync, CliSyncEnds, uiVars
  <2>4. QED
    BY <1>d, <2>2, <2>3
<1>10. CASE Lifecycle \/ Exit
  <2>1. run' \in [Runs -> Run] /\ CurSet'
    BY <1>10, <1>a, <1>b, SlotType DEF Lifecycle, Quit, Crash, SwitchSync, OnConnect, Exit, funnelVars
  <2>2. FunnelInv'
    BY <1>10, <1>e, <1>f, <2>1 DEF Lifecycle, Quit, Crash, SwitchSync, OnConnect, Exit, funnelVars
  <2>3. NoReply \in [Shows -> Entry]
    BY DEF NoReply, Entry
  <2>4. UiOK'
    BY <1>10, <1>c, <2>3
       DEF Lifecycle, Quit, Crash, SwitchSync, OnConnect, Exit, ForgetMemory, Entry
  <2>5. QED
    BY <1>d, <2>2, <2>4
<1>11. CASE Launch
  <2>1. \A s \in Shows : AdoptOrphanedProgress(rows[s]) \in Row \cup {None}
    <3> SUFFICES ASSUME NEW s \in Shows PROVE AdoptOrphanedProgress(rows[s]) \in Row \cup {None}
      OBVIOUS
    <3>1. CASE rows[s] \in Row
      BY <3>1, WriterType
    <3>2. CASE rows[s] = None
      BY <3>2 DEF AdoptOrphanedProgress
    <3>3. QED
      BY <1>f, <3>1, <3>2
  <2>2. rows' \in [Shows -> Row \cup {None}]
    BY <1>11, <2>1 DEF Launch
  <2>3. run' \in [Runs -> Run] /\ CurSet'
    BY <1>11, <1>a, <1>b, SlotType DEF Launch
  <2>4. FunnelInv'
    BY <1>11, <1>e, <1>f, <2>2, <2>3 DEF Launch
  <2>5. UiOK'
    BY <1>11, <1>c, <2>2, ListedType DEF Launch, LoadHistory
  <2>6. QED
    BY <1>d, <2>4, <2>5
<1>12. ASSUME NEW s \in Shows, NEW k \in Episodes, NEW natural \in BOOLEAN, NEW m \in MediaSeen,
              CliPlayFinished(s, k, natural, m)
       PROVE  TypeInv'
  <2>1. RecordFinish(rows[s], k, natural, m) \in Row
    <3>1. k \in 0..MaxProgress /\ m \in Media /\ rows[s] \in Row
      BY <1>12, <1>f, KeysAssumption, ProgressAssumption DEF Episodes, CliPlayFinished
    <3>2. QED
      BY <3>1, WriterType
  <2>2. rows' \in [Shows -> Row \cup {None}]
    BY <1>12, <2>1, SetRowType DEF CliPlayFinished
  <2>3. FunnelInv'
    BY <1>12, <1>a, <1>e, <1>f, <2>2, SlotType DEF CliPlayFinished
  <2>4. UiOK'
    BY <1>12, <1>c DEF CliPlayFinished, uiVars
  <2>5. QED
    BY <1>d, <2>3, <2>4
<1>13. CASE UNCHANGED vars
  BY <1>13 DEF vars, TypeInv, TypeOK, FunnelTypeOK, CurSet
<1>14. QED
  BY <1>1, <1>2, <1>3, <1>4, <1>5, <1>6, <1>7, <1>8, <1>9, <1>10, <1>11, <1>12, <1>13
     DEF Next, CommandLine

\* The types of the store, of AniList, of every run and of the app's memory
\* hold in every state, whatever the user, the network and other clients do.
THEOREM TypeCorrect == Spec => []TypeOK
<1>1. Init => TypeInv
  BY InitType
<1>2. TypeInv /\ [Next]_vars => TypeInv'
  BY NextType
<1>3. TypeInv => TypeOK
  BY DEF TypeInv
<1>4. QED
  BY <1>1, <1>2, <1>3, PTL DEF Spec

-----------------------------------------------------------------------------
(***************************************************************************)
(* What sync may believe and what a pull may overwrite.                    *)
(***************************************************************************)

(***************************************************************************)
(* The inductive invariant.  hs is the set of pairs AniList has held for   *)
(* the show, h the function of all of them.                                *)
(***************************************************************************)

\* A row whose snapshot is honest; outside the library it is born clean.
HonestRow(r, hs) ==
    r # None =>
        /\ r.snap \in hs \cup {Unset, None}
        /\ ~r.member /\ r.snap = None => r.pair = Unset

\* A planned update stamps what AniList held, and only gives up what it held.
HonestPlan(w, hs) ==
    /\ w.snapshot \in hs
    /\ w.merged.progress < w.guard.progress => \E x \in hs : x.progress = w.guard.progress
    /\ w.merged.status # w.guard.status => \E x \in hs \cup {Unset} : x.status = w.guard.status

\* What a run carries between its steps came from AniList, or was accepted.
HonestRun(r, h) ==
    /\ \A s \in Shows : r.remote[s] \in h[s] \cup {None}
    /\ \A i \in r.imports : i.pair \in h[i.id]
    /\ \A w \in r.plan : HonestPlan(w, h[w.id])
    /\ r.pc = "mark" => r.cur.pair \in h[r.cur.id]

HonestInv ==
    /\ TypeInv
    /\ \A s \in Shows : /\ HonestRow(rows[s], held[s])
                        /\ server[s] \in held[s] \cup {None}
                        /\ history[s] # None => InLibrary(rows[s])
    /\ \A p \in Runs : HonestRun(run[p], held)

-----------------------------------------------------------------------------
(***************************************************************************)
(* The row writers and the merge                                           *)
(***************************************************************************)

\* Minting, promoting and the writers of user state keep a row honest.
LEMMA HonestWriters ==
    ASSUME NEW hs, NEW r \in Row \cup {None}, HonestRow(r, hs)
    PROVE  /\ HonestRow(None, hs)
           /\ HonestRow(BindProvider(r), hs)
           /\ HonestRow(AddToLibrary(r), hs)
           /\ r # None =>
                /\ \A k, natural, m : HonestRow(RecordFinish(r, k, natural, m), hs)
                /\ \A status, m : HonestRow(SetListStatus(r, status, m), hs)
                /\ \A pair : HonestRow(RestoreListStatus(r, pair), hs)
                /\ r.member => \A n : HonestRow(RecomputeProgress(r, n), hs)
                /\ HonestRow(RecordEngagement(r), hs)
                /\ HonestRow(SaveProgress(r), hs)
           /\ HonestRow(AdoptOrphanedProgress(r), hs)
           /\ \A pair \in hs \cap Pair : HonestRow(MarkSynced(r, pair), hs)
<1>1. HonestRow(None, hs)
  BY DEF HonestRow
<1>2. HonestRow(BindProvider(r), hs)
  BY DEF HonestRow, BindProvider, Identity
<1>3. HonestRow(AddToLibrary(r), hs)
  <2> DEFINE minted == BindProvider(r)
  <2>1. minted \in Row /\ HonestRow(minted, hs)
    BY <1>2, MintType
  <2>2. minted # None
    BY <2>1, NoneAssumption
  <2>3. HonestRow([minted EXCEPT !.member = TRUE], hs)
    <3> HIDE DEF minted
    <3> QED
      BY <2>1, <2>2 DEF HonestRow, Row
  <2>4. QED
    BY <2>3 DEF AddToLibrary
<1>4. ASSUME r # None
      PROVE  /\ \A k, natural, m : HonestRow(RecordFinish(r, k, natural, m), hs)
             /\ \A status, m : HonestRow(SetListStatus(r, status, m), hs)
             /\ \A pair : HonestRow(RestoreListStatus(r, pair), hs)
             /\ r.member => \A n : HonestRow(RecomputeProgress(r, n), hs)
             /\ HonestRow(RecordEngagement(r), hs)
             /\ HonestRow(SaveProgress(r), hs)
  <2>1. r \in Row /\ r.snap \in hs \cup {Unset, None}
    BY <1>4 DEF HonestRow
  <2>2. \A k, natural, m : HonestRow(RecordFinish(r, k, natural, m), hs)
    BY <2>1 DEF HonestRow, RecordFinish, Row
  <2>3. \A status, m : HonestRow(SetListStatus(r, status, m), hs)
    BY <2>1 DEF HonestRow, SetListStatus, Row
  <2>4. \A pair : HonestRow(RestoreListStatus(r, pair), hs)
    BY <2>1 DEF HonestRow, RestoreListStatus, Row
  <2>5. r.member => \A n : HonestRow(RecomputeProgress(r, n), hs)
    BY <2>1 DEF HonestRow, RecomputeProgress, Row
  <2>6. HonestRow(RecordEngagement(r), hs)
    BY <1>4, <2>1 DEF HonestRow, RecordEngagement, Row
  <2>7. HonestRow(SaveProgress(r), hs)
    BY <1>4, <2>1 DEF HonestRow, SaveProgress, Row
  <2>8. QED
    BY <2>2, <2>3, <2>4, <2>5, <2>6, <2>7
<1>5. HonestRow(AdoptOrphanedProgress(r), hs)
  BY <1>4 DEF AdoptOrphanedProgress
<1>6. ASSUME NEW pair \in hs \cap Pair PROVE HonestRow(MarkSynced(r, pair), hs)
  BY <1>6, NoneAssumption DEF HonestRow, MarkSynced, Row
<1>7. QED
  BY <1>1, <1>2, <1>3, <1>4, <1>5, <1>6

\* The merge of an honest row with what AniList holds is an honest plan: it
\* lowers progress, or replaces a status, only where the row agreed with the
\* base, and the base had been on AniList or is the default of first contact.
LEMMA MergeHonest ==
    ASSUME NEW hs, NEW s \in Shows, NEW r \in Row, HonestRow(r, hs), r # None,
           NEW remote \in hs \cap Pair
    PROVE  HonestPlan(PlanFor(s, r, remote), hs)
<1> DEFINE base == Base(r.snap)
<1> DEFINE merged == MergePair(r.snap, r.pair, remote)
<1>1. /\ base \in hs \cup {Unset} /\ base \in Pair
      /\ r.pair \in Pair
      /\ r.pair.progress \in Nat /\ remote.progress \in Nat
  BY MintType, ProgressAssumption DEF HonestRow, Base, Row, Pair
<1>2. ASSUME merged.progress < r.pair.progress
      PROVE  \E x \in hs : x.progress = r.pair.progress
  <2>1. merged.progress = MergeProgress(base.progress, r.pair.progress, remote.progress)
    BY DEF MergePair
  <2>2. r.pair.progress = base.progress
    BY <1>1, <1>2, <2>1 DEF MergeProgress, Larger
  <2>3. merged.progress \in Nat
    BY <1>1, <2>1, <2>2 DEF MergeProgress, Larger
  <2>4. base # Unset
    BY <1>1, <1>2, <2>2, <2>3 DEF Unset
  <2>5. QED
    BY <1>1, <2>2, <2>4
<1>3. ASSUME merged.status # r.pair.status
      PROVE  \E x \in hs \cup {Unset} : x.status = r.pair.status
  BY <1>1, <1>3 DEF MergePair, MergeStatus
<1>4. QED
  BY <1>2, <1>3 DEF HonestPlan, PlanFor

-----------------------------------------------------------------------------
(***************************************************************************)
(* The steps of a run                                                      *)
(***************************************************************************)

\* AniList's memory only grows, and what was honest stays honest.
LEMMA HonestMonotone ==
    ASSUME NEW h, NEW g, \A s \in Shows : h[s] \subseteq g[s]
    PROVE  /\ \A s \in Shows : \A r : HonestRow(r, h[s]) => HonestRow(r, g[s])
           /\ \A r \in Run : (r.pc = "mark" => r.cur \in WorkRow) =>
                                (HonestRun(r, h) => HonestRun(r, g))
<1>1. ASSUME NEW s \in Shows, NEW r, HonestRow(r, h[s]) PROVE HonestRow(r, g[s])
  BY <1>1 DEF HonestRow
<1>2. ASSUME NEW r \in Run, r.pc = "mark" => r.cur \in WorkRow, HonestRun(r, h)
      PROVE  HonestRun(r, g)
  <2>1. \A s \in Shows : r.remote[s] \in g[s] \cup {None}
    BY <1>2 DEF HonestRun
  <2>2. \A i \in r.imports : i.pair \in g[i.id]
    BY <1>2 DEF HonestRun, Run, ImportRow
  <2>3. ASSUME NEW w \in r.plan PROVE HonestPlan(w, g[w.id])
    <3>1. w.id \in Shows /\ HonestPlan(w, h[w.id])
      BY <1>2 DEF HonestRun, Run, PlanRow
    <3>2. QED
      BY <3>1 DEF HonestPlan
  <2>4. r.pc = "mark" => r.cur.pair \in g[r.cur.id]
    BY <1>2 DEF HonestRun, WorkRow
  <2>5. QED
    BY <2>1, <2>2, <2>3, <2>4 DEF HonestRun
<1>3. QED
  BY <1>1, <1>2

\* A run that leaves its pull behind, and is not about to stamp, is honest.
LEMMA IdleHonest ==
    ASSUME NEW h
    PROVE  /\ HonestRun(Idle, h)
           /\ \A b : HonestRun([Idle EXCEPT !.pc = "done", !.changed = b], h)
           /\ HonestRun([Idle EXCEPT !.pc = "done"], h)
           /\ \A mode : HonestRun(Started(mode), h)
  BY DEF HonestRun, Idle, NoReply, Started

\* The changes of a run that touch neither its pull nor its stamp.
LEMMA TailHonest ==
    ASSUME NEW h, NEW r \in Run, HonestRun(r, h)
    PROVE  /\ \A pc : pc # "mark" => HonestRun([r EXCEPT !.pc = pc], h)
           /\ \A w : HonestRun(Past(r, w), h)
           /\ HonestRun([r EXCEPT !.raced = TRUE], h)
           /\ \A s : HonestRun([r EXCEPT !.stale = @ \cup {s}], h)
  BY DEF HonestRun, Past, Run

\* A step that writes neither the table nor AniList, one run changing.
LEMMA OnlyRunHonest ==
    ASSUME HonestInv, TypeInv', NEW p \in Runs, NEW r, HonestRun(r, held), RunBecomes(p, r),
           UNCHANGED <<rows, server, held, history>>
    PROVE  HonestInv'
  BY DEF HonestInv, TypeInv, TypeOK, FunnelTypeOK, RunBecomes, InLibrary

\* A step that writes one row, honestly, and changes one run.
LEMMA OneRowHonest ==
    ASSUME HonestInv, TypeInv', NEW p \in Runs, NEW r, HonestRun(r, held), RunBecomes(p, r),
           NEW s \in Shows, NEW newRow, HonestRow(newRow, held[s]),
           InLibrary(rows[s]) => InLibrary(newRow),
           rows' = [rows EXCEPT ![s] = newRow],
           UNCHANGED <<server, held, history>>
    PROVE  HonestInv'
  BY DEF HonestInv, TypeInv, TypeOK, FunnelTypeOK, RunBecomes

\* A write on AniList, no row changing.
LEMMA ServerHonest ==
    ASSUME HonestInv, TypeInv', NEW s \in Shows, NEW pair \in Entry, ServerWrites(s, pair),
           UNCHANGED <<rows, history>>,
           \A q \in Runs : \/ run'[q] = Overtaken(s)[q]
                           \/ HonestRun(run'[q], held')
    PROVE  HonestInv'
<1>1. held \in [Shows -> SUBSET Pair] /\ server \in [Shows -> Entry] /\ run \in [Runs -> Run]
  BY DEF HonestInv, TypeInv, TypeOK, FunnelTypeOK
<1>2. \A t \in Shows : held[t] \subseteq held'[t]
  BY <1>1 DEF ServerWrites
<1>3. \A t \in Shows : server'[t] \in held'[t] \cup {None}
  BY <1>1, <1>2 DEF ServerWrites, HonestInv
<1>4. ASSUME NEW q \in Runs PROVE HonestRun(run'[q], held')
  <2>1. HonestRun(run[q], held) /\ run[q] \in Run
    BY <1>1 DEF HonestInv
  <2>2. HonestRun(Overtaken(s)[q], held)
    BY <2>1, TailHonest DEF Overtaken
  <2>3. GoodRun(Overtaken(s)[q])
    BY ServerWriteType DEF HonestInv, TypeInv, TypeOK, FunnelInv
  <2>4. HonestRun(Overtaken(s)[q], held')
    BY <1>2, <2>2, <2>3, HonestMonotone DEF GoodRun
  <2>5. QED
    BY <2>4
<1>5. \A t \in Shows : HonestRow(rows'[t], held'[t])
  BY <1>2, HonestMonotone DEF HonestInv
<1>6. \A t \in Shows : history'[t] # None => InLibrary(rows'[t])
  BY DEF HonestInv, InLibrary
<1>7. QED
  BY <1>3, <1>4, <1>5, <1>6 DEF HonestInv

\* Every step of a run keeps the store and the runs honest.
LEMMA RunStepHonest ==
    ASSUME HonestInv, TypeInv', NEW p \in Runs, RunStep(p) \/ RunFault(p), UNCHANGED history
    PROVE  HonestInv'
<1>a. /\ run[p] \in Run /\ HonestRun(run[p], held) /\ GoodRun(run[p])
      /\ rows \in [Shows -> Row \cup {None}] /\ held \in [Shows -> SUBSET Pair]
      /\ FunnelInv
  BY TailType DEF HonestInv, TypeInv, TypeOK, FunnelInv, FunnelTypeOK
<1>b. \A s \in Shows : rows[s] \in Row \cup {None} /\ HonestRow(rows[s], held[s])
  BY <1>a DEF HonestInv
<1>1. CASE FetchList(p)
  <2>1. HonestRun([run[p] EXCEPT !.pc = "plan", !.remote = server], held)
    BY <1>a DEF HonestRun, Run, HonestInv
  <2>2. QED
    BY <1>1, <2>1, OnlyRunHonest DEF FetchList
<1>2. CASE ReconcilePlan(p)
  <2> DEFINE remote == run[p].remote
  <2> DEFINE imports == {[id |-> s, pair |-> remote[s]] : s \in Capped(Importable(remote))}
  <2> DEFINE matched == {s \in Shows : remote[s] # None /\ InLibrary(rows[s])}
  <2> DEFINE written == {s \in matched : NeedsWrite(rows[s], remote[s])}
  <2> DEFINE plan == {PlanFor(s, rows[s], remote[s]) : s \in written}
  <2> DEFINE next == [run[p] EXCEPT !.pc = "import", !.remote = NoReply,
                                    !.imports = imports, !.plan = plan]
  <2>1. \A i \in imports : i.pair \in held[i.id]
    <3>1. \A s \in Capped(Importable(remote)) : s \in Shows /\ remote[s] # None
      BY DEF Capped, Importable, Unmatched
    <3>2. QED
      BY <1>a, <3>1 DEF HonestRun
  <2>2. \A w \in plan : HonestPlan(w, held[w.id])
    <3> SUFFICES ASSUME NEW s \in written
                 PROVE  /\ HonestPlan(PlanFor(s, rows[s], remote[s]), held[s])
                        /\ PlanFor(s, rows[s], remote[s]).id = s
      OBVIOUS
    <3>1. rows[s] \in Row /\ rows[s] # None /\ remote[s] \in held[s] \cap Pair
      BY <1>a DEF InLibrary, HonestRun
    <3>2. QED
      BY <1>b, <3>1, MergeHonest DEF PlanFor
  <2>3. RunBecomes(p, next) /\ UNCHANGED <<rows, server, held>>
    BY <1>2 DEF ReconcilePlan
  <2>4. HonestRun(next, held)
    <3> HIDE DEF imports, plan
    <3> QED
      BY <1>a, <2>1, <2>2 DEF HonestRun, Run, NoReply
  <2>5. QED
    BY <2>3, <2>4, OnlyRunHonest
<1>3. CASE ImportOne(p)
  <2>1. PICK i \in run[p].imports :
          LET minted == AddToLibrary(rows[i.id])
              fresh == minted.pair = Unset /\ minted.snap = None
          IN  /\ rows' = IF fresh
                         THEN [rows EXCEPT ![i.id] = [minted EXCEPT !.pair = i.pair,
                                                                    !.snap = i.pair]]
                         ELSE rows
              /\ RunBecomes(p, [run[p] EXCEPT
                    !.imports = @ \ {i},
                    !.contended = IF fresh THEN @ ELSE @ \cup {i.id},
                    !.changed = @ \/ fresh])
    BY <1>3 DEF ImportOne
  <2> DEFINE minted == AddToLibrary(rows[i.id])
  <2> DEFINE fresh == minted.pair = Unset /\ minted.snap = None
  <2> DEFINE newRow == [minted EXCEPT !.pair = i.pair, !.snap = i.pair]
  <2> DEFINE next == [run[p] EXCEPT !.imports = @ \ {i},
                                    !.contended = IF fresh THEN @ ELSE @ \cup {i.id},
                                    !.changed = @ \/ fresh]
  <2>2. i.id \in Shows /\ i.pair \in Pair /\ i.pair \in held[i.id]
    BY <1>a DEF Run, ImportRow, HonestRun
  <2>3. minted \in Row /\ minted.member
    BY <1>a, <2>2, MintType DEF AddToLibrary, Row
  <2>4. HonestRow(newRow, held[i.id]) /\ InLibrary(newRow)
    <3> HIDE DEF minted
    <3>1. newRow \in Row /\ newRow.member /\ newRow.snap = i.pair
      BY <2>2, <2>3 DEF Row
    <3>2. QED
      BY <2>2, <3>1, NoneAssumption DEF HonestRow, InLibrary
  <2>5. HonestRun(next, held)
    <3> HIDE DEF fresh
    <3> QED
      BY <1>a DEF HonestRun, Run
  <2>6. CASE fresh
    <3> HIDE DEF newRow, next
    <3>1. RunBecomes(p, next) /\ rows' = [rows EXCEPT ![i.id] = newRow]
      BY <2>1, <2>6 DEF newRow, next
    <3>2. QED
      BY <1>3, <2>2, <2>4, <2>5, <3>1, OneRowHonest DEF ImportOne
  <2>7. CASE ~fresh
    <3> HIDE DEF newRow, next
    <3>1. RunBecomes(p, next) /\ rows' = rows
      BY <2>1, <2>7 DEF next
    <3>2. QED
      BY <1>3, <2>5, <3>1, OnlyRunHonest DEF ImportOne
  <2>8. QED
    BY <2>6, <2>7
<1>4. CASE ImportsDone(p)
  BY <1>4, <1>a, TailHonest, OnlyRunHonest DEF ImportsDone, Goto
<1>5. CASE ApplyOne(p)
  <2>1. PICK w \in run[p].plan :
          LET hit == rows[w.id] # None /\ rows[w.id].pair = w.guard
          IN  /\ rows' = IF hit
                         THEN [rows EXCEPT ![w.id].pair = w.merged, ![w.id].snap = w.snapshot]
                         ELSE rows
              /\ RunBecomes(p, [run[p] EXCEPT
                    !.plan = @ \ {w},
                    !.contended = IF hit THEN @ ELSE @ \cup {w.id},
                    !.changed = @ \/ hit])
    BY <1>5 DEF ApplyOne
  <2> DEFINE hit == rows[w.id] # None /\ rows[w.id].pair = w.guard
  <2> DEFINE newRow == [rows[w.id] EXCEPT !.pair = w.merged, !.snap = w.snapshot]
  <2> DEFINE next == [run[p] EXCEPT !.plan = @ \ {w},
                                    !.contended = IF hit THEN @ ELSE @ \cup {w.id},
                                    !.changed = @ \/ hit]
  <2>2. w.id \in Shows /\ w.merged \in Pair /\ w.snapshot \in Pair /\ w.snapshot \in held[w.id]
    BY <1>a DEF Run, PlanRow, HonestRun, HonestPlan
  <2>3. HonestRun(next, held)
    <3> HIDE DEF hit
    <3> QED
      BY <1>a DEF HonestRun, Run
  <2>4. CASE hit
    <3>1. rows[w.id] \in Row /\ rows[w.id] # None
      BY <1>a, <2>2, <2>4
    <3>2. newRow \in Row /\ newRow.snap = w.snapshot /\ newRow.member = rows[w.id].member
      BY <2>2, <3>1 DEF Row
    <3>3. HonestRow(newRow, held[w.id]) /\ (InLibrary(rows[w.id]) => InLibrary(newRow))
      BY <2>2, <3>2, NoneAssumption DEF HonestRow, InLibrary
    <3>4. rows' = [rows EXCEPT ![w.id] = newRow] /\ RunBecomes(p, next)
      BY <1>a, <2>1, <2>2, <2>4, <3>1 DEF Row
    <3>5. QED
      <4> HIDE DEF newRow, next
      <4> QED
        BY <1>5, <2>2, <2>3, <3>3, <3>4, OneRowHonest DEF ApplyOne
  <2>5. CASE ~hit
    <3>1. rows' = rows /\ RunBecomes(p, next)
      BY <2>1, <2>5
    <3>2. QED
      <4> HIDE DEF next
      <4> QED
        BY <1>5, <2>3, <3>1, OnlyRunHonest DEF ApplyOne
  <2>6. QED
    BY <2>4, <2>5
<1>6. CASE AppliesDone(p)
  BY <1>6, <1>a, TailHonest, IdleHonest, OnlyRunHonest DEF AppliesDone, Goto, Finish
<1>7. CASE ListDirty(p)
  <2> DEFINE work == {[id |-> s, pair |-> rows[s].pair, snap |-> rows[s].snap] :
                        s \in Dirty \ run[p].contended}
  <2>1. RunBecomes(p, [run[p] EXCEPT !.pc = "push", !.work = work, !.stale = {}])
    BY <1>7 DEF ListDirty
  <2>2. HonestRun([run[p] EXCEPT !.pc = "push", !.work = work, !.stale = {}], held)
    BY <1>a DEF HonestRun, Run
  <2>3. QED
    BY <1>7, <2>1, <2>2, OnlyRunHonest DEF ListDirty
<1>8. CASE GuardPasses(p)
  <2>1. \A w : HonestRun([run[p] EXCEPT !.pc = "save", !.cur = w, !.raced = FALSE], held)
    BY <1>a DEF HonestRun, Run
  <2>2. QED
    BY <1>8, <2>1, OnlyRunHonest DEF GuardPasses
<1>9. CASE GuardHolds(p) \/ GuardFails(p) \/ SaveEntryFails(p)
  BY <1>9, <1>a, TailHonest, OnlyRunHonest DEF GuardHolds, GuardFails, SaveEntryFails, HoldBack
<1>10. CASE RateLimited(p)
  <2>1. \A w : HonestRun([run[p] EXCEPT !.pc = "push", !.cur = w, !.backedOff = TRUE], held)
    BY <1>a DEF HonestRun, Run
  <2>2. QED
    BY <1>10, <2>1, OnlyRunHonest DEF RateLimited
<1>11. CASE SaveEntry(p) \/ SaveEntryUnconfirmed(p)
  <2> DEFINE w == run[p].cur
  <2>1. w.id \in Shows /\ w.pair \in Pair /\ w.pair \in Entry
    BY <1>a, <1>11 DEF GoodRun, SaveEntry, SaveEntryUnconfirmed, WorkRow, Entry
  <2>2. ServerWrites(w.id, w.pair) /\ UNCHANGED rows
    BY <1>11 DEF SaveEntry, SaveEntryUnconfirmed
  <2>3. w.pair \in held'[w.id] /\ \A s \in Shows : held[s] \subseteq held'[s]
    BY <1>a, <2>1, <2>2, NoneAssumption DEF ServerWrites
  <2>4. HonestRun(run[p], held')
    BY <1>a, <2>3, HonestMonotone DEF GoodRun
  <2>5. HonestRun([run[p] EXCEPT !.pc = "mark"], held') /\ HonestRun(Past(run[p], w), held')
    <3>1. HonestRun([run[p] EXCEPT !.pc = "mark"], held')
      BY <1>a, <2>3, <2>4 DEF HonestRun, Run
    <3>2. QED
      BY <1>a, <2>4, <3>1, TailHonest
  <2>6. ASSUME NEW q \in Runs
        PROVE  run'[q] = Overtaken(w.id)[q] \/ HonestRun(run'[q], held')
    BY <1>11, <2>5 DEF SaveEntry, SaveEntryUnconfirmed, Overtaken
  <2>7. QED
    BY <2>1, <2>2, <2>6, ServerHonest
<1>12. CASE MarkRow(p)
  <2> DEFINE w == run[p].cur
  <2> DEFINE newRow == MarkSynced(rows[w.id], w.pair)
  <2>1. w.id \in Shows /\ w.pair \in held[w.id] \cap Pair
    BY <1>a, <1>12 DEF GoodRun, MarkRow, WorkRow, HonestRun
  <2>2. HonestRow(newRow, held[w.id])
    BY <1>b, <2>1, HonestWriters
  <2>3. InLibrary(rows[w.id]) => InLibrary(newRow)
    <3>1. SUFFICES ASSUME InLibrary(rows[w.id]) PROVE InLibrary(newRow)
      OBVIOUS
    <3>2. rows[w.id] \in Row /\ rows[w.id] # None
      BY <1>b, <2>1, <3>1 DEF InLibrary
    <3>3. newRow \in Row
      BY <2>1, <3>2, WriterType
    <3>4. newRow.member = rows[w.id].member
      BY <3>2 DEF MarkSynced, Row
    <3>5. QED
      BY <3>1, <3>3, <3>4, NoneAssumption DEF InLibrary
  <2>4. rows' = [rows EXCEPT ![w.id] = newRow] /\ RunBecomes(p, Past(run[p], w))
    BY <1>12 DEF MarkRow, HoldBack
  <2>5. QED
    <3> HIDE DEF newRow
    <3> QED
      BY <1>12, <1>a, <2>1, <2>2, <2>3, <2>4, TailHonest, OneRowHonest DEF MarkRow
<1>13. CASE \/ PushDone(p) \/ FetchListMisses(p) \/ FetchListRefused(p)
            \/ PushRefused(p) \/ StoreFails(p)
  BY <1>13, <1>a, TailHonest, IdleHonest, OnlyRunHonest
     DEF PushDone, FetchListMisses, FetchListRefused, PushRefused, StoreFails, Goto, Finish
<1>14. QED
  BY <1>1, <1>2, <1>3, <1>4, <1>5, <1>6, <1>7, <1>8, <1>9, <1>10, <1>11, <1>12, <1>13
     DEF RunStep, RunFault

-----------------------------------------------------------------------------
(***************************************************************************)
(* The steps of the app, and the theorems                                  *)
(***************************************************************************)

\* A UI step that writes one row, or none, and re-reads the list, or does not.
LEMMA UiHonest ==
    ASSUME HonestInv, TypeInv', UNCHANGED <<server, held>>,
           \A s \in Shows : \/ rows'[s] = rows[s]
                            \/ HonestRow(rows'[s], held[s]),
           \/ history' = Listed(rows')
           \/ history' = NoReply
           \/ /\ history' = history
              /\ \A s \in Shows : InLibrary(rows[s]) => InLibrary(rows'[s]),
           \A p \in Runs : \/ run'[p] = run[p]
                           \/ HonestRun(run'[p], held)
    PROVE  HonestInv'
<1>1. \A s \in Shows : HonestRow(rows'[s], held'[s]) /\ server'[s] \in held'[s] \cup {None}
  BY DEF HonestInv
<1>2. \A s \in Shows : history'[s] # None => InLibrary(rows'[s])
  BY DEF HonestInv, Listed, NoReply
<1>3. \A p \in Runs : HonestRun(run'[p], held')
  BY DEF HonestInv
<1>4. QED
  BY <1>1, <1>2, <1>3 DEF HonestInv

\* What a member becomes under the writers of user state is a member.
LEMMA StillMember ==
    ASSUME NEW r \in Row
    PROVE  /\ InLibrary(AddToLibrary(r))
           /\ InLibrary(RecordEngagement(r))
           /\ InLibrary(r) => InLibrary(SaveProgress(r))
           /\ \A k \in 0..MaxProgress, natural \in BOOLEAN, m \in Media :
                 InLibrary(RecordFinish(r, k, natural, m))
<1>1. InLibrary(AddToLibrary(r))
  <2>1. AddToLibrary(r) \in Row /\ AddToLibrary(r).member
    BY MintType, NoneAssumption DEF AddToLibrary, BindProvider, Row
  <2>2. QED
    BY <2>1, NoneAssumption DEF InLibrary
<1>2. InLibrary(RecordEngagement(r))
  <2>1. RecordEngagement(r) \in Row /\ RecordEngagement(r).member
    BY WriterType DEF RecordEngagement, Row
  <2>2. QED
    BY <2>1, NoneAssumption DEF InLibrary
<1>3. InLibrary(r) => InLibrary(SaveProgress(r))
  <2>1. SaveProgress(r) \in Row /\ SaveProgress(r).member = r.member
    BY WriterType DEF SaveProgress, Row
  <2>2. QED
    BY <2>1, NoneAssumption DEF InLibrary
<1>4. ASSUME NEW k \in 0..MaxProgress, NEW natural \in BOOLEAN, NEW m \in Media
      PROVE  InLibrary(RecordFinish(r, k, natural, m))
  <2>1. RecordFinish(r, k, natural, m) \in Row
    BY WriterType
  <2>2. RecordFinish(r, k, natural, m).member
    BY DEF RecordFinish, Row
  <2>3. QED
    BY <2>1, <2>2, NoneAssumption DEF InLibrary
<1>5. QED
  BY <1>1, <1>2, <1>3, <1>4

\* Nothing is believed, planned or carried before the first step.
LEMMA InitHonest == Init => HonestInv
<1> SUFFICES ASSUME Init PROVE HonestInv
  OBVIOUS
<1>1. TypeInv
  BY InitType
<1>2. \A s \in Shows : HonestRow(rows[s], held[s])
  BY DEF Init, FunnelInit, HonestRow
<1>3. \A s \in Shows : server[s] \in held[s] \cup {None} /\ history[s] = None
  BY DEF Init, FunnelInit, NoReply
<1>4. \A p \in Runs : HonestRun(run[p], held)
  BY IdleHonest DEF Init, FunnelInit
<1>5. QED
  BY <1>1, <1>2, <1>3, <1>4 DEF HonestInv

\* Every step keeps the store, the runs and the History list honest.
LEMMA NextHonest == HonestInv /\ [Next]_vars => HonestInv'
<1> SUFFICES ASSUME HonestInv, [Next]_vars PROVE HonestInv'
  OBVIOUS
<1>a. TypeInv /\ TypeInv'
  BY NextType DEF HonestInv
<1>b. /\ rows \in [Shows -> Row \cup {None}] /\ history \in [Shows -> Entry]
      /\ \A s \in Shows : HonestRow(rows[s], held[s])
      /\ undo \in Undo \cup {None} /\ playing \in Shows \cup {None}
      /\ run \in [Runs -> Run] /\ Tui \in Runs /\ Cli \in Runs
  BY <1>a, RunsAssumption DEF TypeInv, TypeOK, FunnelTypeOK, HonestInv
<1>1. CASE \E p \in Runs : (RunStep(p) \/ RunFault(p)) /\ UNCHANGED uiVars
  BY <1>1, <1>a, RunStepHonest DEF uiVars
<1>2. CASE RemoteClients /\ UNCHANGED uiVars
  <2>1. PICK s \in Shows : RemoteDelete(s) \/ \E pair \in RemotePairs : RemoteEdit(s, pair)
    BY <1>2 DEF RemoteClients
  <2>2. QED
    BY <1>2, <1>a, <2>1, ServerHonest, RemoteAssumption
       DEF RemoteDelete, RemoteEdit, Entry, uiVars
<1>3. ASSUME NEW s \in Shows, Browse(s) PROVE HonestInv'
  <2>1. HonestRow(BindProvider(rows[s]), held[s]) /\ HonestRow(AddToLibrary(rows[s]), held[s])
    BY <1>b, HonestWriters
  <2>2. InLibrary(rows[s]) => InLibrary(AddToLibrary(rows[s]))
    BY <1>b, StillMember DEF InLibrary
  <2>3. /\ \A t \in Shows : rows'[t] = rows[t] \/ HonestRow(rows'[t], held[t])
        /\ \A t \in Shows : InLibrary(rows[t]) => InLibrary(rows'[t])
    BY <1>3, <1>b, <2>1, <2>2 DEF Browse, Bind, PlanIt, SetRow, InLibrary
  <2>4. UNCHANGED <<server, held, run, history>>
    BY <1>3 DEF Browse, Bind, PlanIt, uiVars
  <2>5. QED
    BY <1>a, <2>3, <2>4, UiHonest
<1>4. ASSUME NEW s \in Shows, EditList(s) PROVE HonestInv'
  <2>1. rows[s] \in Row /\ rows[s] # None /\ rows[s].member
    BY <1>4, <1>b DEF EditList, StatusKey, RecomputeKey, HonestInv, InLibrary
  <2>2. /\ \A status, m : HonestRow(SetListStatus(rows[s], status, m), held[s])
        /\ \A n : HonestRow(RecomputeProgress(rows[s], n), held[s])
    BY <1>b, <2>1, HonestWriters
  <2>3. \A t \in Shows : rows'[t] = rows[t] \/ HonestRow(rows'[t], held[t])
    BY <1>4, <1>b, <2>2 DEF EditList, StatusKey, RecomputeKey, SetRow
  <2>4. UNCHANGED <<server, held, run>> /\ history' = Listed(rows')
    BY <1>4 DEF EditList, StatusKey, RecomputeKey, LoadHistory
  <2>5. QED
    BY <1>a, <2>3, <2>4, UiHonest
<1>5. ASSUME NEW s \in Shows, Delete(s) PROVE HonestInv'
  <2>1. \A t \in Shows : rows'[t] = rows[t] \/ HonestRow(rows'[t], held[t])
    BY <1>5, <1>b, HonestWriters DEF Delete, SetRow
  <2>2. \A p \in Runs : HonestRun(run'[p], held)
    <3>1. \A p \in Runs : run'[p] = [run[p] EXCEPT !.stale = @ \cup {s}]
      BY <1>5 DEF Delete
    <3>2. \A p \in Runs : run[p] \in Run /\ HonestRun(run[p], held)
      BY <1>b DEF HonestInv
    <3>3. ASSUME NEW p \in Runs
          PROVE  HonestRun([run[p] EXCEPT !.stale = @ \cup {s}], held)
      BY <3>2 DEF HonestRun, Run
    <3>4. QED
      BY <3>1, <3>3
  <2>3. UNCHANGED <<server, held>> /\ history' = Listed(rows')
    BY <1>5 DEF Delete, LoadHistory
  <2>4. QED
    BY <1>a, <2>1, <2>2, <2>3, UiHonest
<1>6. ASSUME NEW s \in Shows, Watch(s) PROVE HonestInv'
  <2>1. CASE Play(s) \/ PlayEnded
    BY <2>1, <1>a, UiHonest DEF Play, PlayEnded, funnelVars
  <2>2. CASE Engage \/ Checkpoint
    <3>1. playing \in Shows /\ rows[playing] \in Row /\ rows[playing] # None
      BY <2>2, <1>b DEF Engage, Checkpoint
    <3>2. /\ HonestRow(RecordEngagement(rows[playing]), held[playing])
          /\ HonestRow(SaveProgress(rows[playing]), held[playing])
      BY <1>b, <3>1, HonestWriters
    <3>3. /\ InLibrary(RecordEngagement(rows[playing]))
          /\ InLibrary(rows[playing]) => InLibrary(SaveProgress(rows[playing]))
      BY <3>1, StillMember
    <3>4. \/ rows' = [rows EXCEPT ![playing] = RecordEngagement(rows[playing])]
          \/ rows' = [rows EXCEPT ![playing] = SaveProgress(rows[playing])]
      BY <2>2 DEF Engage, Checkpoint, SetRow
    <3>5. /\ \A t \in Shows : rows'[t] = rows[t] \/ HonestRow(rows'[t], held[t])
          /\ \A t \in Shows : InLibrary(rows[t]) => InLibrary(rows'[t])
      BY <1>b, <3>1, <3>2, <3>3, <3>4
    <3>6. UNCHANGED <<server, held, run, history>>
      BY <2>2 DEF Engage, Checkpoint, uiVars
    <3>7. QED
      BY <1>a, <3>5, <3>6, UiHonest
  <2>3. ASSUME NEW k \in Episodes, NEW natural \in BOOLEAN, NEW m \in MediaSeen,
               PlayFinished(k, natural, m)
        PROVE  HonestInv'
    <3>1. playing \in Shows /\ rows[playing] \in Row /\ rows[playing] # None
      BY <2>3, <1>b DEF PlayFinished
    <3>2. HonestRow(RecordFinish(rows[playing], k, natural, m), held[playing])
      BY <1>b, <3>1, HonestWriters
    <3>3. \A t \in Shows : rows'[t] = rows[t] \/ HonestRow(rows'[t], held[t])
      BY <2>3, <1>b, <3>1, <3>2 DEF PlayFinished, SetRow
    <3>4. UNCHANGED <<server, held, run>> /\ history' = Listed(rows')
      BY <2>3 DEF PlayFinished, LoadHistory
    <3>5. QED
      BY <1>a, <3>3, <3>4, UiHonest
  <2>4. QED
    BY <1>6, <2>1, <2>2, <2>3 DEF Watch
<1>7. CASE UndoKey
  <2>1. undo.id \in Shows /\ rows[undo.id] \in Row /\ rows[undo.id] # None
    BY <1>7, <1>b DEF UndoKey, Undo
  <2>2. HonestRow(RestoreListStatus(rows[undo.id], undo.pair), held[undo.id])
    BY <1>b, <2>1, HonestWriters
  <2>3. \A t \in Shows : rows'[t] = rows[t] \/ HonestRow(rows'[t], held[t])
    BY <1>7, <1>b, <2>1, <2>2 DEF UndoKey, SetRow
  <2>4. UNCHANGED <<server, held, run>> /\ history' = Listed(rows')
    BY <1>7 DEF UndoKey, LoadHistory
  <2>5. QED
    BY <1>a, <2>3, <2>4, UiHonest
<1>8. CASE ReloadHistory
  BY <1>8, <1>a, UiHonest DEF ReloadHistory, funnelVars
<1>9. CASE SyncTick \/ SyncTickFails \/ OnSyncFlushed \/ CliSync \/ CliSyncEnds
  <2>1. UNCHANGED <<rows, server, held, history>>
    BY <1>9 DEF SyncTick, SyncTickFails, OnSyncFlushed, CliSync, CliSyncEnds, funnelVars, uiVars
  <2>2. \A p \in Runs : run'[p] = run[p] \/ HonestRun(run'[p], held)
    <3>1. \/ run' = run
          \/ \E p \in Runs, r \in {Idle, Started("full")} : run' = [run EXCEPT ![p] = r]
      BY <1>9, <1>b
         DEF SyncTick, SyncTickFails, OnSyncFlushed, CliSync, CliSyncEnds, funnelVars,
             StartRun, RunBecomes
    <3>2. HonestRun(Idle, held) /\ HonestRun(Started("full"), held)
      BY IdleHonest
    <3>3. QED
      BY <1>b, <3>1, <3>2
  <2>3. QED
    BY <1>a, <2>1, <2>2, UiHonest
<1>10. CASE Lifecycle \/ Exit
  <2>1. UNCHANGED <<rows, server, held>> /\ (history' = history \/ history' = NoReply)
    BY <1>10 DEF Lifecycle, Quit, Crash, SwitchSync, OnConnect, Exit, ForgetMemory, funnelVars
  <2>2. \A p \in Runs : run'[p] = run[p] \/ HonestRun(run'[p], held)
    BY <1>10, <1>b, IdleHonest
       DEF Lifecycle, Quit, Crash, SwitchSync, OnConnect, Exit, funnelVars, StartRun, RunBecomes
  <2>3. QED
    BY <1>a, <2>1, <2>2, UiHonest
<1>11. CASE Launch
  <2>1. \A s \in Shows : HonestRow(rows'[s], held[s])
    <3>1. \A s \in Shows : rows'[s] = AdoptOrphanedProgress(rows[s])
      BY <1>11 DEF Launch
    <3>2. \A s \in Shows : rows[s] \in Row \cup {None} /\ HonestRow(rows[s], held[s])
      BY <1>b
    <3>3. QED
      BY <3>1, <3>2, HonestWriters
  <2>2. UNCHANGED <<server, held>> /\ history' = Listed(rows')
    BY <1>11 DEF Launch, LoadHistory
  <2>3. \A p \in Runs : run'[p] = run[p] \/ HonestRun(run'[p], held)
    BY <1>11, <1>b, IdleHonest DEF Launch, StartRun, RunBecomes
  <2>4. QED
    BY <1>a, <2>1, <2>2, <2>3, UiHonest
<1>12. ASSUME NEW s \in Shows, NEW k \in Episodes, NEW natural \in BOOLEAN, NEW m \in MediaSeen,
              CliPlayFinished(s, k, natural, m)
       PROVE  HonestInv'
  <2>1. rows[s] \in Row /\ rows[s] # None /\ k \in 0..MaxProgress /\ m \in Media
    BY <1>12, <1>b, KeysAssumption, ProgressAssumption DEF CliPlayFinished, Episodes
  <2>2. /\ HonestRow(RecordFinish(rows[s], k, natural, m), held[s])
        /\ InLibrary(RecordFinish(rows[s], k, natural, m))
    BY <1>b, <2>1, HonestWriters, StillMember
  <2>3. /\ \A t \in Shows : rows'[t] = rows[t] \/ HonestRow(rows'[t], held[t])
        /\ \A t \in Shows : InLibrary(rows[t]) => InLibrary(rows'[t])
    BY <1>12, <1>b, <2>2 DEF CliPlayFinished, SetRow
  <2>4. UNCHANGED <<server, held, run, history>>
    BY <1>12 DEF CliPlayFinished, uiVars
  <2>5. QED
    BY <1>a, <2>3, <2>4, UiHonest
<1>13. CASE UNCHANGED vars
  BY <1>13, <1>a, UiHonest DEF vars
<1>14. QED
  BY <1>1, <1>2, <1>3, <1>4, <1>5, <1>6, <1>7, <1>8, <1>9, <1>10, <1>11, <1>12, <1>13
     DEF Next, CommandLine

\* The snapshot never leads AniList: whatever is lost, retried, interrupted or
\* run twice, what a row believes AniList accepted is a pair AniList has held,
\* or the defaults an untouched show is born clean with.
THEOREM SnapshotsAreHonest == Spec => []SnapshotHonest
<1>1. Init => HonestInv
  BY InitHonest
<1>2. HonestInv /\ [Next]_vars => HonestInv'
  BY NextHonest
<1>3. HonestInv => SnapshotHonest
  BY DEF HonestInv, HonestRow, SnapshotHonest
<1>4. QED
  BY <1>1, <1>2, <1>3, PTL DEF Spec

\* A row whose pair does not change loses nothing.
LEMMA SamePairKept ==
    ASSUME TypeInv, NEW p \in Runs, NEW s \in Shows,
           rows[s] # None /\ rows'[s] # None => rows'[s].pair = rows[s].pair
    PROVE  PullKeeps(p, s)
<1>1. rows[s] # None => rows[s].pair.progress \in Nat
  BY ProgressAssumption DEF TypeInv, TypeOK, FunnelTypeOK, Row, Pair
<1>2. QED
  BY <1>1 DEF PullKeeps

\* The two steps of a pull that write rows replace only what AniList has seen.
LEMMA PullStepKeeps ==
    ASSUME HonestInv, NEW p \in Runs, NEW s \in Shows, ImportOne(p) \/ ApplyOne(p)
    PROVE  PullKeeps(p, s)
<1>a. /\ TypeInv /\ rows \in [Shows -> Row \cup {None}]
      /\ run[p] \in Run /\ HonestRun(run[p], held)
  BY DEF HonestInv, TypeInv, TypeOK, FunnelTypeOK
<1>1. CASE ImportOne(p)
  <2>1. PICK i \in run[p].imports :
          \/ rows' = rows
          \/ /\ AddToLibrary(rows[i.id]).pair = Unset
             /\ rows' = [rows EXCEPT ![i.id] = [AddToLibrary(rows[i.id]) EXCEPT
                                                    !.pair = i.pair, !.snap = i.pair]]
    BY <1>1 DEF ImportOne
  <2>2. CASE rows'[s] = rows[s]
    BY <1>a, <2>2, SamePairKept
  <2>3. CASE rows'[s] # rows[s] /\ rows[s] # None
    <3>1. s = i.id /\ AddToLibrary(rows[s]).pair = Unset /\ i.pair \in Pair
      BY <1>a, <2>1, <2>3 DEF Run, ImportRow
    <3>2. rows[s] \in Row /\ rows[s].pair = Unset
      BY <1>a, <2>3, <3>1 DEF AddToLibrary, BindProvider, Row
    <3>3. AddToLibrary(rows[s]) \in Row
      BY <3>2, MintType
    <3>4. rows'[s] = [AddToLibrary(rows[s]) EXCEPT !.pair = i.pair, !.snap = i.pair]
      BY <1>a, <2>1, <2>3, <3>1
    <3>5. rows'[s].pair \in Pair
      BY <3>1, <3>3, <3>4 DEF Row
    <3>6. ~(rows'[s].pair.progress < 0)
      BY <3>5, ProgressAssumption DEF Pair
    <3>7. QED
      BY <3>2, <3>6 DEF PullKeeps, Unset
  <2>4. QED
    BY <2>2, <2>3 DEF PullKeeps
<1>2. CASE ApplyOne(p)
  <2>1. PICK w \in run[p].plan :
          \/ rows' = rows
          \/ /\ rows[w.id] # None /\ rows[w.id].pair = w.guard
             /\ rows' = [rows EXCEPT ![w.id].pair = w.merged, ![w.id].snap = w.snapshot]
    BY <1>2 DEF ApplyOne
  <2>2. CASE rows'[s] = rows[s]
    BY <1>a, <2>2, SamePairKept
  <2>3. CASE rows'[s] # rows[s]
    <3>1. s = w.id /\ rows[s] \in Row /\ rows[s].pair = w.guard /\ HonestPlan(w, held[s])
      BY <1>a, <2>1, <2>3 DEF HonestRun
    <3>2. rows'[s].pair = w.merged
      BY <1>a, <2>1, <2>3, <3>1 DEF Row
    <3>3. QED
      BY <3>1, <3>2 DEF PullKeeps, HonestPlan
  <2>4. QED
    BY <2>2, <2>3
<1>3. QED
  BY <1>1, <1>2

\* No other step of the system counts as a pull writing a changed row.
LEMMA NextKeeps ==
    ASSUME HonestInv, Next, NEW p \in Runs, NEW s \in Shows
    PROVE  PullKeeps(p, s)
<1>a. TypeInv /\ rows \in [Shows -> Row \cup {None}] /\ run \in [Runs -> Run] /\ Tui \in Runs
  BY RunsAssumption DEF HonestInv, TypeInv, TypeOK, FunnelTypeOK
<1>b. rows' = rows => PullKeeps(p, s)
  BY <1>a, SamePairKept
<1>c. run' = run => PullKeeps(p, s)
  BY DEF PullKeeps, PullWrites
<1>1. ASSUME NEW q \in Runs, RunStep(q) \/ RunFault(q) PROVE PullKeeps(p, s)
  <2>1. CASE ImportOne(q) \/ ApplyOne(q)
    <3>1. CASE q = p
      BY <2>1, <3>1, PullStepKeeps
    <3>2. CASE q # p
      <4>1. run'[p] = run[p]
        BY <1>a, <2>1, <3>2 DEF ImportOne, ApplyOne, RunBecomes
      <4>2. QED
        BY <4>1 DEF PullKeeps, PullWrites
    <3>3. QED
      BY <3>1, <3>2
  <2>2. CASE MarkRow(q)
    <3>1. \A t \in Shows : rows[t] # None /\ rows'[t] # None => rows'[t].pair = rows[t].pair
      BY <1>a, <2>2 DEF MarkRow, MarkSynced, Row
    <3>2. QED
      BY <1>a, <3>1, SamePairKept
  <2>3. CASE ~(ImportOne(q) \/ ApplyOne(q) \/ MarkRow(q))
    <3>1. rows' = rows
      BY <1>1, <2>3 DEF RunStep, RunFault, FetchList, ReconcilePlan, ImportsDone, AppliesDone,
           ListDirty, GuardPasses, GuardHolds, SaveEntry, PushDone, FetchListMisses,
           FetchListRefused, GuardFails, RateLimited, PushRefused, SaveEntryUnconfirmed,
           SaveEntryFails, StoreFails
    <3>2. QED
      BY <1>b, <3>1
  <2>4. QED
    BY <2>1, <2>2, <2>3
<1>2. CASE RemoteClients
  BY <1>2, <1>b DEF RemoteClients, RemoteDelete, RemoteEdit
<1>3. ASSUME NEW t \in Shows, Browse(t) \/ EditList(t) \/ Watch(t) PROVE PullKeeps(p, s)
  BY <1>3, <1>c DEF Browse, EditList, Watch, Bind, PlanIt, StatusKey, RecomputeKey, Play,
       Engage, Checkpoint, PlayEnded, PlayFinished, funnelVars
<1>4. ASSUME NEW t \in Shows, Delete(t) PROVE PullKeeps(p, s)
  BY <1>4, <1>a, SamePairKept DEF Delete, SetRow
<1>5. CASE \/ UndoKey
           \/ \E t \in Shows, k \in Episodes, natural \in BOOLEAN, m \in MediaSeen :
                CliPlayFinished(t, k, natural, m)
  BY <1>5, <1>c DEF UndoKey, CliPlayFinished
<1>6. CASE \/ ReloadHistory \/ SyncTick \/ SyncTickFails \/ OnSyncFlushed \/ Lifecycle
           \/ Exit \/ CliSync \/ CliSyncEnds
  BY <1>6, <1>b DEF ReloadHistory, SyncTick, SyncTickFails, OnSyncFlushed, Lifecycle, Quit,
       Crash, SwitchSync, OnConnect, Exit, CliSync, CliSyncEnds, funnelVars
<1>7. CASE Launch
  <2>1. \A t \in Shows : rows'[t] = AdoptOrphanedProgress(rows[t])
    BY <1>7 DEF Launch
  <2>2. rows[s] # None => rows'[s].pair = rows[s].pair
    <3>1. \A r \in Row : RecordEngagement(r).pair = r.pair
      BY DEF RecordEngagement, Row
    <3>2. \A r \in Row : AdoptOrphanedProgress(r).pair = r.pair
      BY <3>1 DEF AdoptOrphanedProgress
    <3>3. QED
      BY <1>a, <2>1, <3>2
  <2>3. QED
    BY <1>a, <2>2, SamePairKept
<1>8. QED
  BY <1>1, <1>2, <1>3, <1>4, <1>5, <1>6, <1>7 DEF Next, CommandLine

\* A pull, wherever the user's edits fall between its plan and its applies,
\* and however many runs there are, never overwrites an edit AniList has not
\* seen.
THEOREM PullsKeepLocalEdits == Spec => PullKeepsLocalEdits
<1>1. Init => HonestInv
  BY InitHonest
<1>2. HonestInv /\ [Next]_vars => HonestInv'
  BY NextHonest
<1>3. HonestInv /\ [Next]_vars => [\A p \in Runs, s \in Shows : PullKeeps(p, s)]_vars
  BY NextKeeps
<1>4. QED
  BY <1>1, <1>2, <1>3, PTL DEF Spec, PullKeepsLocalEdits

-----------------------------------------------------------------------------
(***************************************************************************)
(* What a push may overwrite on AniList.                                   *)
(*                                                                         *)
(* The property is false where mark_synced stamps a row that was deleted   *)
(* and added again under the push (run ReAdd).  The theorem says that this *)
(* is the only way: a behaviour without such a stamp never has a blind     *)
(* upsert.                                                                 *)
(***************************************************************************)

\* Run p stamps the row it pushed, which was deleted and is back since the run
\* read it: mark_synced finds a row and asks nothing.
StampsReAdded ==
    \E p \in Runs :
        /\ MarkRow(p)
        /\ run[p].cur.id \in run[p].stale
        /\ rows[run[p].cur.id] # None

-----------------------------------------------------------------------------
(***************************************************************************)
(* The inductive invariant.  a is the function of the AniList pairs each   *)
(* row has met, e the function of AniList's entries.                       *)
(***************************************************************************)
Pushing == {"push", "save", "mark"}

\* What a row believes AniList accepted is a pair it has met, or a default.
MetRow(r, met) == r # None => r.snap \in met \cup {Unset, None}

\* So is the snapshot a run pushes against, unless the row has been deleted.
MetWork(w, r, a) == w.snap \in a[w.id] \cup {Unset, None} \/ w.id \in r.stale

\* The guard that let a run go on to its save has not gone stale unnoticed.
GuardStands(r, a, e) ==
    r.pc = "save" =>
        \/ e[r.cur.id] \in a[r.cur.id] \cup {Unset, None}
        \/ r.raced
        \/ r.cur.id \in r.stale

MetRun(r, a, e) ==
    /\ r.cur # None => r.pc \in Pushing /\ MetWork(r.cur, r, a)
    /\ \A w \in r.work : MetWork(w, r, a)
    /\ GuardStands(r, a, e)

UpsertInv ==
    /\ HonestInv
    /\ \A s \in Shows : MetRow(rows[s], acct[s])
    /\ \A p \in Runs : MetRun(run[p], acct, server)

-----------------------------------------------------------------------------
(***************************************************************************)
(* Rows and runs                                                           *)
(***************************************************************************)

\* Minting, promoting and the writers of user state bring no new snapshot but
\* the one an untouched row is born clean with.
LEMMA MetWriters ==
    ASSUME NEW hs, NEW met, NEW r \in Row \cup {None}, HonestRow(r, hs), MetRow(r, met)
    PROVE  /\ MetRow(None, met)
           /\ MetRow(BindProvider(r), met)
           /\ MetRow(AddToLibrary(r), met)
           /\ r # None =>
                /\ \A k, natural, m : MetRow(RecordFinish(r, k, natural, m), met)
                /\ \A status, m : MetRow(SetListStatus(r, status, m), met)
                /\ \A pair : MetRow(RestoreListStatus(r, pair), met)
                /\ \A n : MetRow(RecomputeProgress(r, n), met)
                /\ MetRow(RecordEngagement(r), met)
                /\ MetRow(SaveProgress(r), met)
           /\ MetRow(AdoptOrphanedProgress(r), met)
<1>1. MetRow(None, met)
  BY DEF MetRow
<1>2. BindProvider(r) \in Row /\ BindProvider(r).snap \in met \cup {Unset, None}
  BY MintType DEF MetRow, BindProvider, Identity
<1>3. MetRow(BindProvider(r), met)
  BY <1>2 DEF MetRow
<1>4. MetRow(AddToLibrary(r), met)
  <2> DEFINE minted == BindProvider(r)
  <2>1. MetRow([minted EXCEPT !.member = TRUE], met)
    <3> HIDE DEF minted
    <3> QED
      BY <1>2 DEF MetRow, minted, Row
  <2>2. QED
    BY <2>1 DEF AddToLibrary
<1>5. ASSUME r # None
      PROVE  /\ \A k, natural, m : MetRow(RecordFinish(r, k, natural, m), met)
             /\ \A status, m : MetRow(SetListStatus(r, status, m), met)
             /\ \A pair : MetRow(RestoreListStatus(r, pair), met)
             /\ \A n : MetRow(RecomputeProgress(r, n), met)
             /\ MetRow(RecordEngagement(r), met)
             /\ MetRow(SaveProgress(r), met)
  <2>1. r \in Row /\ r.snap \in met \cup {Unset, None}
    BY <1>5 DEF MetRow
  <2>2. \A k, natural, m : MetRow(RecordFinish(r, k, natural, m), met)
    BY <2>1 DEF MetRow, RecordFinish, Row
  <2>3. \A status, m : MetRow(SetListStatus(r, status, m), met)
    BY <2>1 DEF MetRow, SetListStatus, Row
  <2>4. \A pair : MetRow(RestoreListStatus(r, pair), met)
    BY <2>1 DEF MetRow, RestoreListStatus, Row
  <2>5. \A n : MetRow(RecomputeProgress(r, n), met)
    BY <2>1 DEF MetRow, RecomputeProgress, Row
  <2>6. MetRow(RecordEngagement(r), met)
    BY <1>5, <2>1 DEF MetRow, HonestRow, RecordEngagement, Row
  <2>7. MetRow(SaveProgress(r), met)
    BY <2>1 DEF MetRow, SaveProgress, Row
  <2>8. QED
    BY <2>2, <2>3, <2>4, <2>5, <2>6, <2>7
<1>6. MetRow(AdoptOrphanedProgress(r), met)
  BY <1>5 DEF AdoptOrphanedProgress
<1>7. QED
  BY <1>1, <1>3, <1>4, <1>5, <1>6

\* A run that has nothing to push has met everything.
LEMMA IdleMet ==
    ASSUME NEW a, NEW e
    PROVE  /\ MetRun(Idle, a, e)
           /\ \A b : MetRun([Idle EXCEPT !.pc = "done", !.changed = b], a, e)
           /\ MetRun([Idle EXCEPT !.pc = "done"], a, e)
           /\ \A mode : MetRun(Started(mode), a, e)
  BY DEF MetRun, GuardStands, Idle, Started

\* The changes of a run that touch neither its work list nor its guard.
LEMMA TailMet ==
    ASSUME NEW a, NEW e, NEW r \in Run, MetRun(r, a, e)
    PROVE  /\ \A pc \in Step \ {"save"} :
                 r.cur = None \/ pc \in Pushing => MetRun([r EXCEPT !.pc = pc], a, e)
           /\ \A w : MetRun(Past(r, w), a, e)
           /\ MetRun([r EXCEPT !.raced = TRUE], a, e)
<1>1. ASSUME NEW pc \in Step \ {"save"}, r.cur = None \/ pc \in Pushing
      PROVE  MetRun([r EXCEPT !.pc = pc], a, e)
  BY <1>1 DEF MetRun, MetWork, GuardStands, Run
<1>2. ASSUME NEW w PROVE MetRun(Past(r, w), a, e)
  BY DEF MetRun, MetWork, GuardStands, Past, Run
<1>3. MetRun([r EXCEPT !.raced = TRUE], a, e)
  BY DEF MetRun, MetWork, GuardStands, Run
<1>4. QED
  BY <1>1, <1>2, <1>3

\* What a row has met only grows, and what was met stays met.
LEMMA MetMonotone ==
    ASSUME NEW a, NEW b, NEW e, \A s \in Shows : a[s] \subseteq b[s],
           NEW r \in Run, r.pc \in {"save", "mark"} => r.cur \in WorkRow, MetRun(r, a, e)
    PROVE  MetRun(r, b, e)
<1>1. ASSUME NEW w \in WorkRow, MetWork(w, r, a) PROVE MetWork(w, r, b)
  BY <1>1 DEF MetWork, WorkRow
<1>2. r.cur # None => r.pc \in Pushing /\ MetWork(r.cur, r, b)
  BY <1>1 DEF MetRun, Run
<1>3. \A w \in r.work : MetWork(w, r, b)
  BY <1>1 DEF MetRun, Run
<1>4. GuardStands(r, b, e)
  BY DEF MetRun, GuardStands, WorkRow
<1>5. QED
  BY <1>2, <1>3, <1>4 DEF MetRun

\* A deleted row takes what it had met with it, and every run knows.
LEMMA MetForgotten ==
    ASSUME NEW a, NEW e, NEW s \in Shows, a \in [Shows -> SUBSET Pair],
           NEW r \in Run, r.pc \in {"save", "mark"} => r.cur \in WorkRow, MetRun(r, a, e)
    PROVE  MetRun([r EXCEPT !.stale = @ \cup {s}], [a EXCEPT ![s] = {}], e)
<1> DEFINE b == [a EXCEPT ![s] = {}]
<1> DEFINE t == [r EXCEPT !.stale = @ \cup {s}]
<1>1. /\ t.pc = r.pc /\ t.cur = r.cur /\ t.work = r.work /\ t.raced = r.raced
      /\ t.stale = r.stale \cup {s}
  BY DEF Run
<1>2. \A u \in Shows : u = s \/ b[u] = a[u]
  OBVIOUS
<1> HIDE DEF b, t
<1>3. ASSUME NEW w \in WorkRow, MetWork(w, r, a) PROVE MetWork(w, t, b)
  BY <1>1, <1>2, <1>3 DEF MetWork, WorkRow
<1>4. t.cur # None => t.pc \in Pushing /\ MetWork(t.cur, t, b)
  BY <1>1, <1>3 DEF MetRun, Run
<1>5. \A w \in t.work : MetWork(w, t, b)
  BY <1>1, <1>3 DEF MetRun, Run
<1>6. GuardStands(t, b, e)
  BY <1>1, <1>2 DEF MetRun, GuardStands, WorkRow
<1>7. MetRun(t, b, e)
  BY <1>4, <1>5, <1>6 DEF MetRun
<1>8. QED
  BY <1>7 DEF b, t

-----------------------------------------------------------------------------
(***************************************************************************)
(* Steps, by what they write                                               *)
(***************************************************************************)

\* A step that writes neither the table nor AniList, one run changing.
LEMMA OnlyRunMet ==
    ASSUME UpsertInv, HonestInv', NEW p \in Runs, NEW r, MetRun(r, acct, server),
           RunBecomes(p, r), UNCHANGED <<rows, server, acct>>
    PROVE  UpsertInv'
  BY DEF UpsertInv, HonestInv, TypeInv, TypeOK, FunnelTypeOK, RunBecomes

\* A step that gives one row a snapshot it has met, one run changing.
LEMMA OneRowMet ==
    ASSUME UpsertInv, HonestInv', NEW p \in Runs, NEW s \in Shows, NEW newRow, NEW pair \in Pair,
           newRow.snap = pair, rows' = [rows EXCEPT ![s] = newRow],
           acct' = [acct EXCEPT ![s] = @ \cup {pair}],
           NEW r \in Run, RunBecomes(p, r), MetRun(r, acct, server),
           r.pc \in {"save", "mark"} => r.cur \in WorkRow,
           UNCHANGED server
    PROVE  UpsertInv'
<1>1. /\ rows \in [Shows -> Row \cup {None}] /\ acct \in [Shows -> SUBSET Pair]
      /\ run \in [Runs -> Run] /\ CurSet
  BY DEF UpsertInv, HonestInv, TypeInv, TypeOK, FunnelTypeOK
<1>2. \A t \in Shows : acct[t] \subseteq acct'[t]
  BY <1>1
<1>3. \A t \in Shows : MetRow(rows'[t], acct'[t])
  BY <1>1 DEF UpsertInv, MetRow
<1>4. ASSUME NEW q \in Runs PROVE MetRun(run'[q], acct', server')
  <2>1. /\ run'[q] \in Run /\ (run'[q].pc \in {"save", "mark"} => run'[q].cur \in WorkRow)
        /\ MetRun(run'[q], acct, server)
    BY <1>1 DEF RunBecomes, UpsertInv, CurSet
  <2>2. QED
    BY <1>2, <2>1, MetMonotone
<1>5. QED
  BY <1>3, <1>4 DEF UpsertInv

\* A write on AniList, no row changing: whoever was about to save is overtaken.
LEMMA ServerMet ==
    ASSUME UpsertInv, HonestInv', NEW s \in Shows, NEW pair \in Entry, ServerWrites(s, pair),
           UNCHANGED <<rows, acct>>,
           \A q \in Runs : \/ run'[q] = Overtaken(s)[q]
                           \/ run'[q].pc # "save" /\ MetRun(run'[q], acct, server)
    PROVE  UpsertInv'
<1>1. /\ server \in [Shows -> Entry] /\ run \in [Runs -> Run] /\ CurSet
  BY DEF UpsertInv, HonestInv, TypeInv, TypeOK, FunnelTypeOK
<1>2. \A t \in Shows : t # s => server'[t] = server[t]
  BY <1>1 DEF ServerWrites
<1>3. ASSUME NEW q \in Runs PROVE MetRun(run'[q], acct', server')
  <2>1. CASE run'[q].pc # "save" /\ MetRun(run'[q], acct, server)
    BY <2>1 DEF MetRun, GuardStands
  <2>2. CASE run'[q] = Overtaken(s)[q]
    <3>1. run[q] \in Run /\ MetRun(run[q], acct, server)
      BY <1>1 DEF UpsertInv
    <3>2. CASE run[q].pc = "save" /\ run[q].cur.id = s
      <4>1. run'[q] = [run[q] EXCEPT !.raced = TRUE]
        BY <2>2, <3>2 DEF Overtaken
      <4>2. MetRun(run'[q], acct, server) /\ run'[q].raced
        BY <3>1, <4>1, TailMet DEF Run
      <4>3. QED
        BY <4>2 DEF MetRun, GuardStands
    <3>3. CASE ~(run[q].pc = "save" /\ run[q].cur.id = s)
      <4>1. run'[q] = run[q]
        BY <2>2, <3>3 DEF Overtaken
      <4>2. run[q].pc = "save" => run[q].cur.id \in Shows /\ run[q].cur.id # s
        BY <1>1, <3>3 DEF CurSet, WorkRow
      <4>3. QED
        BY <1>2, <3>1, <4>1, <4>2 DEF MetRun, GuardStands
    <3>4. QED
      BY <3>2, <3>3
  <2>3. QED
    BY <2>1, <2>2
<1>4. QED
  BY <1>3 DEF UpsertInv

\* A UI step that writes rows without a new snapshot, or none.
LEMMA UiMet ==
    ASSUME UpsertInv, HonestInv', UNCHANGED <<server, acct>>,
           \A s \in Shows : rows'[s] = rows[s] \/ MetRow(rows'[s], acct[s]),
           \A p \in Runs : run'[p] = run[p] \/ MetRun(run'[p], acct, server)
    PROVE  UpsertInv'
  BY DEF UpsertInv

-----------------------------------------------------------------------------
(***************************************************************************)
(* The steps of a run                                                      *)
(***************************************************************************)
LEMMA RunStepMet ==
    ASSUME UpsertInv, HonestInv', NEW p \in Runs, RunStep(p) \/ RunFault(p), ~StampsReAdded
    PROVE  UpsertInv'
<1>a. /\ run[p] \in Run /\ MetRun(run[p], acct, server) /\ GoodRun(run[p])
      /\ rows \in [Shows -> Row \cup {None}] /\ acct \in [Shows -> SUBSET Pair]
      /\ server \in [Shows -> Entry] /\ FunnelInv
  BY TailType DEF UpsertInv, HonestInv, TypeInv, TypeOK, FunnelInv, FunnelTypeOK
<1>b. \A s \in Shows : MetRow(rows[s], acct[s])
  BY DEF UpsertInv
<1>c. /\ \A w \in Candidates(p) : w \in WorkRow /\ MetWork(w, run[p], acct)
      /\ run[p].pc \notin Pushing => run[p].cur = None
  BY <1>a, TailType DEF Candidates, MetRun
<1>1. CASE FetchList(p)
  <2>1. MetRun([run[p] EXCEPT !.pc = "plan", !.remote = server], acct, server)
    BY <1>1, <1>a, <1>c DEF FetchList, MetRun, MetWork, GuardStands, Run, Pushing
  <2>2. QED
    BY <1>1, <2>1, OnlyRunMet DEF FetchList
<1>2. CASE ReconcilePlan(p)
  <2>1. \A imports, plan :
          MetRun([run[p] EXCEPT !.pc = "import", !.remote = NoReply,
                                !.imports = imports, !.plan = plan], acct, server)
    BY <1>2, <1>a, <1>c DEF ReconcilePlan, MetRun, MetWork, GuardStands, Run, Pushing
  <2>2. QED
    BY <1>2, <2>1, OnlyRunMet DEF ReconcilePlan
<1>3. CASE ImportOne(p)
  <2>1. PICK i \in run[p].imports :
          LET minted == AddToLibrary(rows[i.id])
              fresh == minted.pair = Unset /\ minted.snap = None
          IN  /\ rows' = IF fresh
                         THEN [rows EXCEPT ![i.id] = [minted EXCEPT !.pair = i.pair,
                                                                    !.snap = i.pair]]
                         ELSE rows
              /\ acct' = IF fresh THEN [acct EXCEPT ![i.id] = @ \cup {i.pair}] ELSE acct
              /\ RunBecomes(p, [run[p] EXCEPT
                    !.imports = @ \ {i},
                    !.contended = IF fresh THEN @ ELSE @ \cup {i.id},
                    !.changed = @ \/ fresh])
    BY <1>3 DEF ImportOne
  <2> DEFINE minted == AddToLibrary(rows[i.id])
  <2> DEFINE fresh == minted.pair = Unset /\ minted.snap = None
  <2> DEFINE newRow == [minted EXCEPT !.pair = i.pair, !.snap = i.pair]
  <2> DEFINE next == [run[p] EXCEPT !.imports = @ \ {i},
                                    !.contended = IF fresh THEN @ ELSE @ \cup {i.id},
                                    !.changed = @ \/ fresh]
  <2>2. i.id \in Shows /\ i.pair \in Pair
    BY <1>a DEF Run, ImportRow
  <2>3. newRow.snap = i.pair
    <3>1. minted \in Row
      BY <1>a, <2>2, MintType
    <3> HIDE DEF minted
    <3> QED
      BY <3>1 DEF Row
  <2>4. next \in Run /\ next.pc = "import" /\ MetRun(next, acct, server)
    <3>1. (run[p].changed \/ fresh) \in BOOLEAN
      OBVIOUS
    <3> HIDE DEF fresh
    <3>2. next \in Run /\ next.pc = "import"
      BY <1>3, <1>a, <2>2, <3>1 DEF Run, ImportOne
    <3>3. MetRun(next, acct, server)
      BY <1>a DEF MetRun, MetWork, GuardStands, Run
    <3>4. QED
      BY <3>2, <3>3
  <2>5. CASE fresh
    <3> HIDE DEF newRow, next
    <3>1. /\ RunBecomes(p, next) /\ rows' = [rows EXCEPT ![i.id] = newRow]
          /\ acct' = [acct EXCEPT ![i.id] = @ \cup {i.pair}]
      BY <2>1, <2>5 DEF newRow, next
    <3>2. QED
      BY <1>3, <2>2, <2>3, <2>4, <3>1, OneRowMet DEF ImportOne
  <2>6. CASE ~fresh
    <3> HIDE DEF newRow, next
    <3>1. RunBecomes(p, next) /\ rows' = rows /\ acct' = acct
      BY <2>1, <2>6 DEF next
    <3>2. QED
      BY <1>3, <2>4, <3>1, OnlyRunMet DEF ImportOne
  <2>7. QED
    BY <2>5, <2>6
<1>4. CASE ImportsDone(p)
  BY <1>4, <1>a, <1>c, TailMet, OnlyRunMet DEF ImportsDone, Goto, Step, Pushing
<1>5. CASE ApplyOne(p)
  <2>1. PICK w \in run[p].plan :
          LET hit == rows[w.id] # None /\ rows[w.id].pair = w.guard
          IN  /\ rows' = IF hit
                         THEN [rows EXCEPT ![w.id].pair = w.merged, ![w.id].snap = w.snapshot]
                         ELSE rows
              /\ acct' = IF hit THEN [acct EXCEPT ![w.id] = @ \cup {w.snapshot}] ELSE acct
              /\ RunBecomes(p, [run[p] EXCEPT
                    !.plan = @ \ {w},
                    !.contended = IF hit THEN @ ELSE @ \cup {w.id},
                    !.changed = @ \/ hit])
    BY <1>5 DEF ApplyOne
  <2> DEFINE hit == rows[w.id] # None /\ rows[w.id].pair = w.guard
  <2> DEFINE newRow == [rows[w.id] EXCEPT !.pair = w.merged, !.snap = w.snapshot]
  <2> DEFINE next == [run[p] EXCEPT !.plan = @ \ {w},
                                    !.contended = IF hit THEN @ ELSE @ \cup {w.id},
                                    !.changed = @ \/ hit]
  <2>2. w.id \in Shows /\ w.snapshot \in Pair
    BY <1>a DEF Run, PlanRow
  <2>3. next \in Run /\ next.pc = "apply" /\ MetRun(next, acct, server)
    <3>1. (run[p].changed \/ hit) \in BOOLEAN
      OBVIOUS
    <3> HIDE DEF hit
    <3>2. next \in Run /\ next.pc = "apply"
      BY <1>5, <1>a, <2>2, <3>1 DEF Run, ApplyOne
    <3>3. MetRun(next, acct, server)
      BY <1>a DEF MetRun, MetWork, GuardStands, Run
    <3>4. QED
      BY <3>2, <3>3
  <2>4. CASE hit
    <3>1. rows[w.id] \in Row
      BY <1>a, <2>2, <2>4
    <3>2. newRow.snap = w.snapshot /\ rows' = [rows EXCEPT ![w.id] = newRow]
      BY <1>a, <2>1, <2>2, <2>4, <3>1 DEF Row
    <3>3. RunBecomes(p, next) /\ acct' = [acct EXCEPT ![w.id] = @ \cup {w.snapshot}]
      BY <2>1, <2>4
    <3> HIDE DEF newRow, next
    <3>4. QED
      BY <1>5, <2>2, <2>3, <3>2, <3>3, OneRowMet DEF ApplyOne
  <2>5. CASE ~hit
    <3>1. RunBecomes(p, next) /\ rows' = rows /\ acct' = acct
      BY <2>1, <2>5
    <3> HIDE DEF next
    <3>2. QED
      BY <1>5, <2>3, <3>1, OnlyRunMet DEF ApplyOne
  <2>6. QED
    BY <2>4, <2>5
<1>6. CASE AppliesDone(p)
  BY <1>6, <1>a, <1>c, TailMet, IdleMet, OnlyRunMet
     DEF AppliesDone, Goto, Finish, Step, Pushing
<1>7. CASE ListDirty(p)
  <2> DEFINE work == {[id |-> s, pair |-> rows[s].pair, snap |-> rows[s].snap] :
                        s \in Dirty \ run[p].contended}
  <2> DEFINE next == [run[p] EXCEPT !.pc = "push", !.work = work, !.stale = {}]
  <2>1. ASSUME NEW w \in work PROVE w.snap \in acct[w.id] \cup {Unset, None}
    BY <1>b, <2>1 DEF Dirty, IsDirty, InLibrary, MetRow
  <2>2. run[p].cur = None
    BY <1>7, <1>c DEF ListDirty, Pushing
  <2>3. RunBecomes(p, next)
    BY <1>7 DEF ListDirty
  <2>4. next.pc = "push" /\ next.cur = None /\ next.work = work
    <3> HIDE DEF work
    <3> QED
      BY <1>a, <2>2 DEF Run
  <2>5. MetRun(next, acct, server)
    <3> HIDE DEF work, next
    <3> QED
      BY <2>1, <2>4 DEF MetRun, MetWork, GuardStands
  <2>6. QED
    <3> HIDE DEF next
    <3> QED
      BY <1>7, <2>3, <2>5, OnlyRunMet DEF ListDirty
<1>8. CASE GuardPasses(p)
  <2>1. PICK w \in Candidates(p) :
          /\ server[w.id] \in {None, w.snap}
          /\ RunBecomes(p, [run[p] EXCEPT !.pc = "save", !.cur = w, !.raced = FALSE])
    BY <1>8 DEF GuardPasses
  <2>2. MetRun([run[p] EXCEPT !.pc = "save", !.cur = w, !.raced = FALSE], acct, server)
    BY <1>a, <1>c, <2>1 DEF MetRun, MetWork, GuardStands, Run, Pushing
  <2>3. QED
    BY <1>8, <2>1, <2>2, OnlyRunMet DEF GuardPasses
<1>9. CASE GuardHolds(p) \/ GuardFails(p) \/ SaveEntryFails(p)
  BY <1>9, <1>a, TailMet, OnlyRunMet DEF GuardHolds, GuardFails, SaveEntryFails, HoldBack
<1>10. CASE RateLimited(p)
  <2>1. PICK w \in Candidates(p) :
          RunBecomes(p, [run[p] EXCEPT !.pc = "push", !.cur = w, !.backedOff = TRUE])
    BY <1>10 DEF RateLimited
  <2>2. MetRun([run[p] EXCEPT !.pc = "push", !.cur = w, !.backedOff = TRUE], acct, server)
    BY <1>a, <1>c DEF MetRun, MetWork, GuardStands, Run, Pushing
  <2>3. QED
    BY <1>10, <2>1, <2>2, OnlyRunMet DEF RateLimited
<1>11. CASE SaveEntry(p) \/ SaveEntryUnconfirmed(p)
  <2> DEFINE w == run[p].cur
  <2>1. w.id \in Shows /\ w.pair \in Entry /\ run[p].pc = "save"
    BY <1>a, <1>11 DEF GoodRun, SaveEntry, SaveEntryUnconfirmed, WorkRow, Entry
  <2>2. ServerWrites(w.id, w.pair) /\ UNCHANGED <<rows, acct>>
    BY <1>11 DEF SaveEntry, SaveEntryUnconfirmed
  <2>3. /\ MetRun([run[p] EXCEPT !.pc = "mark"], acct, server)
        /\ MetRun(Past(run[p], w), acct, server)
    BY <1>a, TailMet DEF Step, Pushing
  <2>4. [run[p] EXCEPT !.pc = "mark"].pc = "mark" /\ Past(run[p], w).pc = "push"
    BY <1>a DEF Run, Past
  <2>5. \/ run' = [Overtaken(w.id) EXCEPT ![p] = [run[p] EXCEPT !.pc = "mark"]]
        \/ run' = [Overtaken(w.id) EXCEPT ![p] = Past(run[p], w)]
    BY <1>11 DEF SaveEntry, SaveEntryUnconfirmed
  <2>6. run'[p] \in {[run[p] EXCEPT !.pc = "mark"], Past(run[p], w)}
    BY <2>5 DEF Overtaken
  <2>7. \A q \in Runs \ {p} : run'[q] = Overtaken(w.id)[q]
    BY <2>5 DEF Overtaken
  <2>8. run'[p].pc # "save" /\ MetRun(run'[p], acct, server)
    BY <2>3, <2>4, <2>6
  <2>9. \A q \in Runs : \/ run'[q] = Overtaken(w.id)[q]
                        \/ run'[q].pc # "save" /\ MetRun(run'[q], acct, server)
    BY <2>7, <2>8
  <2>10. QED
    BY <2>1, <2>2, <2>9, ServerMet
<1>12. CASE MarkRow(p)
  <2> DEFINE w == run[p].cur
  <2> DEFINE newRow == MarkSynced(rows[w.id], w.pair)
  <2>1. w.id \in Shows /\ w.pair \in Pair
    BY <1>a, <1>12 DEF GoodRun, MarkRow, WorkRow
  <2>2. Past(run[p], w) \in Run /\ Past(run[p], w).pc = "push" /\ MetRun(Past(run[p], w), acct, server)
    BY <1>a, TailMet, TailType DEF GoodRun, Past, Run
  <2>3. /\ rows' = [rows EXCEPT ![w.id] = newRow] /\ RunBecomes(p, Past(run[p], w))
        /\ acct' = IF w.id \in run[p].stale THEN acct
                   ELSE [acct EXCEPT ![w.id] = @ \cup {w.pair}]
        /\ UNCHANGED server
    BY <1>12 DEF MarkRow, HoldBack
  <2>4. CASE rows[w.id] = None
    <3>1. newRow = None /\ rows' = rows
      BY <1>a, <2>1, <2>3, <2>4 DEF MarkSynced
    <3>2. CASE w.id \in run[p].stale
      <4>1. UNCHANGED <<rows, server, acct>>
        BY <2>3, <3>1, <3>2
      <4>2. QED
        BY <2>2, <2>3, <4>1, OnlyRunMet
    <3>3. CASE w.id \notin run[p].stale
      <4>1. \A s \in Shows : acct[s] \subseteq acct'[s]
        BY <1>a, <2>3, <3>3
      <4>2. \A s \in Shows : MetRow(rows'[s], acct'[s])
        BY <1>b, <3>1, <4>1 DEF MetRow
      <4>3. ASSUME NEW q \in Runs PROVE MetRun(run'[q], acct', server')
        <5>1. run'[q] = run[q] \/ run'[q] = Past(run[p], w)
          BY <1>a, <2>3 DEF RunBecomes, FunnelInv, FunnelTypeOK
        <5>2. /\ run'[q] \in Run /\ MetRun(run'[q], acct, server)
              /\ run'[q].pc \in {"save", "mark"} => run'[q].cur \in WorkRow
          BY <1>a, <2>2, <5>1 DEF UpsertInv, FunnelInv, FunnelTypeOK, CurSet
        <5>3. MetRun(run'[q], acct', server)
          BY <4>1, <5>2, MetMonotone
        <5>4. QED
          BY <2>3, <5>3
      <4>4. QED
        BY <4>2, <4>3 DEF UpsertInv
    <3>4. QED
      BY <3>2, <3>3
  <2>5. CASE rows[w.id] # None
    <3>1. w.id \notin run[p].stale
      BY <1>12, <2>5 DEF StampsReAdded
    <3>2. newRow.snap = w.pair
      BY <1>a, <2>1, <2>5 DEF MarkSynced, Row
    <3> HIDE DEF newRow
    <3>3. QED
      BY <2>1, <2>2, <2>3, <3>1, <3>2, OneRowMet
  <2>6. QED
    BY <2>4, <2>5
<1>13. CASE PushDone(p) \/ FetchListRefused(p) \/ PushRefused(p) \/ StoreFails(p)
  BY <1>13, IdleMet, OnlyRunMet DEF PushDone, FetchListRefused, PushRefused, StoreFails, Finish
<1>14. CASE FetchListMisses(p)
  BY <1>14, <1>a, <1>c, TailMet, IdleMet, OnlyRunMet
     DEF FetchListMisses, Goto, Finish, Step, Pushing
<1>15. QED
  BY <1>1, <1>2, <1>3, <1>4, <1>5, <1>6, <1>7, <1>8, <1>9, <1>10, <1>11, <1>12, <1>13, <1>14
     DEF RunStep, RunFault

-----------------------------------------------------------------------------
(***************************************************************************)
(* The steps of the app, and the theorem                                   *)
(***************************************************************************)

\* Before the first step no row, no run and no guard is there to be wrong.
LEMMA InitMet == Init => UpsertInv
<1> SUFFICES ASSUME Init PROVE UpsertInv
  OBVIOUS
<1>1. HonestInv
  BY InitHonest
<1>2. \A s \in Shows : MetRow(rows[s], acct[s])
  BY DEF Init, FunnelInit, MetRow
<1>3. \A p \in Runs : MetRun(run[p], acct, server)
  BY IdleMet DEF Init, FunnelInit
<1>4. QED
  BY <1>1, <1>2, <1>3 DEF UpsertInv

\* Every step but a stamp on a row added again keeps what the guards rely on.
LEMMA NextMet == UpsertInv /\ [Next]_vars /\ [~StampsReAdded]_vars => UpsertInv'
<1> SUFFICES ASSUME UpsertInv, [Next]_vars, [~StampsReAdded]_vars PROVE UpsertInv'
  OBVIOUS
<1>a. HonestInv /\ HonestInv'
  BY NextHonest DEF UpsertInv
<1>b. /\ rows \in [Shows -> Row \cup {None}] /\ acct \in [Shows -> SUBSET Pair]
      /\ \A s \in Shows : HonestRow(rows[s], held[s]) /\ MetRow(rows[s], acct[s])
      /\ undo \in Undo \cup {None} /\ playing \in Shows \cup {None}
      /\ run \in [Runs -> Run] /\ CurSet /\ Tui \in Runs /\ Cli \in Runs
  BY <1>a, RunsAssumption DEF UpsertInv, HonestInv, TypeInv, TypeOK, FunnelTypeOK
<1>0. CASE UNCHANGED vars
  BY <1>0, <1>a, UiMet DEF vars
<1>n. CASE Next /\ ~StampsReAdded
  <2>0. MetRun(Idle, acct, server) /\ \A mode : MetRun(Started(mode), acct, server)
    BY IdleMet
  <2>1. ASSUME NEW p \in Runs, RunStep(p) \/ RunFault(p) PROVE UpsertInv'
    BY <1>n, <1>a, <2>1, RunStepMet
  <2>2. CASE RemoteClients
    <3>1. PICK s \in Shows : RemoteDelete(s) \/ \E pair \in RemotePairs : RemoteEdit(s, pair)
      BY <2>2 DEF RemoteClients
    <3>2. QED
      BY <1>a, <3>1, ServerMet, RemoteAssumption DEF RemoteDelete, RemoteEdit, Entry
  <2>3. ASSUME NEW s \in Shows, Browse(s) PROVE UpsertInv'
    <3>1. MetRow(BindProvider(rows[s]), acct[s]) /\ MetRow(AddToLibrary(rows[s]), acct[s])
      BY <1>b, MetWriters
    <3>2. /\ \A t \in Shows : rows'[t] = rows[t] \/ MetRow(rows'[t], acct[t])
          /\ UNCHANGED <<server, acct, run>>
      BY <1>b, <2>3, <3>1 DEF Browse, Bind, PlanIt, SetRow
    <3>3. QED
      BY <1>a, <3>2, UiMet
  <2>4. ASSUME NEW s \in Shows, EditList(s) PROVE UpsertInv'
    <3>1. rows[s] # None
      BY <2>4 DEF EditList, StatusKey, RecomputeKey
    <3>2. /\ \A status, m : MetRow(SetListStatus(rows[s], status, m), acct[s])
          /\ \A n : MetRow(RecomputeProgress(rows[s], n), acct[s])
      BY <1>b, <3>1, MetWriters
    <3>3. /\ \A t \in Shows : rows'[t] = rows[t] \/ MetRow(rows'[t], acct[t])
          /\ UNCHANGED <<server, acct, run>>
      BY <1>b, <2>4, <3>2 DEF EditList, StatusKey, RecomputeKey, SetRow
    <3>4. QED
      BY <1>a, <3>3, UiMet
  <2>5. ASSUME NEW s \in Shows, Delete(s) PROVE UpsertInv'
    <3>1. /\ rows' = [rows EXCEPT ![s] = None] /\ acct' = [acct EXCEPT ![s] = {}]
          /\ run' = [p \in Runs |-> [run[p] EXCEPT !.stale = @ \cup {s}]]
          /\ UNCHANGED server
      BY <2>5 DEF Delete, SetRow
    <3>2. \A t \in Shows : MetRow(rows'[t], acct'[t])
      BY <1>b, <3>1 DEF MetRow
    <3>3. ASSUME NEW p \in Runs PROVE MetRun(run'[p], acct', server')
      <4>1. MetRun([run[p] EXCEPT !.stale = @ \cup {s}], [acct EXCEPT ![s] = {}], server)
        BY <1>b, MetForgotten DEF UpsertInv, CurSet
      <4>2. QED
        BY <3>1, <4>1
    <3>4. QED
      BY <1>a, <3>2, <3>3 DEF UpsertInv
  <2>6. ASSUME NEW s \in Shows, Watch(s) PROVE UpsertInv'
    <3>1. CASE Play(s) \/ PlayEnded
      BY <1>a, <3>1, UiMet DEF Play, PlayEnded, funnelVars
    <3>2. CASE \/ Engage \/ Checkpoint
               \/ \E k \in Episodes, natural \in BOOLEAN, m \in MediaSeen :
                    PlayFinished(k, natural, m)
      <4>1. playing \in Shows /\ rows[playing] # None
        BY <1>b, <3>2 DEF Engage, Checkpoint, PlayFinished
      <4>2. /\ MetRow(RecordEngagement(rows[playing]), acct[playing])
            /\ MetRow(SaveProgress(rows[playing]), acct[playing])
            /\ \A k, natural, m : MetRow(RecordFinish(rows[playing], k, natural, m), acct[playing])
        BY <1>b, <4>1, MetWriters
      <4>3. /\ \A t \in Shows : rows'[t] = rows[t] \/ MetRow(rows'[t], acct[t])
            /\ UNCHANGED <<server, acct, run>>
        BY <1>b, <3>2, <4>1, <4>2 DEF Engage, Checkpoint, PlayFinished, SetRow
      <4>4. QED
        BY <1>a, <4>3, UiMet
    <3>3. QED
      BY <2>6, <3>1, <3>2 DEF Watch
  <2>7. CASE UndoKey
    <3>1. undo.id \in Shows /\ rows[undo.id] # None
      BY <1>b, <2>7 DEF UndoKey, Undo
    <3>2. MetRow(RestoreListStatus(rows[undo.id], undo.pair), acct[undo.id])
      BY <1>b, <3>1, MetWriters
    <3>3. /\ \A t \in Shows : rows'[t] = rows[t] \/ MetRow(rows'[t], acct[t])
          /\ UNCHANGED <<server, acct, run>>
      BY <1>b, <2>7, <3>1, <3>2 DEF UndoKey, SetRow
    <3>4. QED
      BY <1>a, <3>3, UiMet
  <2>8. CASE \/ ReloadHistory \/ SyncTick \/ SyncTickFails \/ OnSyncFlushed \/ Lifecycle
             \/ Exit \/ CliSync \/ CliSyncEnds
    <3>1. UNCHANGED <<rows, server, acct>>
      BY <2>8 DEF ReloadHistory, SyncTick, SyncTickFails, OnSyncFlushed, Lifecycle, Quit,
           Crash, SwitchSync, OnConnect, Exit, CliSync, CliSyncEnds, funnelVars
    <3>2. \/ run' = run
          \/ \E p \in Runs : run' = [run EXCEPT ![p] = Idle]
          \/ \E p \in Runs : \E mode : run' = [run EXCEPT ![p] = Started(mode)]
      BY <1>b, <2>8
         DEF ReloadHistory, SyncTick, SyncTickFails, OnSyncFlushed, Lifecycle, Quit, Crash,
             SwitchSync, OnConnect, Exit, CliSync, CliSyncEnds, funnelVars, StartRun, RunBecomes
    <3>3. \A p \in Runs : run'[p] = run[p] \/ MetRun(run'[p], acct, server)
      BY <1>b, <2>0, <3>2
    <3>4. QED
      BY <1>a, <3>1, <3>3, UiMet
  <2>9. CASE Launch
    <3>1. \A s \in Shows : rows'[s] = AdoptOrphanedProgress(rows[s])
      BY <2>9 DEF Launch
    <3>2. \A s \in Shows : MetRow(rows'[s], acct[s])
      BY <1>b, <3>1, MetWriters
    <3>3. /\ \A p \in Runs : run'[p] = run[p] \/ MetRun(run'[p], acct, server)
          /\ UNCHANGED <<server, acct>>
      BY <1>b, <2>9, <2>0 DEF Launch, StartRun, RunBecomes
    <3>4. QED
      BY <1>a, <3>2, <3>3, UiMet
  <2>10. ASSUME NEW s \in Shows, NEW k \in Episodes, NEW natural \in BOOLEAN,
                NEW m \in MediaSeen, CliPlayFinished(s, k, natural, m)
         PROVE  UpsertInv'
    <3>1. MetRow(RecordFinish(rows[s], k, natural, m), acct[s])
      BY <1>b, <2>10, MetWriters DEF CliPlayFinished
    <3>2. /\ \A t \in Shows : rows'[t] = rows[t] \/ MetRow(rows'[t], acct[t])
          /\ UNCHANGED <<server, acct, run>>
      BY <1>b, <2>10, <3>1 DEF CliPlayFinished, SetRow
    <3>3. QED
      BY <1>a, <3>2, UiMet
  <2>11. QED
    BY <1>n, <2>1, <2>2, <2>3, <2>4, <2>5, <2>6, <2>7, <2>8, <2>9, <2>10
       DEF Next, CommandLine
<1>2. QED
  BY <1>0, <1>n

\* A guard that stands is exactly what the property asks of a push.
LEMMA StandingGuard ==
    ASSUME UpsertInv, NEW p \in Runs, NEW s \in Shows, Pushes(p, s),
           server[s] \notin {None, server'[s]}
    PROVE  server[s] \in acct[s] \cup {Unset} \/ run[p].raced \/ s \in run[p].stale
  BY DEF UpsertInv, MetRun, GuardStands, Pushes

\* A push overwrites only what its row has met, or what appeared in the one
\* round trip after the guard, unless mark_synced ever stamped a row that was
\* deleted and added again under a push.
THEOREM PushesOverwriteWhatTheyMet ==
    Spec /\ [][~StampsReAdded]_vars => NoBlindUpsert
<1>1. Init => UpsertInv
  BY InitMet
<1>2. UpsertInv /\ [Next]_vars /\ [~StampsReAdded]_vars => UpsertInv'
  BY NextMet
<1>3. UpsertInv =>
        [\A p \in Runs, s \in Shows :
           (Pushes(p, s) /\ server[s] \notin {None, server'[s]}) =>
              \/ server[s] \in acct[s] \cup {Unset}
              \/ run[p].raced
              \/ s \in run[p].stale]_vars
  BY StandingGuard
<1>4. QED
  BY <1>1, <1>2, <1>3, PTL DEF Spec, NoBlindUpsert

-----------------------------------------------------------------------------
(***************************************************************************)
(* A funnel run that nobody disturbs is the one-step sync of Replicas.     *)
(* Replicas' entry and row follow show s through the run: they stand still *)
(* while it is under way and take over what it leaves behind when it is    *)
(* done.  The refinement says that the one change they ever make is Sync.  *)
(***************************************************************************)

\* A row outside the library that has been neither edited nor stamped, as every path
\* that mints one leaves it; the compare-and-set of an import asks for this.
Untouched(r) == ~InLibrary(r) => BindProvider(r).pair = Unset /\ BindProvider(r).snap = None

\* The run itself, with the one 429 it may retry, or a step of anybody else that
\* leaves row and entry of s alone (it may still overtake or outdate other rows of the run).
LoneStep(p, s) ==
    \/ RunStep(p)
    \/ RateLimited(p)
    \/ /\ rows'[s] = rows[s] /\ server'[s] = server[s]
       /\ run'[p] = [run[p] EXCEPT !.raced = run'[p].raced, !.stale = run'[p].stale]

\* What a machine sees of show s: the state before the run until the run is done.
Follows(p, s, d) ==
    IF run'[p].pc = "done"
    THEN entry' = server'[s] /\ row' = [row EXCEPT ![d] = rows'[s]] /\ edits' = edits
    ELSE UNCHANGED replicaVars

\* A stretch of the library's behaviour, from the start of a full run on.
LoneSync(p, s, d) ==
    /\ TypeInv /\ run[p] = Started("full") /\ Untouched(rows[s])
    /\ row \in [Devices -> Row \cup {None}] /\ row[d] = rows[s] /\ entry = server[s]
    /\ [][Next /\ LoneStep(p, s) /\ Follows(p, s, d)]_<<vars, replicaVars>>

\* The seeds, planned updates and dirty rows of show s that run r has still to do.
SeedsOf(r, s) == {i \in r.imports : i.id = s}
UpdatesOf(r, s) == {w \in r.plan : w.id = s}
PushesOf(r, s) == {w \in r.work : w.id = s}

\* Where the pull stands: x is row s, old and remote are what it began from.
PullStands(r, x, old, remote, s) ==
    \/ x = Pulled(old, remote) /\ SeedsOf(r, s) = {} /\ UpdatesOf(r, s) = {}
    \/ /\ x = old /\ remote # None
       /\ SeedsOf(r, s) = {} /\ UpdatesOf(r, s) = {PlanFor(s, old, remote)} /\ InLibrary(old)
    \/ /\ x = old /\ remote # None /\ r.pc = "import"
       /\ SeedsOf(r, s) = {[id |-> s, pair |-> remote]} /\ UpdatesOf(r, s) = {}
       /\ ~InLibrary(old) /\ remote.status = "watching"

\* Where the push stands: e is the entry of s.
PushStands(r, x, e, old, remote, s) ==
    LET pulled == Pulled(old, remote)
    IN  \/ /\ IsDirty(pulled) /\ x = pulled
           /\ PushesOf(r, s) = {[id |-> s, pair |-> pulled.pair, snap |-> pulled.snap]}
           /\ e = IF r.pc = "mark" /\ r.cur.id = s THEN pulled.pair ELSE remote
        \/ /\ PushesOf(r, s) = {}
           /\ x = (IF IsDirty(pulled) THEN MarkSynced(pulled, pulled.pair) ELSE pulled)
           /\ e = (IF IsDirty(pulled) THEN pulled.pair ELSE remote)

\* Where run r stands on its way from <<old, remote>> to what Sync makes of them.
OnCourse(r, x, e, old, remote, s) ==
    /\ r.pc # "idle"
    /\ r.pc = "done" => x = old /\ e = remote
    /\ r.pc # "done" => r.mode = "full" /\ s \notin r.contended /\ Untouched(old)
    /\ r.pc \in {"fetch", "plan"} => r.imports = {} /\ r.plan = {} /\ x = old
    /\ r.pc = "plan" => r.remote[s] = remote
    /\ r.pc \in {"fetch", "plan", "import", "apply", "list"} => e = remote /\ r.work = {} /\ r.cur = None
    /\ r.pc \in {"import", "apply"} => PullStands(r, x, old, remote, s)
    /\ r.pc = "apply" => r.imports = {}
    /\ r.pc = "list" => x = Pulled(old, remote)
    /\ r.pc \in {"save", "mark"} => r.cur \in r.work
    /\ r.pc \in Pushing => r.cur \in r.work \cup {None} /\ PushStands(r, x, e, old, remote, s)

LoneInv(p, s, d) ==
    /\ TypeInv
    /\ row \in [Devices -> Row \cup {None}] /\ entry \in Entry
    /\ OnCourse(run[p], rows[s], server[s], row[d], entry, s)

\* What the pull of one row leaves alone, and what it stamps.
LEMMA PulledCases ==
    ASSUME NEW r \in Row \cup {None}, NEW remote \in Entry
    PROVE  /\ remote = None => Pulled(r, remote) = r
           /\ remote # None /\ InLibrary(r) =>
                 Pulled(r, remote) = [r EXCEPT !.pair = MergePair(r.snap, r.pair, remote), !.snap = remote]
           /\ remote # None /\ InLibrary(r) /\ ~NeedsWrite(r, remote) => Pulled(r, remote) = r
           /\ remote # None /\ ~InLibrary(r) /\ remote.status # "watching" => Pulled(r, remote) = r
           /\ remote # None /\ IsDirty(Pulled(r, remote)) => Pulled(r, remote).snap = remote
  <1>1. remote = None => Pulled(r, remote) = r
    BY DEF Pulled
  <1>2. ASSUME remote # None, InLibrary(r)
        PROVE  Pulled(r, remote) = [r EXCEPT !.pair = MergePair(r.snap, r.pair, remote), !.snap = remote]
    BY <1>2 DEF Pulled
  <1>3. ASSUME remote # None, InLibrary(r), ~NeedsWrite(r, remote)
        PROVE  Pulled(r, remote) = r
    <2>1. MergePair(r.snap, r.pair, remote) = r.pair /\ remote = r.snap
      BY <1>3 DEF NeedsWrite
    <2>2. r \in Row
      BY <1>3 DEF InLibrary
    <2>3. [r EXCEPT !.pair = r.pair, !.snap = r.snap] = r
      BY <2>2 DEF Row
    <2> QED
      BY <1>2, <1>3, <2>1, <2>3
  <1>4. remote # None /\ ~InLibrary(r) /\ remote.status # "watching" => Pulled(r, remote) = r
    BY DEF Pulled
  <1>5. ASSUME remote # None, IsDirty(Pulled(r, remote))
        PROVE  Pulled(r, remote).snap = remote
    <2>1. CASE InLibrary(r)
      <3>1. r \in Row
        BY <2>1 DEF InLibrary
      <3> QED
        BY <1>2, <1>5, <2>1, <3>1 DEF Row
    <2>2. CASE ~InLibrary(r) /\ remote.status = "watching"
      <3>1. AddToLibrary(r) \in Row
        BY MintType
      <3>2. Pulled(r, remote) = [AddToLibrary(r) EXCEPT !.pair = remote, !.snap = remote]
        BY <1>5, <2>2 DEF Pulled
      <3> QED
        BY <3>1, <3>2 DEF Row
    <2>3. CASE ~InLibrary(r) /\ remote.status # "watching"
      BY <1>4, <1>5, <2>3 DEF IsDirty
    <2> QED
      BY <2>1, <2>2, <2>3
  <1> QED
    BY <1>1, <1>2, <1>3, <1>4, <1>5

\* With room for every seed the cap leaves none out.
LEMMA CapCovers ==
    ASSUME IsFiniteSet(Seeded), Cardinality(Seeded) <= ImportCap, NEW remote, NEW s \in Importable(remote)
    PROVE  s \in Capped(Importable(remote))
  <1> DEFINE before == {t \in Importable(remote) : t < s}
  <1>1. Importable(remote) \subseteq Seeded /\ s \in Seeded /\ s \in Nat
    BY ShowsAssumption DEF Importable
  <1>2. before \subseteq Seeded \ {s}
    BY <1>1
  <1>3. IsFiniteSet(Seeded \ {s}) /\ Cardinality(Seeded \ {s}) = Cardinality(Seeded) - 1
    BY <1>1, FS_RemoveElement
  <1>4. IsFiniteSet(before) /\ Cardinality(before) <= Cardinality(Seeded \ {s})
    BY <1>2, <1>3, FS_Subset
  <1>5. Cardinality(before) \in Nat /\ Cardinality(Seeded) \in Nat
    BY <1>4, FS_CardinalityType
  <1>6. Cardinality(before) < ImportCap
    BY <1>3, <1>4, <1>5, ImportCapAssumption
  <1> QED
    BY <1>6 DEF Capped

\* One guarded update of the plan, or none, follows from where the pull stands.
LEMMA ReconcileOnCourse ==
    ASSUME TypeInv, NEW p \in Runs, NEW s \in Seeded, NEW old \in Row \cup {None}, NEW remote \in Entry,
           IsFiniteSet(Seeded), Cardinality(Seeded) <= ImportCap,
           OnCourse(run[p], rows[s], server[s], old, remote, s), ReconcilePlan(p)
    PROVE  OnCourse(run'[p], rows'[s], server'[s], old, remote, s)
  <1> DEFINE reply == run[p].remote
             imports == {[id |-> t, pair |-> reply[t]] : t \in Capped(Importable(reply))}
             matched == {t \in Shows : reply[t] # None /\ InLibrary(rows[t])}
             written == {t \in matched : NeedsWrite(rows[t], reply[t])}
             plan == {PlanFor(t, rows[t], reply[t]) : t \in written}
             next == [run[p] EXCEPT !.pc = "import", !.remote = NoReply, !.imports = imports, !.plan = plan]
  <1>1. run[p].pc = "plan" /\ run' = [run EXCEPT ![p] = next] /\ rows' = rows /\ server' = server
    BY DEF ReconcilePlan, RunBecomes
  <1>2. run[p] \in Run /\ run'[p] = next /\ s \in Shows
    BY <1>1, ShowsAssumption DEF TypeInv, TypeOK, FunnelTypeOK
  <1>3. /\ reply[s] = remote /\ rows[s] = old /\ server[s] = remote /\ run[p].mode = "full"
        /\ s \notin run[p].contended /\ Untouched(old) /\ run[p].work = {} /\ run[p].cur = None
    BY <1>1 DEF OnCourse
  <1>4. \A i \in imports : i.id = s => i = [id |-> s, pair |-> remote] /\ s \in Importable(reply)
    <2> SUFFICES ASSUME NEW t \in Capped(Importable(reply)), t = s
                 PROVE  [id |-> t, pair |-> reply[t]] = [id |-> s, pair |-> remote] /\ s \in Importable(reply)
      OBVIOUS
    <2> QED
      BY <1>3 DEF Capped
  <1>5. s \in Importable(reply) => [id |-> s, pair |-> remote] \in imports
    BY <1>3, CapCovers
  <1>6. s \in Importable(reply) <=> remote # None /\ ~InLibrary(old) /\ remote.status = "watching"
    BY <1>2, <1>3 DEF Importable, Unmatched
  <1>7. \A w \in plan : w.id = s => w = PlanFor(s, old, remote) /\ s \in written
    BY <1>3 DEF PlanFor
  <1>8. s \in written => PlanFor(s, old, remote) \in plan /\ PlanFor(s, old, remote).id = s
    BY <1>3 DEF PlanFor
  <1>9. s \in written <=> remote # None /\ InLibrary(old) /\ NeedsWrite(old, remote)
    BY <1>2, <1>3
  <1>10. /\ next.pc = "import" /\ next.imports = imports /\ next.plan = plan /\ next.mode = "full"
         /\ next.contended = run[p].contended /\ next.work = {} /\ next.cur = None
    <2> HIDE DEF imports, plan
    <2> QED
      BY <1>2, <1>3 DEF Run
  <1> HIDE DEF imports, plan, written, next
  <1>11. PullStands(next, old, old, remote, s)
    <2>1. CASE s \in Importable(reply)
      <3>1. SeedsOf(next, s) = {[id |-> s, pair |-> remote]}
        BY <1>4, <1>5, <1>10, <2>1 DEF SeedsOf
      <3>2. UpdatesOf(next, s) = {}
        BY <1>6, <1>7, <1>9, <1>10, <2>1 DEF UpdatesOf
      <3> QED
        BY <1>6, <1>10, <2>1, <3>1, <3>2 DEF PullStands
    <2>2. CASE s \in written
      <3>1. SeedsOf(next, s) = {}
        BY <1>4, <1>6, <1>9, <1>10, <2>2 DEF SeedsOf
      <3>2. UpdatesOf(next, s) = {PlanFor(s, old, remote)}
        BY <1>7, <1>8, <1>10, <2>2 DEF UpdatesOf
      <3> QED
        BY <1>9, <2>2, <3>1, <3>2 DEF PullStands
    <2>3. CASE s \notin Importable(reply) /\ s \notin written
      <3>1. SeedsOf(next, s) = {} /\ UpdatesOf(next, s) = {}
        BY <1>4, <1>7, <1>10, <2>3 DEF SeedsOf, UpdatesOf
      <3>2. Pulled(old, remote) = old
        BY <1>6, <1>9, <2>3, PulledCases
      <3> QED
        BY <3>1, <3>2 DEF PullStands
    <2> QED
      BY <2>1, <2>2, <2>3
  <1> QED
    BY <1>1, <1>2, <1>3, <1>10, <1>11 DEF OnCourse, Pushing

\* One seed minted: that of s, or another.
LEMMA ImportOnCourse ==
    ASSUME TypeInv, NEW p \in Runs, NEW s \in Shows, NEW old \in Row \cup {None}, NEW remote \in Entry,
           OnCourse(run[p], rows[s], server[s], old, remote, s), ImportOne(p)
    PROVE  OnCourse(run'[p], rows'[s], server'[s], old, remote, s)
  <1>1. PICK i \in run[p].imports :
          LET minted == AddToLibrary(rows[i.id])
              fresh == minted.pair = Unset /\ minted.snap = None
          IN  /\ rows' = IF fresh
                         THEN [rows EXCEPT ![i.id] = [minted EXCEPT !.pair = i.pair,
                                                                    !.snap = i.pair]]
                         ELSE rows
              /\ RunBecomes(p, [run[p] EXCEPT
                    !.imports = @ \ {i},
                    !.contended = IF fresh THEN @ ELSE @ \cup {i.id},
                    !.changed = @ \/ fresh])
    BY DEF ImportOne
  <1> DEFINE minted == AddToLibrary(rows[i.id])
             fresh == minted.pair = Unset /\ minted.snap = None
             next == [run[p] EXCEPT !.imports = @ \ {i},
                                    !.contended = IF fresh THEN @ ELSE @ \cup {i.id},
                                    !.changed = @ \/ fresh]
  <1>2. run[p] \in Run /\ run'[p] = next /\ run[p].pc = "import" /\ server' = server
    BY <1>1 DEF ImportOne, RunBecomes, TypeInv, TypeOK, FunnelTypeOK
  <1>3. /\ next.pc = "import" /\ next.imports = run[p].imports \ {i} /\ next.plan = run[p].plan
        /\ next.mode = run[p].mode /\ next.work = run[p].work /\ next.cur = run[p].cur
        /\ next.contended = IF fresh THEN run[p].contended ELSE run[p].contended \cup {i.id}
    <2> HIDE DEF fresh
    <2> QED
      BY <1>2 DEF Run
  <1>4. /\ server[s] = remote /\ run[p].mode = "full" /\ s \notin run[p].contended /\ Untouched(old)
        /\ run[p].work = {} /\ run[p].cur = None /\ PullStands(run[p], rows[s], old, remote, s)
    BY <1>2 DEF OnCourse
  <1>5. rows' = IF fresh THEN [rows EXCEPT ![i.id] = [minted EXCEPT !.pair = i.pair, !.snap = i.pair]] ELSE rows
    BY <1>1
  <1>6. rows \in [Shows -> Row \cup {None}]
    BY DEF TypeInv, TypeOK, FunnelTypeOK
  <1>7. UpdatesOf(next, s) = UpdatesOf(run[p], s) /\ SeedsOf(next, s) = SeedsOf(run[p], s) \ {i}
    <2> HIDE DEF next
    <2> QED
      BY <1>3 DEF UpdatesOf, SeedsOf
  <1>8. CASE i.id # s
    <2>1. rows'[s] = rows[s]
      <3> HIDE DEF fresh, minted
      <3> QED
        BY <1>5, <1>6, <1>8
    <2>2. SeedsOf(next, s) = SeedsOf(run[p], s)
      BY <1>7, <1>8 DEF SeedsOf
    <2>3. s \notin next.contended
      <3> HIDE DEF fresh, next
      <3> QED
        BY <1>3, <1>4, <1>8
    <2> HIDE DEF next, fresh, minted
    <2>4. PullStands(next, rows[s], old, remote, s)
      BY <1>2, <1>3, <1>4, <1>7, <2>2 DEF PullStands
    <2> QED
      BY <1>2, <1>3, <1>4, <2>1, <2>3, <2>4 DEF OnCourse, Pushing
  <1>9. CASE i.id = s
    <2>1. i \in SeedsOf(run[p], s)
      BY <1>9 DEF SeedsOf
    <2>2. /\ rows[s] = old /\ SeedsOf(run[p], s) = {[id |-> s, pair |-> remote]} /\ UpdatesOf(run[p], s) = {}
          /\ ~InLibrary(old) /\ remote # None /\ remote.status = "watching"
      BY <1>4, <2>1 DEF PullStands
    <2>3. i.pair = remote /\ SeedsOf(next, s) = {} /\ UpdatesOf(next, s) = {}
      BY <1>7, <2>1, <2>2
    <2>4. BindProvider(old) \in Row /\ BindProvider(old).pair = Unset /\ BindProvider(old).snap = None
      BY <1>4, <2>2, MintType DEF Untouched
    <2>5. minted.pair = Unset /\ minted.snap = None /\ minted = AddToLibrary(old)
      BY <1>9, <2>2, <2>4 DEF AddToLibrary, Row
    <2>6. fresh
      BY <2>5
    <2>7. rows'[s] = [minted EXCEPT !.pair = i.pair, !.snap = i.pair]
      <3> HIDE DEF fresh, minted
      <3> QED
        BY <1>5, <1>6, <1>9, <2>6
    <2>8. rows'[s] = Pulled(old, remote)
      BY <2>2, <2>3, <2>5, <2>7 DEF Pulled
    <2> HIDE DEF next, fresh, minted
    <2>9. PullStands(next, rows'[s], old, remote, s)
      BY <2>3, <2>8 DEF PullStands
    <2>10. s \notin next.contended
      BY <1>3, <1>4, <2>6
    <2> QED
      BY <1>2, <1>3, <1>4, <2>9, <2>10 DEF OnCourse, Pushing
  <1> QED
    BY <1>8, <1>9

\* One planned update applied: that of s, which hits, or another.
LEMMA ApplyOnCourse ==
    ASSUME TypeInv, NEW p \in Runs, NEW s \in Shows, NEW old \in Row \cup {None}, NEW remote \in Entry,
           OnCourse(run[p], rows[s], server[s], old, remote, s), ApplyOne(p)
    PROVE  OnCourse(run'[p], rows'[s], server'[s], old, remote, s)
  <1>1. PICK w \in run[p].plan :
          LET hit == rows[w.id] # None /\ rows[w.id].pair = w.guard
          IN  /\ rows' = IF hit
                         THEN [rows EXCEPT ![w.id].pair = w.merged, ![w.id].snap = w.snapshot]
                         ELSE rows
              /\ RunBecomes(p, [run[p] EXCEPT
                    !.plan = @ \ {w},
                    !.contended = IF hit THEN @ ELSE @ \cup {w.id},
                    !.changed = @ \/ hit])
    BY DEF ApplyOne
  <1> DEFINE hit == rows[w.id] # None /\ rows[w.id].pair = w.guard
             next == [run[p] EXCEPT !.plan = @ \ {w},
                                    !.contended = IF hit THEN @ ELSE @ \cup {w.id},
                                    !.changed = @ \/ hit]
  <1>2. run[p] \in Run /\ run'[p] = next /\ run[p].pc = "apply" /\ server' = server
    BY <1>1 DEF ApplyOne, RunBecomes, TypeInv, TypeOK, FunnelTypeOK
  <1>3. /\ next.pc = "apply" /\ next.imports = run[p].imports /\ next.plan = run[p].plan \ {w}
        /\ next.mode = run[p].mode /\ next.work = run[p].work /\ next.cur = run[p].cur
        /\ next.contended = IF hit THEN run[p].contended ELSE run[p].contended \cup {w.id}
    <2> HIDE DEF hit
    <2> QED
      BY <1>2 DEF Run
  <1>4. /\ server[s] = remote /\ run[p].mode = "full" /\ s \notin run[p].contended /\ Untouched(old)
        /\ run[p].work = {} /\ run[p].cur = None /\ PullStands(run[p], rows[s], old, remote, s)
        /\ run[p].imports = {}
    BY <1>2 DEF OnCourse
  <1>5. rows' = IF hit THEN [rows EXCEPT ![w.id].pair = w.merged, ![w.id].snap = w.snapshot] ELSE rows
    BY <1>1
  <1>6. rows \in [Shows -> Row \cup {None}] /\ w.id \in Shows
    BY <1>2 DEF TypeInv, TypeOK, FunnelTypeOK, Run, PlanRow
  <1>7. SeedsOf(next, s) = SeedsOf(run[p], s) /\ UpdatesOf(next, s) = UpdatesOf(run[p], s) \ {w}
    <2> HIDE DEF next
    <2> QED
      BY <1>3 DEF UpdatesOf, SeedsOf
  <1>8. CASE w.id # s
    <2>1. rows'[s] = rows[s]
      <3> HIDE DEF hit
      <3> QED
        BY <1>5, <1>6, <1>8
    <2>2. UpdatesOf(next, s) = UpdatesOf(run[p], s)
      BY <1>7, <1>8 DEF UpdatesOf
    <2>3. s \notin next.contended
      <3> HIDE DEF hit, next
      <3> QED
        BY <1>3, <1>4, <1>8
    <2> HIDE DEF next, hit
    <2>4. PullStands(next, rows[s], old, remote, s)
      BY <1>2, <1>3, <1>4, <1>7, <2>2 DEF PullStands
    <2> QED
      BY <1>2, <1>3, <1>4, <2>1, <2>3, <2>4 DEF OnCourse, Pushing
  <1>9. CASE w.id = s
    <2>1. w \in UpdatesOf(run[p], s)
      BY <1>9 DEF UpdatesOf
    <2>2. /\ rows[s] = old /\ UpdatesOf(run[p], s) = {PlanFor(s, old, remote)} /\ SeedsOf(run[p], s) = {}
          /\ InLibrary(old) /\ remote # None
      BY <1>2, <1>4, <2>1 DEF PullStands
    <2>3. w = PlanFor(s, old, remote) /\ SeedsOf(next, s) = {} /\ UpdatesOf(next, s) = {}
      BY <1>7, <2>1, <2>2
    <2>4. w.guard = old.pair /\ w.merged = MergePair(old.snap, old.pair, remote) /\ w.snapshot = remote
      BY <2>3 DEF PlanFor
    <2>5. hit
      BY <1>9, <2>2, <2>4 DEF InLibrary
    <2>6. old \in Row
      BY <2>2 DEF InLibrary
    <2>7. rows'[s] = [old EXCEPT !.pair = w.merged, !.snap = w.snapshot]
      <3>1. rows' = [rows EXCEPT ![s].pair = w.merged, ![s].snap = w.snapshot]
        BY <1>5, <1>9, <2>5
      <3> QED
        BY <1>6, <2>2, <2>6, <3>1 DEF Row
    <2>8. rows'[s] = Pulled(old, remote)
      <3>1. Pulled(old, remote) = [old EXCEPT !.pair = MergePair(old.snap, old.pair, remote), !.snap = remote]
        BY <2>2 DEF Pulled
      <3> QED
        BY <2>4, <2>7, <3>1
    <2> HIDE DEF next, hit
    <2>9. PullStands(next, rows'[s], old, remote, s)
      BY <2>3, <2>8 DEF PullStands
    <2>10. s \notin next.contended
      BY <1>3, <1>4, <2>5
    <2> QED
      BY <1>2, <1>3, <1>4, <2>9, <2>10 DEF OnCourse, Pushing
  <1> QED
    BY <1>8, <1>9

\* The work list has the row of s if it is dirty, as it is now.
LEMMA ListOnCourse ==
    ASSUME TypeInv, NEW p \in Runs, NEW s \in Shows, NEW old \in Row \cup {None}, NEW remote \in Entry,
           OnCourse(run[p], rows[s], server[s], old, remote, s), ListDirty(p)
    PROVE  OnCourse(run'[p], rows'[s], server'[s], old, remote, s)
  <1> DEFINE work == {[id |-> t, pair |-> rows[t].pair, snap |-> rows[t].snap] : t \in Dirty \ run[p].contended}
             next == [run[p] EXCEPT !.pc = "push", !.work = work, !.stale = {}]
             pulled == Pulled(old, remote)
  <1>1. run[p] \in Run /\ run'[p] = next /\ run[p].pc = "list" /\ server' = server /\ rows' = rows
    BY DEF ListDirty, RunBecomes, TypeInv, TypeOK, FunnelTypeOK
  <1>2. /\ next.pc = "push" /\ next.work = work /\ next.mode = run[p].mode
        /\ next.contended = run[p].contended /\ next.cur = run[p].cur
    <2> HIDE DEF work
    <2> QED
      BY <1>1 DEF Run
  <1>3. /\ server[s] = remote /\ rows[s] = pulled /\ run[p].mode = "full" /\ s \notin run[p].contended
        /\ Untouched(old) /\ run[p].cur = None
    BY <1>1 DEF OnCourse
  <1>4. s \in Dirty \ run[p].contended <=> IsDirty(pulled)
    BY <1>3 DEF Dirty
  <1>5. \A w \in work : w.id = s => w = [id |-> s, pair |-> pulled.pair, snap |-> pulled.snap] /\ IsDirty(pulled)
    <2> SUFFICES ASSUME NEW t \in Dirty \ run[p].contended, t = s
                 PROVE  /\ [id |-> t, pair |-> rows[t].pair, snap |-> rows[t].snap]
                              = [id |-> s, pair |-> pulled.pair, snap |-> pulled.snap]
                        /\ IsDirty(pulled)
      OBVIOUS
    <2> QED
      BY <1>3, <1>4
  <1>6. IsDirty(pulled) => [id |-> s, pair |-> pulled.pair, snap |-> pulled.snap] \in work
    BY <1>3, <1>4
  <1> HIDE DEF work, next
  <1>7. PushStands(next, pulled, remote, old, remote, s)
    <2>1. CASE IsDirty(pulled)
      <3>1. PushesOf(next, s) = {[id |-> s, pair |-> pulled.pair, snap |-> pulled.snap]}
        BY <1>2, <1>5, <1>6, <2>1 DEF PushesOf
      <3> QED
        BY <1>2, <2>1, <3>1 DEF PushStands
    <2>2. CASE ~IsDirty(pulled)
      <3>1. PushesOf(next, s) = {}
        BY <1>2, <1>5, <2>2 DEF PushesOf
      <3> QED
        BY <2>2, <3>1 DEF PushStands
    <2> QED
      BY <2>1, <2>2
  <1> QED
    BY <1>1, <1>2, <1>3, <1>7 DEF OnCourse, Pushing

\* A row the push is at is in its work list, as listed; for s that is the pulled row,
\* and the guard finds the entry the pull saw.
LEMMA GuardStandsAlone ==
    ASSUME TypeInv, NEW p \in Runs, NEW s \in Shows, NEW old \in Row \cup {None}, NEW remote \in Entry,
           OnCourse(run[p], rows[s], server[s], old, remote, s), run[p].pc \in Pushing,
           NEW w \in Candidates(p)
    PROVE  /\ w \in run[p].work /\ w.id \in Shows
           /\ w.id = s =>
                /\ IsDirty(Pulled(old, remote)) /\ rows[s] = Pulled(old, remote)
                /\ w.pair = Pulled(old, remote).pair
                /\ PushesOf(run[p], s) = {w}
                /\ run[p].pc = "push" => server[s] \in {None, w.snap}
  <1> DEFINE pulled == Pulled(old, remote)
  <1>1. run[p] \in Run /\ run[p].cur \in run[p].work \cup {None} /\ PushStands(run[p], rows[s], server[s], old, remote, s)
    BY DEF OnCourse, TypeInv, TypeOK, FunnelTypeOK
  <1>2. w \in run[p].work
    BY <1>1 DEF Candidates
  <1>3. w.id \in Shows
    BY <1>1, <1>2 DEF Run, WorkRow
  <1>4. ASSUME w.id = s
        PROVE  /\ IsDirty(pulled) /\ rows[s] = pulled /\ w.pair = pulled.pair
               /\ PushesOf(run[p], s) = {w}
               /\ run[p].pc = "push" => server[s] \in {None, w.snap}
    <2>1. w \in PushesOf(run[p], s)
      BY <1>2, <1>4 DEF PushesOf
    <2>2. /\ IsDirty(pulled) /\ rows[s] = pulled
          /\ PushesOf(run[p], s) = {[id |-> s, pair |-> pulled.pair, snap |-> pulled.snap]}
          /\ run[p].pc = "push" => server[s] = remote
      BY <1>1, <2>1 DEF PushStands
    <2>3. w = [id |-> s, pair |-> pulled.pair, snap |-> pulled.snap]
      BY <2>1, <2>2
    <2>4. w.pair = pulled.pair /\ w.snap = pulled.snap
      BY <2>3
    <2>5. remote # None => pulled.snap = remote
      BY <2>2, PulledCases
    <2> QED
      BY <2>2, <2>3, <2>4, <2>5
  <1> QED
    BY <1>2, <1>3, <1>4

\* The push turns to a row, or back to its guard.
LEMMA TurnOnCourse ==
    ASSUME TypeInv, NEW p \in Runs, NEW s \in Shows, NEW old \in Row \cup {None}, NEW remote \in Entry,
           OnCourse(run[p], rows[s], server[s], old, remote, s), NEW w \in Candidates(p),
           run[p].pc \in {"push", "save"}, NEW next \in Run, next.pc \in {"push", "save"},
           next.cur = w, next.work = run[p].work, next.mode = run[p].mode, next.contended = run[p].contended,
           run'[p] = next, rows'[s] = rows[s], server'[s] = server[s]
    PROVE  OnCourse(run'[p], rows'[s], server'[s], old, remote, s)
  <1>1. /\ run[p].mode = "full" /\ s \notin run[p].contended /\ Untouched(old)
        /\ PushStands(run[p], rows[s], server[s], old, remote, s)
    BY DEF OnCourse, Pushing
  <1>2. w \in run[p].work
    BY GuardStandsAlone DEF Pushing
  <1>3. PushesOf(next, s) = PushesOf(run[p], s)
    BY DEF PushesOf
  <1>4. PushStands(next, rows[s], server[s], old, remote, s)
    BY <1>1, <1>3 DEF PushStands
  <1> QED
    BY <1>1, <1>2, <1>4 DEF OnCourse, Pushing

\* AniList takes the pair of the row that is pushed.
LEMMA SaveOnCourse ==
    ASSUME TypeInv, NEW p \in Runs, NEW s \in Shows, NEW old \in Row \cup {None}, NEW remote \in Entry,
           OnCourse(run[p], rows[s], server[s], old, remote, s), SaveEntry(p)
    PROVE  OnCourse(run'[p], rows'[s], server'[s], old, remote, s)
  <1> DEFINE w == run[p].cur
             next == [run[p] EXCEPT !.pc = "mark"]
             pulled == Pulled(old, remote)
  <1>1. /\ run[p] \in Run /\ run[p].pc = "save" /\ w \in WorkRow /\ rows' = rows
        /\ server' = [server EXCEPT ![w.id] = w.pair] /\ server \in [Shows -> Entry]
    BY DEF SaveEntry, ServerWrites, TypeInv, TypeOK, FunnelTypeOK, CurSet
  <1>2. run'[p] = next
    BY DEF SaveEntry, Overtaken
  <1>3. /\ next.pc = "mark" /\ next.cur = w /\ next.work = run[p].work /\ next.mode = run[p].mode
        /\ next.contended = run[p].contended
    BY <1>1 DEF Run
  <1>4. /\ run[p].mode = "full" /\ s \notin run[p].contended /\ Untouched(old) /\ w \in run[p].work
        /\ PushStands(run[p], rows[s], server[s], old, remote, s)
    BY <1>1 DEF OnCourse, Pushing
  <1>5. w \in run[p].work
    BY <1>1 DEF OnCourse
  <1>6. w \in Candidates(p)
    BY <1>5 DEF Candidates
  <1> HIDE DEF next
  <1>7. PushesOf(next, s) = PushesOf(run[p], s)
    BY <1>3 DEF PushesOf
  <1>8. PushStands(next, rows[s], server'[s], old, remote, s)
    <2>1. CASE w.id = s
      <3>0. \A v \in Candidates(p) : v.id = s =>
              /\ IsDirty(pulled) /\ rows[s] = pulled /\ v.pair = pulled.pair /\ PushesOf(run[p], s) = {v}
        <4>1. run[p].pc \in Pushing
          BY <1>1 DEF Pushing
        <4> SUFFICES ASSUME NEW v \in Candidates(p), v.id = s
                     PROVE  /\ IsDirty(pulled) /\ rows[s] = pulled /\ v.pair = pulled.pair
                            /\ PushesOf(run[p], s) = {v}
          OBVIOUS
        <4> QED
          BY <4>1, GuardStandsAlone
      <3>1. /\ IsDirty(pulled) /\ rows[s] = pulled /\ w.pair = pulled.pair /\ PushesOf(run[p], s) = {w}
        BY <1>6, <2>1, <3>0
      <3>2. server'[s] = pulled.pair
        BY <1>1, <2>1, <3>1
      <3>3. PushesOf(run[p], s) = {[id |-> s, pair |-> pulled.pair, snap |-> pulled.snap]}
        BY <1>4, <3>1 DEF PushStands
      <3> QED
        BY <1>3, <1>7, <2>1, <3>1, <3>2, <3>3 DEF PushStands
    <2>2. CASE w.id # s
      <3>1. server'[s] = server[s]
        BY <1>1, <2>2
      <3> QED
        BY <1>1, <1>3, <1>4, <1>7, <2>2, <3>1 DEF PushStands
    <2> QED
      BY <2>1, <2>2
  <1> QED
    BY <1>1, <1>2, <1>3, <1>4, <1>5, <1>8 DEF OnCourse, Pushing

\* The row is stamped with what AniList took and leaves the work list.
LEMMA MarkOnCourse ==
    ASSUME TypeInv, NEW p \in Runs, NEW s \in Shows, NEW old \in Row \cup {None}, NEW remote \in Entry,
           OnCourse(run[p], rows[s], server[s], old, remote, s), MarkRow(p)
    PROVE  OnCourse(run'[p], rows'[s], server'[s], old, remote, s)
  <1> DEFINE w == run[p].cur
             next == Past(run[p], w)
             pulled == Pulled(old, remote)
  <1>1. /\ run[p] \in Run /\ run[p].pc = "mark" /\ w \in WorkRow /\ server' = server
        /\ rows' = [rows EXCEPT ![w.id] = MarkSynced(rows[w.id], w.pair)] /\ rows \in [Shows -> Row \cup {None}]
    BY DEF MarkRow, TypeInv, TypeOK, FunnelTypeOK, CurSet
  <1>2. run'[p] = next
    BY <1>1 DEF MarkRow, HoldBack, RunBecomes, TypeInv, TypeOK, FunnelTypeOK
  <1>3. /\ next.pc = "push" /\ next.cur = None /\ next.work = run[p].work \ {w} /\ next.mode = run[p].mode
        /\ next.contended = run[p].contended
    BY <1>1 DEF Run, Past
  <1>4. /\ run[p].mode = "full" /\ s \notin run[p].contended /\ Untouched(old)
        /\ PushStands(run[p], rows[s], server[s], old, remote, s)
    BY <1>1 DEF OnCourse, Pushing
  <1>5. w \in run[p].work
    BY <1>1 DEF OnCourse
  <1>6. w \in Candidates(p)
    BY <1>5 DEF Candidates
  <1> HIDE DEF next
  <1>7. PushesOf(next, s) = PushesOf(run[p], s) \ {w}
    BY <1>3 DEF PushesOf
  <1>8. PushStands(next, rows'[s], server[s], old, remote, s)
    <2>1. CASE w.id = s
      <3>0. \A v \in Candidates(p) : v.id = s =>
              /\ IsDirty(pulled) /\ rows[s] = pulled /\ v.pair = pulled.pair /\ PushesOf(run[p], s) = {v}
        <4>1. run[p].pc \in Pushing
          BY <1>1 DEF Pushing
        <4> SUFFICES ASSUME NEW v \in Candidates(p), v.id = s
                     PROVE  /\ IsDirty(pulled) /\ rows[s] = pulled /\ v.pair = pulled.pair
                            /\ PushesOf(run[p], s) = {v}
          OBVIOUS
        <4> QED
          BY <4>1, GuardStandsAlone
      <3>1. /\ IsDirty(pulled) /\ rows[s] = pulled /\ w.pair = pulled.pair /\ PushesOf(run[p], s) = {w}
        BY <1>6, <2>1, <3>0
      <3>2. rows'[s] = MarkSynced(pulled, pulled.pair) /\ PushesOf(next, s) = {}
        BY <1>1, <1>7, <2>1, <3>1
      <3>3. server[s] = pulled.pair
        BY <1>1, <1>4, <2>1, <3>1 DEF PushStands
      <3> QED
        BY <3>1, <3>2, <3>3 DEF PushStands
    <2>2. CASE w.id # s
      <3>1. rows'[s] = rows[s]
        BY <1>1, <2>2
      <3>2. PushesOf(next, s) = PushesOf(run[p], s)
        BY <1>7, <2>2 DEF PushesOf
      <3> QED
        BY <1>1, <1>3, <1>4, <2>2, <3>1, <3>2 DEF PushStands
    <2> QED
      BY <2>1, <2>2
  <1> QED
    BY <1>1, <1>2, <1>3, <1>4, <1>8 DEF OnCourse, Pushing

\* The guard drops another row.
LEMMA HoldOnCourse ==
    ASSUME TypeInv, NEW p \in Runs, NEW s \in Shows, NEW old \in Row \cup {None}, NEW remote \in Entry,
           OnCourse(run[p], rows[s], server[s], old, remote, s), GuardHolds(p)
    PROVE  OnCourse(run'[p], rows'[s], server'[s], old, remote, s)
  <1>1. PICK w \in Candidates(p) : server[w.id] \notin {None, w.snap} /\ run' = [run EXCEPT ![p] = Past(run[p], w)]
    BY DEF GuardHolds, HoldBack, RunBecomes
  <1> DEFINE next == Past(run[p], w)
  <1>2. run[p] \in Run /\ run[p].pc = "push" /\ server' = server /\ rows' = rows /\ run'[p] = next
    BY <1>1 DEF GuardHolds, TypeInv, TypeOK, FunnelTypeOK
  <1>3. /\ next.pc = "push" /\ next.cur = None /\ next.work = run[p].work \ {w} /\ next.mode = run[p].mode
        /\ next.contended = run[p].contended
    BY <1>2 DEF Run, Past
  <1>4. /\ run[p].mode = "full" /\ s \notin run[p].contended /\ Untouched(old)
        /\ PushStands(run[p], rows[s], server[s], old, remote, s)
    BY <1>2 DEF OnCourse, Pushing
  <1>5. w.id # s
    BY <1>1, <1>2, GuardStandsAlone DEF Pushing
  <1> HIDE DEF next
  <1>6. PushesOf(next, s) = PushesOf(run[p], s)
    BY <1>3, <1>5 DEF PushesOf
  <1>7. PushStands(next, rows[s], server[s], old, remote, s)
    BY <1>2, <1>3, <1>4, <1>6 DEF PushStands
  <1> QED
    BY <1>2, <1>3, <1>4, <1>7 DEF OnCourse, Pushing

\* A run between two of its reads: the pull begins, its lists are used up.
LEMMA PassOnCourse ==
    ASSUME TypeInv, NEW p \in Runs, NEW s \in Shows, NEW old \in Row \cup {None}, NEW remote \in Entry,
           OnCourse(run[p], rows[s], server[s], old, remote, s),
           FetchList(p) \/ ImportsDone(p) \/ AppliesDone(p)
    PROVE  /\ OnCourse(run'[p], rows'[s], server'[s], old, remote, s)
           /\ run'[p].pc # "done"
  <1>1. run[p] \in Run /\ run \in [Runs -> Run] /\ server' = server /\ rows' = rows
    BY DEF FetchList, ImportsDone, AppliesDone, TypeInv, TypeOK, FunnelTypeOK
  <1>2. CASE FetchList(p)
    <2> DEFINE next == [run[p] EXCEPT !.pc = "plan", !.remote = server]
    <2>1. run'[p] = next /\ run[p].pc = "fetch"
      BY <1>1, <1>2 DEF FetchList, RunBecomes
    <2>2. /\ next.pc = "plan" /\ next.remote = server /\ next.imports = run[p].imports /\ next.plan = run[p].plan
          /\ next.mode = run[p].mode /\ next.contended = run[p].contended /\ next.work = run[p].work
          /\ next.cur = run[p].cur
      BY <1>1 DEF Run
    <2> HIDE DEF next
    <2> QED
      BY <1>1, <2>1, <2>2 DEF OnCourse, Pushing
  <1>3. CASE ImportsDone(p)
    <2> DEFINE next == [run[p] EXCEPT !.pc = "apply"]
    <2>1. run'[p] = next /\ run[p].pc = "import" /\ run[p].imports = {}
      BY <1>1, <1>3 DEF ImportsDone, Goto, RunBecomes
    <2>2. /\ next.pc = "apply" /\ next.imports = {} /\ next.plan = run[p].plan /\ next.mode = run[p].mode
          /\ next.contended = run[p].contended /\ next.work = run[p].work /\ next.cur = run[p].cur
      BY <1>1, <2>1 DEF Run
    <2> HIDE DEF next
    <2>3. PullStands(run[p], rows[s], old, remote, s)
      BY <2>1 DEF OnCourse
    <2>4. SeedsOf(run[p], s) = {} /\ SeedsOf(next, s) = {} /\ UpdatesOf(next, s) = UpdatesOf(run[p], s)
      BY <2>1, <2>2 DEF SeedsOf, UpdatesOf
    <2>5. PullStands(next, rows[s], old, remote, s)
      BY <2>3, <2>4 DEF PullStands
    <2> QED
      BY <1>1, <2>1, <2>2, <2>5 DEF OnCourse, Pushing
  <1>4. CASE AppliesDone(p)
    <2> DEFINE next == [run[p] EXCEPT !.pc = "list"]
    <2>1. run[p].pc = "apply" /\ run[p].plan = {} /\ run[p].mode = "full" /\ run[p].imports = {}
      BY <1>4 DEF AppliesDone, OnCourse
    <2>2. run'[p] = next
      BY <1>1, <1>4, <2>1 DEF AppliesDone, Goto, RunBecomes
    <2>3. /\ next.pc = "list" /\ next.mode = run[p].mode /\ next.contended = run[p].contended
          /\ next.work = run[p].work /\ next.cur = run[p].cur
      BY <1>1 DEF Run
    <2> HIDE DEF next
    <2>4. PullStands(run[p], rows[s], old, remote, s)
      BY <2>1 DEF OnCourse
    <2>5. SeedsOf(run[p], s) = {} /\ UpdatesOf(run[p], s) = {}
      BY <2>1 DEF SeedsOf, UpdatesOf
    <2>6. rows[s] = Pulled(old, remote)
      BY <2>4, <2>5 DEF PullStands
    <2> QED
      BY <1>1, <2>1, <2>2, <2>3, <2>6 DEF OnCourse, Pushing
  <1> QED
    BY <1>2, <1>3, <1>4

\* The guard of a row, and the one retry of a refused call.
LEMMA RetryOnCourse ==
    ASSUME TypeInv, NEW p \in Runs, NEW s \in Shows, NEW old \in Row \cup {None}, NEW remote \in Entry,
           OnCourse(run[p], rows[s], server[s], old, remote, s), GuardPasses(p) \/ RateLimited(p)
    PROVE  /\ OnCourse(run'[p], rows'[s], server'[s], old, remote, s)
           /\ run'[p].pc # "done"
  <1>1. run[p] \in Run /\ run \in [Runs -> Run] /\ server' = server /\ rows' = rows
    BY DEF GuardPasses, RateLimited, TypeInv, TypeOK, FunnelTypeOK
  <1>2. PICK w \in Candidates(p) :
          /\ run[p].pc \in {"push", "save"}
          /\ \/ run'[p] = [run[p] EXCEPT !.pc = "save", !.cur = w, !.raced = FALSE]
             \/ run'[p] = [run[p] EXCEPT !.pc = "push", !.cur = w, !.backedOff = TRUE]
    <2>1. CASE GuardPasses(p)
      <3>1. run[p].pc = "push"
        BY <2>1 DEF GuardPasses
      <3>2. PICK w \in Candidates(p) :
              RunBecomes(p, [run[p] EXCEPT !.pc = "save", !.cur = w, !.raced = FALSE])
        BY <2>1 DEF GuardPasses
      <3>3. run'[p] = [run[p] EXCEPT !.pc = "save", !.cur = w, !.raced = FALSE]
        BY <1>1, <3>2 DEF RunBecomes
      <3> QED
        BY <3>1, <3>3
    <2>2. CASE RateLimited(p)
      <3>1. run[p].pc \in {"push", "save"}
        BY <2>2 DEF RateLimited
      <3>2. PICK w \in Candidates(p) :
              RunBecomes(p, [run[p] EXCEPT !.pc = "push", !.cur = w, !.backedOff = TRUE])
        BY <2>2 DEF RateLimited
      <3>3. run'[p] = [run[p] EXCEPT !.pc = "push", !.cur = w, !.backedOff = TRUE]
        BY <1>1, <3>2 DEF RunBecomes
      <3> QED
        BY <3>1, <3>3
    <2> QED
      BY <2>1, <2>2
  <1>3. w \in run[p].work
    BY <1>2, GuardStandsAlone DEF Pushing
  <1>4. w \in WorkRow
    BY <1>1, <1>3 DEF Run
  <1> DEFINE Turned(r) == /\ r \in Run /\ r.pc \in {"push", "save"} /\ r.cur = w /\ r.work = run[p].work
                          /\ r.mode = run[p].mode /\ r.contended = run[p].contended
  <1>5. Turned([run[p] EXCEPT !.pc = "save", !.cur = w, !.raced = FALSE])
    BY <1>1, <1>4 DEF Run, Step
  <1>6. Turned([run[p] EXCEPT !.pc = "push", !.cur = w, !.backedOff = TRUE])
    BY <1>1, <1>4 DEF Run, Step
  <1>7. Turned(run'[p])
    <2> HIDE DEF Turned
    <2> QED
      BY <1>2, <1>5, <1>6
  <1> QED
    BY <1>1, <1>2, <1>7, TurnOnCourse

\* The work list is empty: what the run leaves of show s is what Sync makes of it.
LEMMA DoneIsSynced ==
    ASSUME NEW p \in Runs, NEW s \in Shows, NEW d \in Devices, LoneInv(p, s, d), PushDone(p), Follows(p, s, d)
    PROVE  /\ Sync(d)
           /\ OnCourse(run'[p], rows'[s], server'[s], row'[d], entry', s)
  <1> DEFINE pulled == Pulled(row[d], entry)
             next == [Idle EXCEPT !.pc = "done", !.changed = run[p].changed]
  <1>1. run[p] \in Run /\ run \in [Runs -> Run] /\ server' = server /\ rows' = rows /\ run[p].pc = "push"
    BY DEF PushDone, LoneInv, TypeInv, TypeOK, FunnelTypeOK
  <1>2. run'[p] = next /\ next.pc = "done"
    BY <1>1 DEF PushDone, Finish, RunBecomes, Idle
  <1>3. run[p].cur \in run[p].work \cup {None} /\ PushStands(run[p], rows[s], server[s], row[d], entry, s)
    BY <1>1 DEF LoneInv, OnCourse, Pushing
  <1>4. run[p].work = {}
    BY <1>3 DEF PushDone, Candidates
  <1>5. PushesOf(run[p], s) = {}
    BY <1>4 DEF PushesOf
  <1>6. /\ rows[s] = (IF IsDirty(pulled) THEN MarkSynced(pulled, pulled.pair) ELSE pulled)
        /\ server[s] = (IF IsDirty(pulled) THEN pulled.pair ELSE entry)
    BY <1>3, <1>5 DEF PushStands
  <1> HIDE DEF next
  <1>7. entry' = server[s] /\ row' = [row EXCEPT ![d] = rows[s]] /\ edits' = edits
    BY <1>1, <1>2 DEF Follows
  <1>8. row'[d] = rows'[s] /\ entry' = server'[s]
    BY <1>1, <1>7 DEF LoneInv
  <1>9. Sync(d)
    BY <1>6, <1>7 DEF Sync
  <1>10. OnCourse(run'[p], rows'[s], server'[s], row'[d], entry', s)
    BY <1>2, <1>8 DEF OnCourse, Pushing
  <1> QED
    BY <1>9, <1>10

\* A step of anybody else leaves the run where it stands.
LEMMA OthersOnCourse ==
    ASSUME NEW p \in Runs, NEW s \in Shows, NEW d \in Devices, LoneInv(p, s, d), Follows(p, s, d),
           rows'[s] = rows[s], server'[s] = server[s],
           run'[p] = [run[p] EXCEPT !.raced = run'[p].raced, !.stale = run'[p].stale]
    PROVE  /\ UNCHANGED replicaVars
           /\ OnCourse(run'[p], rows'[s], server'[s], row'[d], entry', s)
  <1>1. run[p] \in Run
    BY DEF LoneInv, TypeInv, TypeOK, FunnelTypeOK
  <1>2. /\ run'[p].pc = run[p].pc /\ run'[p].mode = run[p].mode /\ run'[p].remote = run[p].remote
        /\ run'[p].imports = run[p].imports /\ run'[p].plan = run[p].plan
        /\ run'[p].contended = run[p].contended /\ run'[p].work = run[p].work /\ run'[p].cur = run[p].cur
    BY <1>1 DEF Run
  <1>3. SeedsOf(run'[p], s) = SeedsOf(run[p], s) /\ UpdatesOf(run'[p], s) = UpdatesOf(run[p], s)
        /\ PushesOf(run'[p], s) = PushesOf(run[p], s)
    BY <1>2 DEF SeedsOf, UpdatesOf, PushesOf
  <1>4. OnCourse(run[p], rows[s], server[s], row[d], entry, s)
    BY DEF LoneInv
  <1>5. UNCHANGED replicaVars
    <2>1. CASE run[p].pc = "done"
      <3>1. rows[s] = row[d] /\ server[s] = entry
        BY <1>4, <2>1 DEF OnCourse
      <3>2. entry' = server[s] /\ row' = [row EXCEPT ![d] = rows[s]] /\ edits' = edits
        BY <1>2, <2>1 DEF Follows
      <3>3. row' = row
        BY <3>1, <3>2 DEF LoneInv
      <3> QED
        BY <3>1, <3>2, <3>3 DEF replicaVars
    <2>2. CASE run[p].pc # "done"
      BY <1>2, <2>2 DEF Follows
    <2> QED
      BY <2>1, <2>2
  <1>6. row' = row /\ entry' = entry
    BY <1>5 DEF replicaVars
  <1>7. PullStands(run[p], rows[s], row[d], entry, s) => PullStands(run'[p], rows[s], row[d], entry, s)
    BY <1>2, <1>3 DEF PullStands
  <1>8. PushStands(run[p], rows[s], server[s], row[d], entry, s) =>
           PushStands(run'[p], rows[s], server[s], row[d], entry, s)
    BY <1>2, <1>3 DEF PushStands
  <1>9. OnCourse(run'[p], rows[s], server[s], row[d], entry, s)
    BY <1>2, <1>4, <1>7, <1>8 DEF OnCourse
  <1> QED
    BY <1>5, <1>6, <1>9

\* Every step keeps the run on course; the last one is Sync, the others leave no trace.
LEMMA LoneStepsTrue ==
    ASSUME NEW p \in Runs, NEW s \in Seeded, NEW d \in Devices,
           IsFiniteSet(Seeded), Cardinality(Seeded) <= ImportCap,
           LoneInv(p, s, d), Next, LoneStep(p, s), Follows(p, s, d)
    PROVE  /\ LoneInv(p, s, d)'
           /\ Sync(d) \/ UNCHANGED replicaVars
  <1> DEFINE Course(old, remote) == OnCourse(run'[p], rows'[s], server'[s], old, remote, s)
  <1>1. /\ TypeInv /\ s \in Shows /\ row[d] \in Row \cup {None} /\ entry \in Entry
        /\ row \in [Devices -> Row \cup {None}]
        /\ OnCourse(run[p], rows[s], server[s], row[d], entry, s)
    BY ShowsAssumption DEF LoneInv
  <1>2. TypeInv'
    BY <1>1, NextType
  <1>3. rows'[s] \in Row \cup {None} /\ server'[s] \in Entry
    BY <1>1, <1>2 DEF TypeInv, TypeOK, FunnelTypeOK
  <1>4. row' \in [Devices -> Row \cup {None}] /\ entry' \in Entry
    BY <1>1, <1>3 DEF Follows, replicaVars
  <1>5. ASSUME Course(row[d], entry), run'[p].pc # "done"
        PROVE  Course(row'[d], entry') /\ UNCHANGED replicaVars
    <2>1. UNCHANGED replicaVars
      BY <1>5 DEF Follows
    <2> QED
      BY <1>5, <2>1 DEF replicaVars
  <1>6. ASSUME RunStep(p) \/ RateLimited(p)
        PROVE  Course(row'[d], entry') /\ (Sync(d) \/ UNCHANGED replicaVars)
    <2> HIDE DEF Course
    <2>1. CASE ReconcilePlan(p)
      <3>1. Course(row[d], entry)
        BY <1>1, <2>1, ReconcileOnCourse DEF Course
      <3>2. run'[p].pc # "done"
        BY <1>1, <2>1 DEF ReconcilePlan, RunBecomes, TypeInv, TypeOK, FunnelTypeOK, Run
      <3> QED
        BY <1>5, <3>1, <3>2
    <2>2. CASE ImportOne(p)
      <3>1. Course(row[d], entry)
        BY <1>1, <2>2, ImportOnCourse DEF Course
      <3>2. run'[p].pc # "done"
        BY <1>1, <2>2 DEF ImportOne, RunBecomes, TypeInv, TypeOK, FunnelTypeOK, Run
      <3> QED
        BY <1>5, <3>1, <3>2
    <2>3. CASE ApplyOne(p)
      <3>1. Course(row[d], entry)
        BY <1>1, <2>3, ApplyOnCourse DEF Course
      <3>2. run'[p].pc # "done"
        BY <1>1, <2>3 DEF ApplyOne, RunBecomes, TypeInv, TypeOK, FunnelTypeOK, Run
      <3> QED
        BY <1>5, <3>1, <3>2
    <2>4. CASE ListDirty(p)
      <3>1. Course(row[d], entry)
        BY <1>1, <2>4, ListOnCourse DEF Course
      <3>2. run'[p].pc # "done"
        BY <1>1, <2>4 DEF ListDirty, RunBecomes, TypeInv, TypeOK, FunnelTypeOK, Run
      <3> QED
        BY <1>5, <3>1, <3>2
    <2>5. CASE GuardHolds(p)
      <3>1. Course(row[d], entry)
        BY <1>1, <2>5, HoldOnCourse DEF Course
      <3>2. run'[p].pc # "done"
        BY <1>1, <2>5 DEF GuardHolds, HoldBack, Past, RunBecomes, TypeInv, TypeOK, FunnelTypeOK, Run
      <3> QED
        BY <1>5, <3>1, <3>2
    <2>6. CASE SaveEntry(p)
      <3>1. Course(row[d], entry)
        BY <1>1, <2>6, SaveOnCourse DEF Course
      <3>2. run'[p].pc # "done"
        BY <1>1, <2>6 DEF SaveEntry, Overtaken, TypeInv, TypeOK, FunnelTypeOK, Run
      <3> QED
        BY <1>5, <3>1, <3>2
    <2>7. CASE MarkRow(p)
      <3>1. Course(row[d], entry)
        BY <1>1, <2>7, MarkOnCourse DEF Course
      <3>2. run'[p].pc # "done"
        BY <1>1, <2>7 DEF MarkRow, HoldBack, Past, RunBecomes, TypeInv, TypeOK, FunnelTypeOK, Run
      <3> QED
        BY <1>5, <3>1, <3>2
    <2>8. CASE FetchList(p) \/ ImportsDone(p) \/ AppliesDone(p)
      <3>1. Course(row[d], entry) /\ run'[p].pc # "done"
        BY <1>1, <2>8, PassOnCourse DEF Course
      <3> QED
        BY <1>5, <3>1
    <2>9. CASE GuardPasses(p) \/ RateLimited(p)
      <3>1. Course(row[d], entry) /\ run'[p].pc # "done"
        BY <1>1, <2>9, RetryOnCourse DEF Course
      <3> QED
        BY <1>5, <3>1
    <2>10. CASE PushDone(p)
      BY <1>1, <2>10, DoneIsSynced DEF Course
    <2> QED
      BY <1>6, <2>1, <2>2, <2>3, <2>4, <2>5, <2>6, <2>7, <2>8, <2>9, <2>10 DEF RunStep
  <1>7. Course(row'[d], entry') /\ (Sync(d) \/ UNCHANGED replicaVars)
    <2>1. CASE RunStep(p) \/ RateLimited(p)
      BY <1>6, <2>1
    <2>2. CASE /\ rows'[s] = rows[s] /\ server'[s] = server[s]
               /\ run'[p] = [run[p] EXCEPT !.raced = run'[p].raced, !.stale = run'[p].stale]
      BY <1>1, <2>2, OthersOnCourse
    <2> QED
      BY <2>1, <2>2 DEF LoneStep
  <1> QED
    BY <1>2, <1>4, <1>7 DEF LoneInv

\* A full run that nobody disturbs at show s, and whose cap has room for every seed,
\* pulls, merges and pushes as if in one step, whatever happens to all other shows
\* meanwhile: run_sync refines the Sync that Replicas builds on (src/sync.rs).
THEOREM SyncIsOneStep ==
    ASSUME NEW CONSTANT p \in Runs, NEW CONSTANT s \in Seeded, NEW CONSTANT d \in Devices,
           IsFiniteSet(Seeded), Cardinality(Seeded) <= ImportCap
    PROVE  LoneSync(p, s, d) => [][Sync(d)]_replicaVars
  <1>1. TypeInv /\ run[p] = Started("full") /\ Untouched(rows[s])
        /\ row \in [Devices -> Row \cup {None}] /\ row[d] = rows[s] /\ entry = server[s]
          => LoneInv(p, s, d)
    <2> SUFFICES ASSUME TypeInv, run[p] = Started("full"), Untouched(rows[s]),
                        row \in [Devices -> Row \cup {None}], row[d] = rows[s], entry = server[s]
                 PROVE  LoneInv(p, s, d)
      OBVIOUS
    <2>1. s \in Shows
      BY ShowsAssumption
    <2>2. entry \in Entry
      BY <2>1 DEF TypeInv, TypeOK, FunnelTypeOK
    <2>3. /\ run[p].pc = "fetch" /\ run[p].mode = "full" /\ run[p].imports = {} /\ run[p].plan = {}
          /\ run[p].contended = {} /\ run[p].work = {} /\ run[p].cur = None
      BY DEF Started, Idle
    <2>4. OnCourse(run[p], rows[s], server[s], row[d], entry, s)
      BY <2>3 DEF OnCourse, Pushing
    <2> QED
      BY <2>2, <2>4 DEF LoneInv
  <1>2. LoneInv(p, s, d) /\ [Next /\ LoneStep(p, s) /\ Follows(p, s, d)]_<<vars, replicaVars>>
          => LoneInv(p, s, d)'
    <2>1. ASSUME LoneInv(p, s, d), Next, LoneStep(p, s), Follows(p, s, d)
          PROVE  LoneInv(p, s, d)'
      BY <2>1, LoneStepsTrue
    <2>2. ASSUME LoneInv(p, s, d), UNCHANGED <<vars, replicaVars>>
          PROVE  LoneInv(p, s, d)'
      BY <2>2 DEF LoneInv, TypeInv, TypeOK, FunnelTypeOK, CurSet, vars, replicaVars
    <2> QED
      BY <2>1, <2>2
  <1>3. LoneInv(p, s, d) /\ [Next /\ LoneStep(p, s) /\ Follows(p, s, d)]_<<vars, replicaVars>>
          => [Sync(d)]_replicaVars
    <2>1. ASSUME LoneInv(p, s, d), Next, LoneStep(p, s), Follows(p, s, d)
          PROVE  Sync(d) \/ UNCHANGED replicaVars
      BY <2>1, LoneStepsTrue
    <2> QED
      BY <2>1
  <1> QED
    BY <1>1, <1>2, <1>3, PTL DEF LoneSync
=============================================================================
