---------------------------- MODULE ThreadProofs ----------------------------
(***************************************************************************)
(* The event loop's drains and the token file, for any number of threads   *)
(* and of logins; the player for every number of attempts and positions,   *)
(* and the skips in it for every answer of the community database and      *)
(* every play of the viewer's keys; and what stands on the screen at the   *)
(* user's word: a search, the toasts, the settings.                        *)
(***************************************************************************)
EXTENDS Runtime, Login, Mpv, Search, Induction, Notices, Preferences, TLAPS,
    FiniteSetTheorems, SequenceTheorems

Loop == {"wait", "burst", "clock", "draw"}

\* Every begin is before its spawn and every end after the last post.
CountsAlive == \A f \in Families : count[f] = Cardinality(Alive(f))

\* No drain has returned while the loop runs, and the last sync is spawned before
\* the drain of the syncs.
InPlace ==
    /\ pc \in Loop => clean = {}
    /\ "sync" \in clean => pc \in {"encode", "done"}

\* Who sleeps has work to wait for, or a notification on its way.
Attended ==
    asleep => /\ pc \in Families
              /\ count[pc] = 0 => \E t \in Threads : thread[t] = [family |-> pc, phase |-> "finished"]

RuntimeInv == RuntimeTypeOK /\ CountsAlive /\ InPlace /\ DrainSettles /\ Attended

-----------------------------------------------------------------------------
\* The threads of a family are finitely many, and as many as the count can tell.
LEMMA AliveFinite ==
    ASSUME NEW f
    PROVE  /\ IsFiniteSet(Alive(f))
           /\ Cardinality(Alive(f)) \in 0 .. Cardinality(Threads)
  <1>1. Alive(f) \in SUBSET Threads
    BY DEF Alive
  <1> QED
    BY <1>1, FS_Subset, FS_CardinalityType, RuntimeAssumption

\* There are two threads at least: the program has its input and encode threads.
LEMMA TwoThreads ==
    /\ (CHOOSE t \in Threads : TRUE) \in Threads
    /\ \A input \in Threads : (CHOOSE t \in Threads \ {input} : TRUE) \in Threads \ {input}
  <1>1. Threads # {}
    BY FS_EmptySet, RuntimeAssumption
  <1>2. ASSUME NEW input \in Threads
        PROVE  Threads \ {input} # {}
    <2>1. Cardinality(Threads \ {input}) = Cardinality(Threads) - 1
      BY FS_RemoveElement, RuntimeAssumption
    <2>2. Cardinality(Threads) \in Nat /\ Cardinality(Threads) >= 2
      BY FS_CardinalityType, RuntimeAssumption
    <2> QED
      BY <2>1, <2>2, FS_EmptySet
  <1> QED
    BY <1>1, <1>2

LEMMA RuntimeInitGood ==
    ASSUME RuntimeInit
    PROVE  RuntimeInv
  <1> DEFINE input  == CHOOSE t \in Threads : TRUE
             encode == CHOOSE t \in Threads \ {input} : TRUE
  <1>1. input \in Threads /\ encode \in Threads /\ encode # input
    BY TwoThreads
  <1>2. thread = [t \in Threads |-> CASE t = input  -> Running("input")
                                      [] t = encode -> Running("encode")
                                      [] OTHER      -> Idle]
    BY DEF RuntimeInit
  <1> HIDE DEF input, encode
  <1>3. thread \in [Threads -> Thread \cup {Idle}]
    BY <1>2 DEF Thread, Idle, Running, Families
  <1>4. /\ Alive("input") = {input} /\ Alive("encode") = {encode}
        /\ Alive("work") = {} /\ Alive("sync") = {}
    BY <1>1, <1>2 DEF Alive, Running, Idle
  <1>5. CountsAlive
    BY <1>4, FS_EmptySet, FS_Singleton DEF CountsAlive, RuntimeInit, Families
  <1>6. \A f \in Families : count[f] \in 0 .. Cardinality(Threads)
    BY <1>5, AliveFinite DEF CountsAlive
  <1>7. RuntimeTypeOK
    <2>1. count \in [Families -> 0 .. Cardinality(Threads)]
      BY <1>6 DEF RuntimeInit
    <2>2. 0 \in 0 .. PassBudget /\ 0 \in 0 .. MaxQueue
      BY RuntimeAssumption
    <2> QED
      BY <1>3, <2>1, <2>2 DEF RuntimeTypeOK, RuntimeInit
  <1> QED
    BY <1>5, <1>7 DEF RuntimeInv, InPlace, DrainSettles, Attended, RuntimeInit

\* A spawn counts itself in before the thread is there.
LEMMA SpawnGood ==
    ASSUME RuntimeInv, NEW t \in Threads, NEW f \in Families, Spawn(t, f)
    PROVE  /\ thread' \in [Threads -> Thread \cup {Idle}]
           /\ count' \in [Families -> 0 .. Cardinality(Threads)]
           /\ CountsAlive'
           /\ \A g \in Families : g # f => Alive(g)' = Alive(g)
  <1> USE DEF RuntimeInv, RuntimeTypeOK
  <1>1. thread' \in [Threads -> Thread \cup {Idle}]
    BY DEF Spawn, Running, Thread
  <1>2. Alive(f)' = Alive(f) \cup {t} /\ t \notin Alive(f)
    BY DEF Spawn, Running, Alive, Idle
  <1>3. \A g \in Families : g # f => Alive(g)' = Alive(g)
    BY DEF Spawn, Running, Alive, Idle, Families
  <1>4. \A g \in Families : count'[g] = IF g = f THEN count[f] + 1 ELSE count[g]
    BY DEF Spawn
  <1>5. Cardinality(Alive(f)') = Cardinality(Alive(f)) + 1
    BY <1>2, AliveFinite, FS_AddElement
  <1>6. CountsAlive'
    BY <1>3, <1>4, <1>5 DEF CountsAlive
  <1>7. \A g \in Families : Alive(g)' \in SUBSET Threads
    BY DEF Alive
  <1>8. \A g \in Families : Cardinality(Alive(g)') \in 0 .. Cardinality(Threads)
    BY <1>7, FS_Subset, FS_CardinalityType, RuntimeAssumption
  <1>9. count' \in [Families -> 0 .. Cardinality(Threads)]
    <2>1. count' = [g \in Families |-> count'[g]]
      BY DEF Spawn
    <2>2. \A g \in Families : count'[g] \in 0 .. Cardinality(Threads)
      BY <1>6, <1>8 DEF CountsAlive
    <2> QED
      BY <2>1, <2>2
  <1> QED
    BY <1>1, <1>3, <1>6, <1>9

\* The drains follow one another as mod.rs lists them.
LEMMA DrainOrder ==
    /\ Following("input") = "work" /\ Following("work") = "flush"
    /\ Following("sync") = "encode" /\ Following("encode") = "done"
  <1>1. DOMAIN Drained = 1 .. 7
    BY DEF Drained
  <1>2. \A i \in 1 .. 7 : /\ Drained[i] = "input" => i = 1
                          /\ Drained[i] = "work" => i = 2
                          /\ Drained[i] = "sync" => i = 5
                          /\ Drained[i] = "encode" => i = 6
    BY DEF Drained
  <1>3. /\ Drained[1] = "input" /\ Drained[2] = "work" /\ Drained[3] = "flush"
        /\ Drained[5] = "sync" /\ Drained[6] = "encode" /\ Drained[7] = "done"
    BY DEF Drained
  <1>4. \A label : \A k \in 1 .. 7 :
            ((\A i \in 1 .. 7 : Drained[i] = label => i = k) /\ Drained[k] = label)
            => (CHOOSE i \in DOMAIN Drained : Drained[i] = label) = k
    BY <1>1
  <1> DEFINE Place(label) == CHOOSE i \in DOMAIN Drained : Drained[i] = label
  <1>5. Place("input") = 1 /\ Place("work") = 2 /\ Place("sync") = 5 /\ Place("encode") = 6
    BY <1>2, <1>3, <1>4
  <1>6. \A label : Following(label) = Drained[1 + Place(label)]
    BY DEF Following
  <1> HIDE DEF Place
  <1> QED
    BY <1>3, <1>5, <1>6

LEMMA RuntimePlaces ==
    {Drained[i] : i \in DOMAIN Drained} =
        {"input", "work", "flush", "release", "sync", "encode", "done"}
  <1>1. DOMAIN Drained = 1 .. 7
    BY DEF Drained
  <1>2. 1 .. 7 = {1, 2, 3, 4, 5, 6, 7}
    OBVIOUS
  <1>3. /\ Drained[1] = "input" /\ Drained[2] = "work" /\ Drained[3] = "flush"
        /\ Drained[4] = "release" /\ Drained[5] = "sync" /\ Drained[6] = "encode"
        /\ Drained[7] = "done"
    BY DEF Drained
  <1> QED
    BY <1>1, <1>2, <1>3

\* A step that leaves the threads and their counts alone.
LEMMA MoveGood ==
    ASSUME RuntimeInv, UNCHANGED <<thread, count, clean>>,
           pc' \in Loop \cup {"input", "work", "flush", "release", "sync", "encode", "done"},
           budget' \in 0 .. PassBudget, quit' \in BOOLEAN, queue' \in 0 .. MaxQueue,
           asleep' \in BOOLEAN, asleep' => asleep /\ pc' = pc,
           pc' \in Loop => pc \in Loop,
           pc \in {"encode", "done"} => pc' \in {"encode", "done"}
    PROVE  RuntimeInv'
  <1>1. \A f : Alive(f)' = Alive(f)
    BY DEF Alive
  <1>2. RuntimeTypeOK'
    BY RuntimePlaces DEF RuntimeInv, RuntimeTypeOK, Loop
  <1>3. CountsAlive' /\ DrainSettles'
    BY <1>1 DEF RuntimeInv, CountsAlive, DrainSettles
  <1>4. InPlace' /\ Attended'
    BY DEF RuntimeInv, InPlace, Attended
  <1> QED
    BY <1>2, <1>3, <1>4 DEF RuntimeInv

\* A handler in the loop, where no drain has returned and none sleeps.
LEMMA HandlerGood ==
    ASSUME RuntimeInv, pc \in Loop, Handler, UNCHANGED <<asleep, clean>>
    PROVE  /\ quit' \in BOOLEAN
           /\ thread' \in [Threads -> Thread \cup {Idle}]
           /\ count' \in [Families -> 0 .. Cardinality(Threads)]
           /\ CountsAlive' /\ DrainSettles' /\ clean' = {} /\ ~asleep'
  <1>1. clean' = {} /\ ~asleep'
    BY DEF RuntimeInv, InPlace, Attended, Loop, Families
  <1>2. CASE UNCHANGED <<quit, thread, count>>
    BY <1>1, <1>2 DEF RuntimeInv, RuntimeTypeOK, CountsAlive, DrainSettles, Alive
  <1>3. CASE \E t \in Threads, f \in {"work", "sync"} : Spawn(t, f) /\ UNCHANGED quit
    BY <1>1, <1>3, SpawnGood DEF RuntimeInv, RuntimeTypeOK, DrainSettles, Families
  <1>4. CASE quit' = TRUE /\ UNCHANGED <<thread, count>>
    BY <1>1, <1>4 DEF RuntimeInv, RuntimeTypeOK, CountsAlive, DrainSettles, Alive
  <1> QED
    BY <1>2, <1>3, <1>4 DEF Handler

\* The steps of the UI thread.
LEMMA UiStepGood ==
    ASSUME RuntimeInv, UiStep
    PROVE  RuntimeInv'
  <1> USE RuntimeAssumption DEF RuntimeInv
  <1>1. CASE Receive
    <2> USE <1>1 DEF Receive, Goto
    <2>1. CASE quit
      BY <2>1, MoveGood DEF RuntimeTypeOK, Attended, Loop, Families
    <2>2. CASE ~quit /\ queue > 0
      <3>1. /\ pc \in Loop /\ pc' = "burst" /\ budget' = PassBudget /\ queue' = queue - 1
            /\ Handler /\ UNCHANGED <<asleep, clean>>
        BY <2>2 DEF Loop
      <3>2. queue' \in 0 .. MaxQueue
        BY <2>2, <3>1 DEF RuntimeTypeOK
      <3> QED
        BY <3>1, <3>2, HandlerGood DEF RuntimeTypeOK, InPlace, Attended
    <2>3. CASE ~quit /\ ~(queue > 0)
      BY <2>3, MoveGood DEF RuntimeTypeOK, Attended, Loop, Families
    <2> QED
      BY <2>1, <2>2, <2>3
  <1>2. CASE Burst
    <2> USE <1>2 DEF Burst, Goto
    <2>1. CASE budget > 0 /\ ~quit /\ queue > 0
      <3>1. /\ pc \in Loop /\ pc' = pc /\ budget' = budget - 1 /\ queue' = queue - 1
            /\ Handler /\ UNCHANGED <<asleep, clean>>
        BY <2>1 DEF Loop, BudgetSpent
      <3>2. queue' \in 0 .. MaxQueue /\ budget' \in 0 .. PassBudget
        BY <2>1, <3>1 DEF RuntimeTypeOK
      <3> QED
        BY <3>1, <3>2, HandlerGood DEF RuntimeTypeOK, InPlace, Attended
    <2>2. CASE ~(budget > 0 /\ ~quit /\ queue > 0)
      BY <2>2, MoveGood DEF RuntimeTypeOK, Attended, Loop, Families
    <2> QED
      BY <2>1, <2>2
  <1>3. CASE Clock
    <2>1. /\ pc \in Loop /\ pc' = "draw" /\ Handler
          /\ UNCHANGED <<budget, queue, asleep, clean>>
      BY <1>3 DEF Clock, Goto, Loop
    <2> QED
      BY <2>1, HandlerGood DEF RuntimeTypeOK, InPlace, Attended
  <1>4. CASE Draw
    BY <1>4, MoveGood DEF Draw, Goto, RuntimeTypeOK, Attended, Loop, Families
  <1>5. CASE DrainChecks
    <2> USE <1>5 DEF DrainChecks, DrainStays
    <2>1. CASE count[pc] = 0
      <3>1. Alive(pc) = {}
        BY <2>1, AliveFinite, FS_EmptySet DEF CountsAlive
      <3>2. DrainSettles'
        BY <2>1, <3>1 DEF DrainSettles, Alive
      <3>3. pc' = Following(pc) /\ clean' = clean \cup {pc} /\ UNCHANGED asleep
        BY <2>1
      <3>4. /\ pc = "input" => pc' = "work"
            /\ pc = "work" => pc' = "flush"
            /\ pc = "sync" => pc' = "encode"
            /\ pc = "encode" => pc' = "done"
        BY <3>3, DrainOrder
      <3>5. InPlace'
        BY <3>3, <3>4 DEF InPlace, Loop, Families
      <3>6. RuntimeTypeOK'
        BY <3>3, <3>4 DEF RuntimeTypeOK, Families, Drained
      <3> QED
        BY <3>2, <3>3, <3>5, <3>6 DEF CountsAlive, Alive, Attended
    <2>2. CASE count[pc] # 0
      BY <2>2 DEF RuntimeTypeOK, CountsAlive, Alive, InPlace, DrainSettles, Attended
    <2> QED
      BY <2>1, <2>2
  <1>6. CASE QuitFlush
    <2>1. pc = "flush" /\ pc' = "release" /\ ~asleep /\ UNCHANGED <<budget, quit, queue, asleep, clean>>
      BY <1>6 DEF QuitFlush, Attended, Families
    <2>2. "sync" \notin clean
      BY <2>1 DEF InPlace
    <2>3. CASE UNCHANGED <<thread, count>>
      BY <2>1, <2>3, MoveGood DEF RuntimeTypeOK, Loop
    <2>4. CASE \E t \in Threads : Spawn(t, "sync")
      <3>1. PICK t \in Threads : Spawn(t, "sync")
        BY <2>4
      <3>2. "sync" \in Families
        BY DEF Families
      <3>3. /\ thread' \in [Threads -> Thread \cup {Idle}]
            /\ count' \in [Families -> 0 .. Cardinality(Threads)]
            /\ CountsAlive'
            /\ \A g \in Families : g # "sync" => Alive(g)' = Alive(g)
        BY <3>1, <3>2, SpawnGood
      <3>4. DrainSettles'
        BY <2>1, <2>2, <3>3 DEF DrainSettles, RuntimeTypeOK
      <3> QED
        BY <2>1, <3>3, <3>4 DEF RuntimeTypeOK, InPlace, Attended, Loop, Drained
    <2> QED
      BY <1>6, <2>3, <2>4 DEF QuitFlush
  <1>7. CASE Release
    BY <1>7, MoveGood DEF Release, RuntimeTypeOK, Attended, Loop, Families
  <1> QED
    BY <1>1, <1>2, <1>3, <1>4, <1>5, <1>6, <1>7 DEF UiStep

\* The steps of the threads.
LEMMA ThreadStepGood ==
    ASSUME RuntimeInv, NEW t \in Threads, Answers(t) \/ Finishes(t) \/ Chatter(t) \/ Notifies(t)
    PROVE  RuntimeInv'
  <1> USE RuntimeAssumption DEF RuntimeInv
  <1>1. CASE Answers(t)
    <2>1. /\ thread[t] \in Thread /\ thread[t].phase = "running"
          /\ thread' = [thread EXCEPT ![t] = [family |-> thread[t].family, phase |-> "posted"]]
          /\ UNCHANGED <<pc, budget, quit, count, asleep, clean>>
      <3>1. thread[t] \in Thread \cup {Idle} /\ thread[t].phase = "running"
        BY <1>1 DEF Answers, At, RuntimeTypeOK
      <3>2. thread[t] \in Thread
        BY <3>1 DEF Idle
      <3>3. [thread[t] EXCEPT !.phase = "posted"] = [family |-> thread[t].family, phase |-> "posted"]
        BY <3>2 DEF Thread
      <3> QED
        BY <1>1, <3>1, <3>2, <3>3 DEF Answers
    <2>2. thread' \in [Threads -> Thread \cup {Idle}]
      BY <2>1 DEF RuntimeTypeOK, Thread
    <2>3. queue' \in 0 .. MaxQueue
      BY <1>1 DEF Answers, Post, RuntimeTypeOK
    <2>4. \A f : Alive(f)' = Alive(f)
      BY <2>1 DEF Alive, RuntimeTypeOK
    <2>5. Attended'
      BY <2>1 DEF Attended, RuntimeTypeOK
    <2> QED
      BY <2>1, <2>2, <2>3, <2>4, <2>5 DEF RuntimeTypeOK, CountsAlive, InPlace, DrainSettles
  <1>2. CASE Finishes(t)
    <2>1. PICK f \in Families :
          /\ thread[t] = [family |-> f, phase |-> "posted"]
          /\ thread' = [thread EXCEPT ![t] = [family |-> f, phase |-> "finished"]]
          /\ count' = [count EXCEPT ![f] = count[f] - 1]
          /\ UNCHANGED <<pc, budget, quit, queue, asleep, clean>>
      <3>1. thread[t] \in Thread \cup {Idle} /\ thread[t].phase = "posted"
        BY <1>2 DEF Finishes, At, RuntimeTypeOK
      <3>2. thread[t] \in Thread
        BY <3>1 DEF Idle
      <3>3. PICK f \in Families :
            /\ thread[t] = [family |-> f, phase |-> "posted"]
            /\ [thread[t] EXCEPT !.phase = "finished"] = [family |-> f, phase |-> "finished"]
        BY <3>1, <3>2 DEF Thread
      <3> QED
        BY <1>2, <3>3 DEF Finishes
    <2>2. thread' \in [Threads -> Thread \cup {Idle}]
      BY <2>1 DEF RuntimeTypeOK, Thread
    <2>3. Alive(f)' = Alive(f) \ {t} /\ t \in Alive(f)
      <3>1. \A u \in Threads : thread'[u] = IF u = t THEN [family |-> f, phase |-> "finished"] ELSE thread[u]
        BY <2>1 DEF RuntimeTypeOK
      <3>2. thread'[t].phase = "finished" /\ t \in Alive(f)
        BY <2>1, <3>1 DEF Alive
      <3> QED
        BY <3>1, <3>2 DEF Alive
    <2>4. ASSUME NEW g, g # f
          PROVE  Alive(g)' = Alive(g)
      <3>1. \A u \in Threads : thread'[u] = IF u = t THEN [family |-> f, phase |-> "finished"] ELSE thread[u]
        BY <2>1 DEF RuntimeTypeOK
      <3>2. t \notin Alive(g) /\ t \notin Alive(g)'
        BY <2>1, <2>4, <3>1 DEF Alive
      <3> QED
        BY <3>1, <3>2 DEF Alive
    <2>5. Cardinality(Alive(f)') = Cardinality(Alive(f)) - 1
      BY <2>3, AliveFinite, FS_RemoveElement
    <2>6. CountsAlive'
      <3>1. \A g \in Families : count'[g] = IF g = f THEN count[f] - 1 ELSE count[g]
        BY <2>1 DEF RuntimeTypeOK
      <3>2. count[f] = Cardinality(Alive(f)) /\ count'[f] = Cardinality(Alive(f)')
        BY <2>1, <2>5, <3>1 DEF CountsAlive
      <3>3. ASSUME NEW g \in Families
            PROVE  count'[g] = Cardinality(Alive(g)')
        <4>1. CASE g = f
          BY <3>2, <4>1
        <4>2. CASE g # f
          BY <2>4, <3>1, <4>2 DEF CountsAlive
        <4> QED
          BY <4>1, <4>2
      <3> QED
        BY <3>3 DEF CountsAlive
    <2>7. \A g \in Families : count'[g] \in 0 .. Cardinality(Threads)
      <3>1. \A g \in Families : Alive(g)' \in SUBSET Threads
        BY DEF Alive
      <3>2. \A g \in Families : Cardinality(Alive(g)') \in 0 .. Cardinality(Threads)
        BY <3>1, FS_Subset, FS_CardinalityType, RuntimeAssumption
      <3> QED
        BY <2>6, <3>2 DEF CountsAlive
    <2>8. count' \in [Families -> 0 .. Cardinality(Threads)]
      BY <2>1, <2>7 DEF RuntimeTypeOK
    <2>9. DrainSettles'
      BY <2>1, <2>3, <2>4 DEF DrainSettles
    <2>10. Attended'
      <3>1. CASE pc = f
        BY <2>1, <3>1 DEF Attended, RuntimeTypeOK
      <3>2. CASE pc # f
        <4>1. asleep => count'[pc] = count[pc]
          BY <2>1, <3>2 DEF Attended, RuntimeTypeOK
        <4>2. ASSUME NEW u \in Threads, thread[u] = [family |-> pc, phase |-> "finished"]
              PROVE  thread'[u] = thread[u]
          BY <2>1, <4>2 DEF RuntimeTypeOK
        <4> QED
          BY <2>1, <4>1, <4>2 DEF Attended
      <3> QED
        BY <3>1, <3>2
    <2> QED
      BY <2>1, <2>2, <2>6, <2>8, <2>9, <2>10 DEF RuntimeTypeOK, InPlace
  <1>3. CASE Chatter(t)
    BY <1>3 DEF Chatter, RuntimeTypeOK, CountsAlive, Alive, InPlace, DrainSettles, Attended
  <1>4. CASE Notifies(t)
    <2> DEFINE f == thread[t].family
    <2>1. /\ f \in Families /\ thread[t] = [family |-> f, phase |-> "finished"]
          /\ thread' = [thread EXCEPT ![t] = Idle]
          /\ asleep' = (asleep /\ ~Wakes(f))
          /\ UNCHANGED <<pc, budget, quit, queue, count, clean>>
      BY <1>4 DEF Notifies, At, RuntimeTypeOK, Thread, Idle
    <2> HIDE DEF f
    <2>2. \A g : Alive(g)' = Alive(g)
      BY <2>1 DEF Alive, RuntimeTypeOK, Idle
    <2>3. asleep' \in BOOLEAN /\ (asleep' => asleep /\ f # pc)
      BY <2>1 DEF Wakes
    <2>4. Attended'
      <3>1. ASSUME NEW u \in Threads, thread[u] = [family |-> pc, phase |-> "finished"], asleep'
            PROVE  thread'[u] = thread[u]
        BY <2>1, <2>3, <3>1 DEF RuntimeTypeOK
      <3> QED
        BY <2>1, <2>3, <3>1 DEF Attended
    <2> QED
      BY <2>1, <2>2, <2>3, <2>4 DEF RuntimeTypeOK, CountsAlive, InPlace, DrainSettles
  <1> QED
    BY <1>1, <1>2, <1>3, <1>4

LEMMA RuntimeNextGood ==
    ASSUME RuntimeInv, [RuntimeNext]_runtimeVars
    PROVE  RuntimeInv'
  <1>1. CASE Signal
    BY <1>1, MoveGood DEF Signal, RuntimeInv, RuntimeTypeOK, Loop, Drained
  <1>2. CASE Deadline
    <2>1. /\ pc \in Families /\ pc' = Following(pc) /\ asleep' = FALSE
          /\ UNCHANGED <<budget, quit, queue, thread, count, clean>>
      BY <1>2 DEF Deadline, DrainStays
    <2>2. /\ pc = "input" => pc' = "work"
          /\ pc = "work" => pc' = "flush"
          /\ pc = "sync" => pc' = "encode"
          /\ pc = "encode" => pc' = "done"
      BY <2>1, DrainOrder
    <2> QED
      BY <2>1, <2>2, MoveGood DEF RuntimeInv, RuntimeTypeOK, Loop, Families
  <1>3. CASE Gone \/ UNCHANGED runtimeVars
    BY <1>3, RuntimePlaces, MoveGood DEF Gone, runtimeVars, RuntimeInv, RuntimeTypeOK, Loop
  <1>4. CASE UiStep
    BY <1>4, UiStepGood
  <1>5. CASE ThreadStep \/ \E t \in Threads : Notifies(t)
    BY <1>5, ThreadStepGood DEF ThreadStep
  <1> QED
    BY <1>1, <1>2, <1>3, <1>4, <1>5 DEF RuntimeNext

-----------------------------------------------------------------------------
\* The threads of the program, their counts and the drains at the UI thread keep
\* their types and the invariant, whatever the OS grants (Drain, tui/workers.rs).
THEOREM RuntimeTypeCorrect == RuntimeSpec => []RuntimeTypeOK
  <1>1. RuntimeInit => RuntimeInv
    BY RuntimeInitGood
  <1>2. RuntimeInv /\ [RuntimeNext]_runtimeVars => RuntimeInv'
    BY RuntimeNextGood
  <1>3. RuntimeInv => RuntimeTypeOK
    BY DEF RuntimeInv
  <1> QED
    BY <1>1, <1>2, <1>3, PTL DEF RuntimeSpec

\* A drain that returned true was right and stays right, however workers answer,
\* finish and are spawned around it; and it never sleeps through the last of them
\* (Drain::begin, drop of the guard, Drain::drain).
THEOREM DrainsAreSound == RuntimeSpec => []DrainsSound
  <1>1. RuntimeInit => RuntimeInv
    BY RuntimeInitGood
  <1>2. RuntimeInv /\ [RuntimeNext]_runtimeVars => RuntimeInv'
    BY RuntimeNextGood
  <1>3. RuntimeInv => DrainsSound
    <2>1. ASSUME RuntimeInv, Awaited
          PROVE  FALSE
      <3>1. PICK t \in Threads : thread[t] = [family |-> pc, phase |-> "finished"]
        BY <2>1 DEF RuntimeInv, Attended, Awaited
      <3> QED
        BY <2>1, <3>1 DEF Awaited, At
    <2> QED
      BY <2>1 DEF RuntimeInv, DrainsSound, NoLostWakeup
  <1> QED
    BY <1>1, <1>2, <1>3, PTL DEF RuntimeSpec

-----------------------------------------------------------------------------
(***************************************************************************)
(* The token file.                                                         *)
(***************************************************************************)
Saving == {"saving", "creating", "writing", "swapping"}

\* A login past its callback holds its own token, one past its verification a
\* confirmed one; the files hold nothing else.
TokensConfirmed ==
    /\ \A l \in Logins : /\ worker[l] \in Saving => l \in verified
                         /\ worker[l] = "verifying" \/ l \in verified => token[l] = "own"
    /\ {tmpFile, authFile} \subseteq verified \cup {0}

LoginInv == LoginTypeOK /\ TokensConfirmed

\* A login that ends goes nowhere else, and reports one result.
LEMMA EndsGood ==
    ASSUME LoginTypeOK, NEW l \in Logins, NEW r \in Failures \cup {"Ok"}, Ends(l, r)
    PROVE  /\ worker' = [worker EXCEPT ![l] = "gone"]
           /\ port' \in Logins \cup {0}
           /\ toldModal' \subseteq AppLogins \X (Failures \cup {"Ok"})
  BY DEF Ends, LoginGoes, LoginTypeOK

\* Nothing but a worker's place, its port and its report changes.
LEMMA PlaceGood ==
    ASSUME LoginInv, NEW l \in Logins,
           NEW at \in {"waiting", "creating", "writing", "swapping", "gone"},
           worker' = [worker EXCEPT ![l] = at],
           at \in Saving => worker[l] \in Saving,
           port' \in Logins \cup {0},
           toldModal' \subseteq AppLogins \X (Failures \cup {"Ok"}),
           UNCHANGED <<token, verified>>,
           {tmpFile', authFile'} \subseteq {tmpFile, authFile, 0} \cup verified,
           whole' \subseteq verified,
           canceled' \subseteq AppLogins, modal' \in AppLogins \cup {0},
           signedIn' \in Logins \cup {0}, leaving' \in BOOLEAN
    PROVE  LoginInv'
  <1>1. {tmpFile', authFile'} \subseteq verified \cup {0} /\ verified \subseteq Logins
    BY DEF LoginInv, LoginTypeOK, TokensConfirmed
  <1>2. LoginTypeOK'
    BY <1>1 DEF LoginInv, LoginTypeOK
  <1>3. TokensConfirmed'
    BY <1>1 DEF LoginInv, LoginTypeOK, TokensConfirmed, Saving
  <1> QED
    BY <1>2, <1>3 DEF LoginInv

\* The steps of complete_login.
LEMMA LoginStepGood ==
    ASSUME LoginInv, NEW l \in Logins,
           \/ LoginWork(l) \/ ListenerFails(l) \/ Pastes(l)
           \/ \E whose \in {"own", "stranger"} : AcceptsDial(l, whose)
    PROVE  LoginInv'
  <1> USE DEF LoginInv
  <1>1. CASE Unblocks(l)
    BY <1>1, PlaceGood DEF Unblocks, LoginAt, LoginGoes, modalVars, disk, LoginTypeOK, Saving
  <1>2. CASE Verifies(l)
    <2>1. CASE \E r \in {"Rejected", "NetworkError"} : Ends(l, r) /\ UNCHANGED verified
      BY <1>2, <2>1, EndsGood, PlaceGood
         DEF Verifies, LoginAt, modalVars, disk, LoginTypeOK, Failures, Saving
    <2>2. CASE LoginGoes(l, "saving") /\ verified' = verified \cup {l} /\ UNCHANGED <<port, toldModal>>
      <3>1. /\ worker[l] = "verifying" /\ worker' = [worker EXCEPT ![l] = "saving"]
            /\ verified' = verified \cup {l}
            /\ UNCHANGED <<port, toldModal, token, tmpFile, authFile, whole, modal, canceled,
                           signedIn, leaving>>
        BY <1>2, <2>2 DEF Verifies, LoginAt, LoginGoes, modalVars, disk
      <3>2. LoginTypeOK'
        BY <3>1 DEF LoginTypeOK
      <3>3. TokensConfirmed'
        BY <3>1 DEF LoginTypeOK, TokensConfirmed, Saving
      <3> QED
        BY <3>2, <3>3
    <2> QED
      BY <1>2, <2>1, <2>2 DEF Verifies
  <1>3. CASE Saves(l)
    BY <1>3, PlaceGood DEF Saves, LoginAt, LoginGoes, modalVars, LoginTypeOK, Saving
  <1>4. CASE Creates(l)
    <2>1. l \in verified
      BY <1>4 DEF Creates, LoginAt, TokensConfirmed, Saving
    <2>2. CASE tmpFile = 0
      BY <1>4, <2>1, <2>2, PlaceGood DEF Creates, LoginAt, LoginGoes, modalVars, LoginTypeOK, Saving
    <2>3. CASE tmpFile # 0
      BY <1>4, <2>3, EndsGood, PlaceGood DEF Creates, LoginAt, modalVars, LoginTypeOK, Failures, Saving
    <2> QED
      BY <2>2, <2>3
  <1>5. CASE WritesToken(l)
    <2>1. l \in verified
      BY <1>5 DEF WritesToken, LoginAt, TokensConfirmed, Saving
    <2>2. CASE LoginGoes(l, "swapping") /\ whole' = whole \cup {l} /\ UNCHANGED <<port, toldModal>>
      BY <1>5, <2>1, <2>2, PlaceGood
         DEF WritesToken, LoginAt, LoginGoes, modalVars, LoginTypeOK, Saving
    <2>3. CASE Ends(l, "SaveFailed") /\ UNCHANGED whole
      BY <1>5, <2>3, EndsGood, PlaceGood
         DEF WritesToken, LoginAt, modalVars, LoginTypeOK, Failures, Saving
    <2> QED
      BY <1>5, <2>2, <2>3 DEF WritesToken
  <1>6. CASE Swaps(l)
    BY <1>6, EndsGood, PlaceGood DEF Swaps, LoginAt, modalVars, LoginTypeOK, Failures, Saving
  <1>7. CASE ListenerFails(l)
    BY <1>7, EndsGood, PlaceGood
       DEF ListenerFails, LoginAt, modalVars, disk, LoginTypeOK, Failures, Saving
  <1>8. ASSUME NEW whose \in {"own", "stranger"}, LoginAt(l, "waiting"), UNCHANGED <<verified, disk>>,
               \/ whose = "own" /\ LoginGoes(l, "verifying") /\ token' = [token EXCEPT ![l] = whose]
                  /\ UNCHANGED <<port, toldModal>>
               \/ Ends(l, "NoToken") /\ UNCHANGED token
        PROVE  LoginInv'
    <2>1. CASE Ends(l, "NoToken") /\ UNCHANGED token
      BY <1>8, <2>1, EndsGood, PlaceGood DEF LoginAt, modalVars, disk, LoginTypeOK, Failures, Saving
    <2>2. CASE /\ LoginGoes(l, "verifying") /\ token' = [token EXCEPT ![l] = "own"]
               /\ UNCHANGED <<port, toldModal>>
      <3>1. /\ worker' = [worker EXCEPT ![l] = "verifying"] /\ token' = [token EXCEPT ![l] = "own"]
            /\ UNCHANGED <<port, toldModal, verified, tmpFile, authFile, whole, modal, canceled,
                           signedIn, leaving>>
        BY <1>8, <2>2 DEF LoginAt, LoginGoes, modalVars, disk
      <3>2. LoginTypeOK'
        BY <3>1 DEF LoginTypeOK
      <3>3. TokensConfirmed'
        BY <3>1 DEF LoginTypeOK, TokensConfirmed, Saving
      <3> QED
        BY <3>2, <3>3
    <2> QED
      BY <1>8, <2>1, <2>2
  <1>9. CASE Pastes(l)
    BY <1>8, <1>9 DEF Pastes
  <1>10. CASE \E whose \in {"own", "stranger"} : AcceptsDial(l, whose)
    BY <1>8, <1>10 DEF AcceptsDial, OwnState
  <1> QED
    BY <1>1, <1>2, <1>3, <1>4, <1>5, <1>6, <1>7, <1>9, <1>10 DEF LoginWork

\* The modal, the command line and the teardown.
LEMMA ModalStepGood ==
    ASSUME LoginInv,
           \/ \E l \in AppLogins : OpenConnect(l)
           \/ \E l \in CliLogins : RunLogin(l) \/ KillLogin(l)
           \/ CancelConnect \/ ConnectAnswered \/ LeaveApp \/ UNCHANGED loginVars
    PROVE  LoginInv'
  <1> USE DEF LoginInv
  <1>1. ASSUME NEW l \in AppLogins, OpenConnect(l)
        PROVE  LoginInv'
    <2>1. l \in Logins
      BY DEF Logins
    <2>2. /\ UNCHANGED <<token, verified, tmpFile, authFile, whole, toldModal, canceled, signedIn, leaving>>
          /\ worker' \in {[worker EXCEPT ![l] = "waiting"], [worker EXCEPT ![l] = "gone"]}
          /\ modal' \in AppLogins \cup {0} /\ port' \in Logins \cup {0}
      BY <1>1, <2>1 DEF OpenConnect, ConnectRefused, LoginGoes, disk, LoginTypeOK
    <2>3. "waiting" \notin Saving /\ "gone" \notin Saving
      BY DEF Saving
    <2> QED
      BY <2>1, <2>2, <2>3, PlaceGood DEF LoginTypeOK
  <1>2. ASSUME NEW l \in CliLogins, RunLogin(l)
        PROVE  LoginInv'
    BY <1>2, PlaceGood DEF RunLogin, LoginGoes, modalVars, disk, LoginTypeOK, Logins, Saving
  <1>3. ASSUME NEW l \in CliLogins, KillLogin(l)
        PROVE  LoginInv'
    BY <1>3, PlaceGood DEF KillLogin, LoginGoes, modalVars, disk, LoginTypeOK, Logins, Saving
  <1>4. CASE CancelConnect \/ ConnectAnswered \/ LeaveApp \/ UNCHANGED loginVars
    <2>1. UNCHANGED <<worker, port, token, verified, tmpFile, authFile, whole>>
      BY <1>4 DEF CancelConnect, ConnectAnswered, LeaveApp, loginVars, disk
    <2>2. LoginTypeOK'
      BY <1>4, <2>1 DEF CancelConnect, ConnectAnswered, LeaveApp, ShutdownConnect, loginVars, disk,
                        modalVars, LoginTypeOK
    <2>3. TokensConfirmed'
      BY <2>1 DEF TokensConfirmed
    <2> QED
      BY <2>2, <2>3
  <1> QED
    BY <1>1, <1>2, <1>3, <1>4

LEMMA LoginInductive ==
    /\ LoginInit => LoginInv
    /\ LoginInv /\ [LoginNext]_loginVars => LoginInv'
  <1>1. LoginInit => LoginInv
    BY DEF LoginInit, LoginInv, LoginTypeOK, TokensConfirmed, Saving
  <1>2. ASSUME LoginInv, [LoginNext]_loginVars
        PROVE  LoginInv'
    BY <1>2, LoginStepGood, ModalStepGood DEF LoginNext
  <1> QED
    BY <1>1, <1>2

\* The logins, their files and the modal keep their types, whatever races.
THEOREM LoginTypeCorrect == LoginSpec => []LoginTypeOK
  <1>1. LoginInv => LoginTypeOK
    BY DEF LoginInv
  <1> QED
    BY <1>1, LoginInductive, PTL DEF LoginSpec

\* However the logins of two processes race for the port, the temporary file and the
\* token file, it only ever holds a token AniList has confirmed for the login that
\* asked for it (complete_login, Auth::save).
THEOREM OnlyVerifiedTokens == LoginSpec => []OnlyVerified
  <1>1. LoginInv => OnlyVerified
    BY DEF LoginInv, TokensConfirmed, LoginTypeOK, OnlyVerified
  <1> QED
    BY <1>1, LoginInductive, PTL DEF LoginSpec

-----------------------------------------------------------------------------
(***************************************************************************)
(* The play: the proxy is up around mpv, its watcher reads the pipe to the *)
(* end or is cut off, and the judgement comes after both.                  *)
(***************************************************************************)
Listening == {"check", "accept", "recheck"}
Silent == {"none", "gone"}

MpvRecords ==
    /\ proc \in [state : {"none", "alive", "exited"}, code : 0 .. 2, sock : BOOLEAN]
    /\ watch \in [state : {"none", "connecting", "reading", "ended", "cut"}, tries : 0 .. ConnectTries]
    /\ verdict \in [kind : {"none", "ok", "resolve", "unsafe", "proxy", "argv", "spawn", "wait", "open_failed", "exit"},
                    pos : 0 .. MaxPos]
    /\ cloaked \in BOOLEAN
    /\ watch.state = "connecting" => watch.tries < ConnectTries
    /\ phase = "backoff" => round < MaxAttempts

\* The proxy is engaged before mpv is spawned and is stopped after mpv has exited.
ProxyAround ==
    /\ MpvAlive => phase = "running"
    /\ phase \in {"engaged", "running"} =>
           IF cloaked THEN ~shut /\ loop \in Listening ELSE loop = "none"
    /\ phase \in {"judge", "backoff", "resolve", "done"} => loop \in Silent

\* What lies in the pipe are the positions between what was read and what was written.
PipeInOrder ==
    /\ pipe \in Seq(Nat) /\ Len(pipe) = reported - seen
    /\ \A i \in 1 .. Len(pipe) : pipe[i] = seen + i
    /\ watch.state \notin {"reading", "cut"} => pipe = <<>>

\* The judgement comes after the watcher, and only after it is there a verdict.
JudgedOnce ==
    /\ phase \in {"resolve", "engaged", "running", "backoff"} => verdict = NoVerdict
    /\ phase \in Stopping \cup {"judge"} /\ verdict = NoVerdict => watch.state \in {"ended", "cut"}
    /\ verdict.kind = "ok" =>
           phase = "done" /\ verdict.pos = seen /\ (watch.state # "cut" => verdict.pos = reported)
    /\ phase = "backoff" => seen = 0 /\ (watch.state # "cut" => reported = 0)

MpvInv == MpvTypeOK /\ MpvRecords /\ ProxyAround /\ PipeInOrder /\ JudgedOnce

-----------------------------------------------------------------------------
LEMMA MpvInitGood ==
    ASSUME MpvInit
    PROVE  MpvInv
  <1>1. 0 \in 0 .. ConnectTries /\ 0 \in 0 .. MaxPos /\ 1 \in 1 .. MaxAttempts /\ 0 \in 0 .. MaxHandlers
    BY MpvAssumption
  <1>2. MpvTypeOK
    BY <1>1 DEF MpvInit, MpvTypeOK
  <1>3. MpvRecords
    <2>1. watch.state # "connecting" /\ phase # "backoff"
      BY DEF MpvInit
    <2>4. cloaked \in BOOLEAN
      BY DEF MpvInit
    <2>5. proc \in [state : {"none", "alive", "exited"}, code : 0 .. 2, sock : BOOLEAN]
      <3>1. proc = [state |-> "none", code |-> 0, sock |-> FALSE] /\ 0 \in 0 .. 2
        BY DEF MpvInit
      <3> QED
        BY ONLY <3>1
    <2>2. watch \in [state : {"none", "connecting", "reading", "ended", "cut"}, tries : 0 .. ConnectTries]
      BY <1>1 DEF MpvInit
    <2>3. verdict.kind = "none" /\ verdict.pos = 0 /\ verdict = [kind |-> "none", pos |-> 0]
      BY DEF MpvInit, NoVerdict
    <2> QED
      BY <1>1, <2>1, <2>2, <2>3, <2>4, <2>5 DEF MpvRecords
  <1>4. ProxyAround
    BY DEF MpvInit, ProxyAround, MpvAlive, Silent
  <1>5. PipeInOrder
    BY DEF MpvInit, PipeInOrder
  <1>6. JudgedOnce
    BY DEF MpvInit, JudgedOnce, NoVerdict, Stopping
  <1> QED
    BY <1>2, <1>3, <1>4, <1>5, <1>6 DEF MpvInv

\* The worker's steps.
LEMMA WorkerGood ==
    ASSUME MpvInv, WorkerStep
    PROVE  MpvInv' /\ (round' # round => seen = 0 /\ (watch.state # "cut" => reported = 0))
  <1> USE DEF MpvInv, Stopping
  <1>1. CASE WorkerRefused
    <2> USE <1>1 DEF WorkerRefused, Fault, procVars, watchVars, proxyVars
    <2>1. PICK why \in {"resolve", "unsafe", "proxy"} : verdict' = Fault(why)
      OBVIOUS
    <2>2. verdict'.kind = why /\ verdict'.pos = 0 /\ verdict' # NoVerdict
      BY <2>1 DEF NoVerdict
    <2>3. MpvTypeOK' /\ MpvRecords'
      BY <2>1, <2>2, MpvAssumption DEF MpvTypeOK, MpvRecords
    <2>4. ProxyAround' /\ PipeInOrder' /\ JudgedOnce'
      BY <2>2 DEF ProxyAround, PipeInOrder, JudgedOnce, MpvAlive, Silent
    <2> QED
      BY <2>3, <2>4
  <1>2. CASE Engage
    <2> USE <1>2 DEF Engage, procVars, watchVars, proxyVars
    <2>1. MpvTypeOK' /\ MpvRecords'
      BY DEF MpvTypeOK, MpvRecords
    <2>2. ProxyAround'
      BY DEF ProxyAround, MpvAlive, Listening
    <2>3. PipeInOrder' /\ JudgedOnce'
      BY DEF PipeInOrder, JudgedOnce
    <2> QED
      BY <2>1, <2>2, <2>3
  <1>3. CASE SpawnFails
    <2> USE <1>3 DEF SpawnFails, Fault, procVars, watchVars, proxyVars
    <2>1. PICK why \in {"argv", "spawn"} : verdict' = Fault(why)
      OBVIOUS
    <2>2. verdict'.kind = why /\ verdict'.pos = 0 /\ verdict' # NoVerdict
      BY <2>1 DEF NoVerdict
    <2>3. phase' \in {"flag", "judge"} /\ (phase' = "judge" => ~cloaked)
      BY DEF AfterScope
    <2>4. MpvTypeOK' /\ MpvRecords'
      BY <2>1, <2>2, <2>3, MpvAssumption DEF MpvTypeOK, MpvRecords
    <2>5. ProxyAround' /\ PipeInOrder' /\ JudgedOnce'
      BY <2>2, <2>3 DEF ProxyAround, PipeInOrder, JudgedOnce, MpvAlive, Silent, MpvRecords
    <2> QED
      BY <2>4, <2>5
  <1>4. CASE SpawnMpv
    <2> USE <1>4 DEF SpawnMpv, procVars, watchVars, proxyVars
    <2>1. MpvTypeOK' /\ MpvRecords'
      BY MpvAssumption DEF MpvTypeOK, MpvRecords
    <2>2. ProxyAround' /\ JudgedOnce'
      BY DEF ProxyAround, MpvAlive, Listening, JudgedOnce, NoVerdict
    <2>3. PipeInOrder'
      BY DEF PipeInOrder
    <2> QED
      BY <2>1, <2>2, <2>3
  <1>5. CASE Waited
    <2> USE <1>5 DEF Waited, procVars, watchVars, proxyVars
    <2>1. phase' \in {"flag", "judge"} /\ (phase' = "judge" => ~cloaked)
      BY DEF AfterScope
    <2>4. verdict = NoVerdict /\ verdict' \in {NoVerdict, [kind |-> "wait", pos |-> 0]}
      BY DEF JudgedOnce, Fault
    <2>5. verdict'.kind \in {"none", "wait"} /\ verdict'.pos = 0
      BY <2>4 DEF NoVerdict
    <2>2. MpvTypeOK' /\ MpvRecords'
      BY <2>1, <2>4, MpvAssumption DEF MpvTypeOK, MpvRecords, NoVerdict
    <2>3. ProxyAround' /\ PipeInOrder' /\ JudgedOnce'
      BY <2>1, <2>5 DEF ProxyAround, PipeInOrder, JudgedOnce, MpvAlive, Silent, MpvRecords, WatcherJoined
    <2> QED
      BY <2>2, <2>3
  <1>6. CASE Stop
    <2> USE <1>6 DEF Stop, procVars, watchVars, proxyVars
    <2>1. /\ phase \in Stopping /\ phase' \in Stopping \cup {"judge"}
          /\ phase' = "judge" => loop = "gone"
      BY DEF MpvTypeOK
    <2>2. MpvTypeOK' /\ MpvRecords'
      BY <2>1 DEF MpvTypeOK, MpvRecords
    <2>3. ProxyAround' /\ PipeInOrder' /\ JudgedOnce'
      BY <2>1 DEF ProxyAround, PipeInOrder, JudgedOnce, MpvAlive, Silent
    <2> QED
      BY <2>2, <2>3
  <1>7. CASE Judge
    <2> USE <1>7 DEF Judge, procVars, watchVars, proxyVars
    <2>1. verdict = NoVerdict /\ watch.state # "cut" => seen = reported
      BY DEF JudgedOnce, PipeInOrder, MpvTypeOK
    <2>2. \/ verdict # NoVerdict /\ phase' = "done" /\ verdict' = verdict
          \/ /\ verdict = NoVerdict /\ verdict' = verdict
             /\ phase' = "backoff" /\ seen = 0 /\ round < MaxAttempts
          \/ /\ verdict = NoVerdict /\ phase' = "done"
             /\ verdict' \in {Fault("open_failed"), Fault("exit"), Played(seen)}
      BY DEF OpenFailed, AnotherTry
    <2>3. MpvTypeOK' /\ MpvRecords'
      BY <2>2, MpvAssumption DEF MpvTypeOK, MpvRecords, NoVerdict, Fault, Played
    <2>4. ProxyAround' /\ PipeInOrder'
      BY <2>2 DEF ProxyAround, PipeInOrder, MpvAlive
    <2>5. JudgedOnce'
      BY <2>1, <2>2 DEF JudgedOnce, NoVerdict, Fault, Played
    <2> QED
      BY <2>3, <2>4, <2>5
  <1>8. CASE Backoff
    <2> USE <1>8 DEF Backoff, procVars, watchVars, proxyVars
    <2>1. MpvTypeOK' /\ MpvRecords'
      BY MpvAssumption DEF MpvTypeOK, MpvRecords
    <2>2. ProxyAround' /\ PipeInOrder' /\ JudgedOnce'
      BY DEF ProxyAround, PipeInOrder, JudgedOnce, MpvAlive, Silent
    <2> QED
      BY <2>1, <2>2 DEF JudgedOnce
  <1>9. round' # round => Backoff
    BY DEF WorkerStep, WorkerRefused, Engage, SpawnFails, SpawnMpv, Waited, Stop, Judge
  <1> QED
    BY <1>1, <1>2, <1>3, <1>4, <1>5, <1>6, <1>7, <1>8, <1>9 DEF WorkerStep, Backoff, JudgedOnce

\* The steps of mpv, of the watcher and of the proxy's threads.
LEMMA OthersGood ==
    ASSUME MpvInv,
           \/ WatcherStep \/ AcceptLoop \/ HandlerEnds
           \/ WatchCut \/ BindSocket \/ Advance \/ ExitMpv \/ MpvDials
    PROVE  MpvInv' /\ round' = round
  <1> USE DEF MpvInv, Stopping
  <1>1. CASE ConnectTry
    <2> USE <1>1 DEF ConnectTry, procVars, watchVars, proxyVars
    <2>1. /\ watch' \in [state : {"connecting", "reading", "ended"}, tries : 0 .. ConnectTries]
          /\ watch'.state = "connecting" => watch'.tries < ConnectTries
      BY MpvAssumption DEF MpvRecords
    <2>2. MpvTypeOK' /\ MpvRecords'
      BY <2>1 DEF MpvTypeOK, MpvRecords
    <2>3. ProxyAround' /\ PipeInOrder' /\ JudgedOnce'
      BY DEF ProxyAround, PipeInOrder, JudgedOnce, MpvAlive, NoVerdict
    <2> QED
      BY <2>2, <2>3
  <1>2. CASE ReadPosition
    <2> USE <1>2 DEF ReadPosition, procVars, watchVars, proxyVars
    <2>1. /\ Head(pipe) = pipe[1] /\ Len(pipe) \in Nat \ {0} /\ Tail(pipe) \in Seq(Nat)
          /\ Len(Tail(pipe)) = Len(pipe) - 1
          /\ \A i \in 1 .. Len(pipe) - 1 : Tail(pipe)[i] = pipe[i + 1]
      BY HeadTailProperties, EmptySeq DEF PipeInOrder
    <2>2. seen' = seen + 1
      BY <2>1 DEF PipeInOrder
    <2>3. PipeInOrder'
      <3>1. ASSUME NEW i \in 1 .. Len(pipe')
            PROVE  pipe'[i] = seen' + i
        <4>1. i \in 1 .. Len(pipe) - 1 /\ i + 1 \in 1 .. Len(pipe)
          BY <2>1, <3>1
        <4> QED
          BY <4>1, <2>1, <2>2 DEF PipeInOrder, MpvTypeOK
      <3>2. pipe' \in Seq(Nat) /\ watch'.state = "reading"
        BY <2>1
      <3>3. Len(pipe') = reported' - seen'
        <4>1. Len(pipe) = reported - seen /\ reported \in Nat /\ seen \in Nat
          BY MpvAssumption DEF PipeInOrder, MpvTypeOK
        <4>2. reported' = reported /\ pipe' = Tail(pipe)
          OBVIOUS
        <4> QED
          BY ONLY <4>1, <4>2, <2>1, <2>2
      <3> QED
        BY <3>1, <3>2, <3>3 DEF PipeInOrder
    <2>4. seen' \in 0 .. MaxPos
      <3>1. Len(pipe) = reported - seen
        BY DEF PipeInOrder
      <3>2. reported \in 0 .. MaxPos /\ seen \in 0 .. MaxPos
        BY DEF MpvTypeOK
      <3> QED
        BY ONLY <2>1, <2>2, <3>1, <3>2, MpvAssumption
    <2>6. MpvTypeOK' /\ MpvRecords'
      BY <2>4 DEF MpvTypeOK, MpvRecords
    <2>5. reported # seen
      <3>1. Len(pipe) = reported - seen /\ reported \in Nat /\ seen \in Nat
        BY MpvAssumption DEF PipeInOrder, MpvTypeOK
      <3> QED
        BY ONLY <2>1, <3>1
    <2>7. verdict.kind # "ok" /\ phase # "backoff"
      BY <2>5 DEF JudgedOnce
    <2>8. ProxyAround'
      BY DEF ProxyAround, MpvAlive
    <2>9. JudgedOnce'
      BY <2>7 DEF JudgedOnce
    <2> QED
      BY <2>3, <2>6, <2>8, <2>9
  <1>3. CASE ReadEof
    <2> USE <1>3 DEF ReadEof, procVars, watchVars, proxyVars
    <2>1. watch' = [state |-> "ended", tries |-> watch.tries]
      BY DEF MpvRecords
    <2>2. MpvTypeOK' /\ MpvRecords'
      BY <2>1 DEF MpvTypeOK, MpvRecords
    <2>3. ProxyAround' /\ PipeInOrder' /\ JudgedOnce'
      BY <2>1 DEF ProxyAround, PipeInOrder, JudgedOnce, MpvAlive, NoVerdict
    <2> QED
      BY <2>2, <2>3
  <1>10. CASE WatchCut
    <2> USE <1>10 DEF WatchCut, procVars, watchVars, proxyVars
    <2>1. watch' = [state |-> "cut", tries |-> watch.tries]
      BY DEF MpvRecords
    <2>2. MpvTypeOK' /\ MpvRecords'
      BY <2>1 DEF MpvTypeOK, MpvRecords
    <2>3. ProxyAround' /\ PipeInOrder' /\ JudgedOnce'
      BY <2>1 DEF ProxyAround, PipeInOrder, JudgedOnce, MpvAlive, NoVerdict
    <2> QED
      BY <2>2, <2>3
  <1>4. CASE AcceptLoop
    <2> USE <1>4 DEF AcceptLoop, procVars, watchVars, proxyVars
    <2>1. /\ loop \in Listening /\ loop' \in Listening \cup {"gone"}
          /\ ~shut => loop' # "gone"
      BY DEF Listening
    <2>2. serving' \in 0 .. MaxHandlers
      <3>1. serving' = serving \/ (serving < MaxHandlers /\ serving' = serving + 1) \/ serving' = serving + 0
        OBVIOUS
      <3> QED
        BY <3>1, MpvAssumption DEF MpvTypeOK
    <2>3. MpvTypeOK' /\ MpvRecords'
      BY <2>1, <2>2 DEF MpvTypeOK, MpvRecords, Listening
    <2>4. ProxyAround' /\ PipeInOrder' /\ JudgedOnce'
      BY <2>1 DEF ProxyAround, PipeInOrder, JudgedOnce, MpvAlive, Listening, Silent
    <2> QED
      BY <2>3, <2>4
  <1>5. CASE HandlerEnds
    <2> USE <1>5 DEF HandlerEnds, procVars, watchVars, proxyVars
    <2>1. MpvTypeOK' /\ MpvRecords'
      BY MpvAssumption DEF MpvTypeOK, MpvRecords
    <2>2. ProxyAround' /\ PipeInOrder' /\ JudgedOnce'
      BY DEF ProxyAround, PipeInOrder, JudgedOnce, MpvAlive
    <2> QED
      BY <2>1, <2>2
  <1>6. CASE BindSocket
    <2> USE <1>6 DEF BindSocket, MpvAlive, procVars, watchVars, proxyVars
    <2>1. proc' = [state |-> "alive", code |-> proc.code, sock |-> TRUE]
      BY DEF MpvRecords
    <2>4. proc.code \in 0 .. 2
      BY DEF MpvRecords
    <2>2. MpvTypeOK'
      BY <2>1, <2>4 DEF MpvTypeOK
    <2>5. MpvRecords'
      BY <2>1, <2>4 DEF MpvRecords
    <2>3. ProxyAround' /\ PipeInOrder' /\ JudgedOnce'
      BY <2>1 DEF ProxyAround, PipeInOrder, JudgedOnce
    <2> QED
      BY <2>2, <2>3, <2>5
  <1>7. CASE Advance
    <2> USE <1>7 DEF Advance, procVars, watchVars, proxyVars
    <2>1. phase = "running"
      BY DEF ProxyAround
    <2>2. reported \in 0 .. MaxPos /\ reported' = reported + 1 /\ reported' \in 0 .. MaxPos /\ seen \in 0 .. MaxPos
      BY MpvAssumption DEF MpvTypeOK
    <2>3. PipeInOrder'
      <3>4. pipe \in Seq(Nat) /\ reported + 1 \in Nat /\ pipe' = Append(pipe, reported + 1)
        BY <2>2 DEF PipeInOrder
      <3>1. /\ pipe' \in Seq(Nat) /\ Len(pipe') = Len(pipe) + 1
            /\ \A i \in 1 .. Len(pipe) : pipe'[i] = pipe[i]
            /\ pipe'[Len(pipe) + 1] = reported + 1
        BY ONLY <3>4, AppendProperties
      <3>2. Len(pipe) \in Nat
        BY LenProperties DEF PipeInOrder
      <3>3. ASSUME NEW i \in 1 .. Len(pipe')
            PROVE  pipe'[i] = seen' + i
        <4>1. i \in 1 .. Len(pipe) \/ i = Len(pipe) + 1
          BY <3>1, <3>2, <3>3
        <4>2. Len(pipe) = reported - seen /\ \A j \in 1 .. Len(pipe) : pipe[j] = seen + j
          BY DEF PipeInOrder
        <4>3. seen' = seen
          OBVIOUS
        <4> QED
          BY ONLY <4>1, <4>2, <4>3, <3>1, <3>2, <2>2
      <3> QED
        BY <3>1, <3>2, <3>3, <2>2 DEF PipeInOrder
    <2>4. MpvTypeOK' /\ MpvRecords'
      BY <2>1, <2>2 DEF MpvTypeOK, MpvRecords
    <2>5. ProxyAround' /\ JudgedOnce'
      BY <2>1 DEF ProxyAround, JudgedOnce, MpvAlive, NoVerdict
    <2> QED
      BY <2>3, <2>4, <2>5
  <1>8. CASE ExitMpv
    <2> USE <1>8 DEF ExitMpv, procVars, watchVars, proxyVars
    <2>1. MpvTypeOK' /\ MpvRecords'
      BY DEF MpvTypeOK, MpvRecords
    <2>2. ProxyAround' /\ PipeInOrder' /\ JudgedOnce'
      BY DEF ProxyAround, PipeInOrder, JudgedOnce, MpvAlive
    <2> QED
      BY <2>1, <2>2
  <1>9. CASE MpvDials
    <2> USE <1>9 DEF MpvDials, procVars, watchVars, proxyVars
    <2>1. MpvTypeOK' /\ MpvRecords'
      BY DEF MpvTypeOK, MpvRecords
    <2>2. ProxyAround' /\ PipeInOrder' /\ JudgedOnce'
      BY DEF ProxyAround, PipeInOrder, JudgedOnce, MpvAlive
    <2> QED
      BY <2>1, <2>2
  <1> QED
    BY <1>1, <1>2, <1>3, <1>4, <1>5, <1>6, <1>7, <1>8, <1>9, <1>10
    DEF WatcherStep, ConnectTry, ReadPosition, ReadEof, WatchCut, AcceptLoop, HandlerEnds, BindSocket, Advance, ExitMpv, MpvDials

LEMMA MpvNextGood ==
    ASSUME MpvInv, [MpvNext]_mpvVars
    PROVE  MpvInv' /\ [round' # round => seen = 0 /\ (watch.state # "cut" => reported = 0)]_mpvVars
  <1>1. CASE WorkerStep
    BY <1>1, WorkerGood
  <1>2. CASE \/ WatcherStep \/ AcceptLoop \/ HandlerEnds
             \/ WatchCut \/ BindSocket \/ Advance \/ ExitMpv \/ MpvDials
    BY <1>2, OthersGood
  <1>3. CASE UNCHANGED mpvVars
    BY <1>3 DEF MpvInv, MpvTypeOK, MpvRecords, ProxyAround, PipeInOrder, JudgedOnce, mpvVars, MpvAlive
  <1> QED
    BY <1>1, <1>2, <1>3 DEF MpvNext

\* The last position of every play that its watcher could read reaches its judgement, the
\* judgement is one, and the proxy is there as long as mpv is (player.rs, proxy.rs).
THEOREM PlaysAreKept == MpvSpec => PlayKept
  <1>1. MpvInit => MpvInv
    BY MpvInitGood
  <1>2. MpvInv /\ [MpvNext]_mpvVars => MpvInv' /\ [round' # round => seen = 0 /\ (watch.state # "cut" => reported = 0)]_mpvVars
    BY MpvNextGood
  <1>3. ASSUME MpvInv
        PROVE  ProxyCovers /\ PositionKept
    <2> USE <1>3
    <2>1. seen <= reported
      <3>1. Len(pipe) \in Nat /\ Len(pipe) = reported - seen
        BY LenProperties DEF MpvInv, PipeInOrder
      <3>2. reported \in 0 .. MaxPos /\ seen \in 0 .. MaxPos /\ MaxPos \in Nat
        BY MpvAssumption DEF MpvInv, MpvTypeOK
      <3> QED
        BY ONLY <3>1, <3>2
    <2> QED
      BY <2>1 DEF MpvInv, ProxyCovers, PositionKept, ProxyAround, JudgedOnce, Listening, Silent
  <1> QED
    BY <1>1, <1>2, <1>3, PTL DEF MpvSpec, PlayKept, NeverReplayed

-----------------------------------------------------------------------------
(***************************************************************************)
(* The skips: a window is entered, announced, then jumped, once.           *)
(***************************************************************************)
Pending == {t.seg : t \in timers}
Forced(s) == touched[s] = "sought"
Enabled(s) == windows[s].from >= 0

\* Windows are wide enough and wanted; before the file nothing is announced.
WindowsWide ==
    /\ windows \in [Segments -> [from : Int, to : Int]]
    /\ \A s \in Segments : windows[s] = Disabled \/ (windows[s].to - windows[s].from >= 5 /\ Wants(s))
    /\ \A i \in DOMAIN answer : answer[i].from \in Int /\ answer[i].to \in Int
    /\ pos = NotLoaded => timers = {} /\ jumped = {} /\ skipped = {}

SkipTypes ==
    /\ pos \in Nat \cup {NotLoaded} /\ seeks \in Nat
    /\ skipped \subseteq Segments /\ jumped \subseteq skipped
    /\ timers \subseteq [seg : Segments, due : 0 .. Announce]
    /\ touched \in [Segments -> {"no", "entered", "sought"}]

\* A segment is announced once, where its window is entered.
AnnouncedOnce ==
    /\ \A t \in timers : t.seg \in skipped /\ t.seg \notin jumped /\ Enabled(t.seg)
    /\ \A t, u \in timers : t.seg = u.seg => t = u
    /\ \A s \in Segments \ skipped :
           /\ touched[s] = "no"
           /\ Loaded /\ Enabled(s) => pos < windows[s].from \/ pos >= windows[s].to

\* Where the picture may be while a skip is pending in which the viewer had no hand:
\* as far from the point of entry as the announcement has lasted, and not before the
\* window as long as another skip may be announced.
Within(t, p) ==
    /\ touched[t.seg] = "no" => p <= windows[t.seg].from + Announce - t.due
    /\ touched[t.seg] = "entered" => p <= windows[t.seg].to - 1 + Announce - t.due

\* What is announced first jumps first, and its window lies before the other's.
InTurn(t, u) == t.due # u.due /\ (t.due < u.due => windows[t.seg].to <= windows[u.seg].from)

InBounds ==
    /\ (\E s \in Pending : Forced(s)) => \A s \in Pending : Forced(s)
    /\ Apart => \A t \in timers : ~Forced(t.seg) =>
           Within(t, pos) /\ (skipped # Segments => pos >= windows[t.seg].from)
    /\ Apart => \A t, u \in timers : t # u /\ ~Forced(t.seg) /\ ~Forced(u.seg) => InTurn(t, u)

SkipInv == WindowsWide /\ SkipTypes /\ AnnouncedOnce /\ InBounds

\* The timers a step leaves pending where it comes to position p by itself.
Carried(rest, p) ==
    /\ \A u \in rest : ~Forced(u.seg) =>
           Within(u, p) /\ (skipped \cup Hits(p) # Segments => p >= windows[u.seg].from)
    /\ \A u, v \in rest : u # v /\ ~Forced(u.seg) /\ ~Forced(v.seg) => InTurn(u, v)
    /\ \A u \in rest : \A s \in Hits(p) :
           ~Forced(u.seg) => u.due < Announce /\ windows[u.seg].to <= windows[s].from
    /\ \A s \in Hits(p) : p <= windows[s].from

LEMMA HitsAre ==
    ASSUME NEW p
    PROVE  \A s : s \in Hits(p) <=>
               s \in Segments /\ s \notin skipped /\ Enabled(s) /\ windows[s].from <= p /\ p < windows[s].to
  BY DEF Hits, HitsAgain, Enabled

\* Every step that sees a position p keeps the invariant, if the timers it leaves
\* pending are in bounds there.
LEMMA SeenGood ==
    ASSUME SkipInv, NEW p \in Nat, NEW seeking \in BOOLEAN, NEW rest,
           rest \subseteq [seg : Segments, due : 0 .. Announce],
           \A u \in rest : u.seg \in Pending,
           \A u, v \in rest : u.seg = v.seg => u = v,
           ~seeking /\ Apart => Carried(rest, p),
           pos' = p, skipped' = skipped \cup Hits(p), timers' = rest \cup Announced(p),
           touched' = Touched(Hits(p), seeking),
           jumped' \subseteq skipped, \A u \in rest : u.seg \notin jumped',
           UNCHANGED <<answer, mode, windows>>, seeks' \in Nat
    PROVE  SkipInv'
  <1> DEFINE hits == Hits(p)
             crossed == {r \in Pending : seeking \/ Forced(r)}
  <1> USE DEF SkipInv
  <1>1. /\ \A s : s \in hits <=> /\ s \in Segments /\ s \notin skipped /\ Enabled(s)
                                 /\ windows[s].from <= p /\ p < windows[s].to
    BY HitsAre
  <1>2. /\ \A t \in timers : t \in [seg : Segments, due : 0 .. Announce]
        /\ Pending \subseteq skipped /\ Pending \subseteq Segments
    BY DEF SkipTypes, AnnouncedOnce, Pending
  <1>3. \A t \in timers' : \/ t \in rest /\ t.seg \in Pending /\ t.seg \notin hits
                           \/ t \notin rest /\ t.seg \in hits /\ t = [seg |-> t.seg, due |-> Announce]
    BY <1>1, <1>2 DEF Announced
  <1>4. \A s \in hits : [seg |-> s, due |-> Announce] \in timers'
    BY DEF Announced
  <1>5. touched' = [s \in Segments |-> IF s \in crossed \/ (s \in hits /\ crossed # {}) THEN "sought"
                                       ELSE IF s \in hits /\ seeking THEN "entered" ELSE touched[s]]
    BY DEF Touched, Pending, Forced
  <1>6. \A s : Enabled(s)' = Enabled(s) /\ windows'[s] = windows[s]
    BY DEF Enabled
  <1> HIDE DEF hits, crossed
  <1>7. WindowsWide'
    BY DEF WindowsWide, Wants, NotLoaded
  <1>8. SkipTypes'
    <2>1. timers' \subseteq [seg : Segments, due : 0 .. Announce]
      BY <1>1, <1>3 DEF Announce
    <2>2. touched' \in [Segments -> {"no", "entered", "sought"}]
      BY <1>5 DEF SkipTypes
    <2>3. skipped' \subseteq Segments /\ jumped' \subseteq skipped'
      BY <1>1 DEF SkipTypes, hits
    <2> QED
      BY <2>1, <2>2, <2>3 DEF SkipTypes
  <1>9. AnnouncedOnce'
    <2>1. \A t \in timers' : t.seg \in skipped' /\ t.seg \notin jumped' /\ Enabled(t.seg)'
      BY <1>1, <1>2, <1>3, <1>6 DEF AnnouncedOnce, Pending, hits
    <2>2. \A t, u \in timers' : t.seg = u.seg => t = u
      BY <1>3
    <2>3. ASSUME NEW s \in Segments \ skipped'
          PROVE  /\ touched'[s] = "no"
                 /\ Loaded' /\ Enabled(s)' => pos' < windows'[s].from \/ pos' >= windows'[s].to
      <3>1. s \notin skipped /\ s \notin hits /\ s \notin crossed /\ s \in Segments
        BY <1>2, <2>3 DEF hits, crossed
      <3>2. touched'[s] = "no"
        BY <1>5, <3>1 DEF AnnouncedOnce
      <3>3. Enabled(s) => ~(windows[s].from <= p /\ p < windows[s].to)
        BY <1>1, <3>1
      <3>4. windows[s].from \in Int /\ windows[s].to \in Int
        BY <3>1 DEF WindowsWide
      <3> QED
        BY <1>6, <3>2, <3>3, <3>4
    <2> QED
      BY <2>1, <2>2, <2>3 DEF AnnouncedOnce
  <1>10. crossed # {} => \A t \in timers' : Forced(t.seg)'
    <2> SUFFICES ASSUME crossed # {}, NEW t \in timers'
                 PROVE  touched'[t.seg] = "sought"
      BY DEF Forced
    <2>1. CASE t.seg \in hits
      BY <1>1, <1>5, <2>1
    <2>2. CASE t.seg \in Pending
      <3>1. t.seg \in crossed
        BY <2>2 DEF crossed, InBounds
      <3> QED
        BY <1>2, <1>5, <2>2, <3>1
    <2> QED
      BY <1>3, <2>1, <2>2
  <1>11. ASSUME crossed = {}
         PROVE  /\ ~seeking \/ rest = {}
                /\ \A r \in Pending : ~Forced(r) /\ touched'[r] = touched[r]
                /\ \A s \in hits : touched'[s] = IF seeking THEN "entered" ELSE "no"
    <2>1. \A r \in Pending : ~seeking /\ ~Forced(r)
      BY <1>11 DEF crossed
    <2>2. \A r \in Pending : r \in Segments /\ r \notin hits
      BY <1>1, <1>2
    <2>3. \A s \in hits : s \in Segments /\ touched[s] = "no"
      BY <1>1 DEF AnnouncedOnce
    <2> QED
      BY <1>5, <1>11, <2>1, <2>2, <2>3
  <1>12. ASSUME crossed = {}
         PROVE  \A t \in timers' : ~Forced(t.seg)'
    BY <1>3, <1>11, <1>12 DEF Forced
  <1>13. ASSUME Apart, crossed = {}, NEW t \in timers'
         PROVE  Within(t, pos)' /\ (skipped' # Segments => pos' >= windows'[t.seg].from)
    <2>1. CASE t \in rest
      <3>1. t.seg \in Pending /\ ~seeking
        BY <1>11, <1>13, <2>1
      <3>2. ~Forced(t.seg) /\ touched'[t.seg] = touched[t.seg]
        BY <1>11, <1>13, <3>1
      <3>3. Within(t, p) /\ (skipped \cup Hits(p) # Segments => p >= windows[t.seg].from)
        BY <1>13, <2>1, <3>1, <3>2 DEF Carried
      <3> QED
        BY <3>2, <3>3 DEF Within
    <2>2. CASE t \notin rest
      <3>1. t.seg \in hits /\ t.due = Announce /\ t.seg \in Segments
        BY <1>1, <1>3, <2>2
      <3>2. /\ windows[t.seg].from \in Int /\ windows[t.seg].to \in Int
            /\ windows[t.seg].from <= p /\ p < windows[t.seg].to
        BY <1>1, <3>1 DEF WindowsWide
      <3>3. ~seeking => p <= windows[t.seg].from
        BY <1>13, <3>1 DEF Carried, hits
      <3>4. touched'[t.seg] = IF seeking THEN "entered" ELSE "no"
        BY <1>11, <1>13, <3>1
      <3> QED
        BY <3>1, <3>2, <3>3, <3>4 DEF Within, Announce
    <2> QED
      BY <2>1, <2>2
  <1>14. ASSUME Apart, crossed = {}, NEW t \in timers', NEW u \in timers', t # u
         PROVE  InTurn(t, u)'
    <2>1. CASE t \in rest /\ u \in rest
      <3>1. ~seeking /\ ~Forced(t.seg) /\ ~Forced(u.seg)
        BY <1>11, <1>14, <2>1
      <3> QED
        BY <1>14, <2>1, <3>1 DEF Carried, InTurn
    <2>2. ASSUME NEW old \in rest, NEW new \in timers', new \notin rest
          PROVE  InTurn(old, new)' /\ InTurn(new, old)'
      <3>1. ~seeking /\ ~Forced(old.seg)
        BY <1>11, <1>14, <2>2
      <3>2. new.seg \in hits /\ new.due = Announce
        BY <1>3, <2>2
      <3>3. old.due < Announce /\ windows[old.seg].to <= windows[new.seg].from
        BY <1>14, <2>2, <3>1, <3>2 DEF Carried, hits
      <3>4. old.due \in Int /\ Announce \in Int
        BY <2>2 DEF Announce
      <3> QED
        BY <3>2, <3>3, <3>4 DEF InTurn, Announce
    <2>3. CASE t \notin rest /\ u \notin rest
      <3>1. t.seg \in hits /\ u.seg \in hits /\ t.seg # u.seg
        BY <1>3, <1>14, <2>3
      <3>2. /\ t.seg \in Segments /\ u.seg \in Segments
            /\ windows[t.seg].from <= p /\ p < windows[t.seg].to
            /\ windows[u.seg].from <= p /\ p < windows[u.seg].to
        BY <1>1, <3>1
      <3>3. windows[t.seg].to <= windows[u.seg].from \/ windows[u.seg].to <= windows[t.seg].from
        BY <1>14, <3>1, <3>2 DEF Apart
      <3>4. {windows[t.seg].from, windows[t.seg].to, windows[u.seg].from, windows[u.seg].to} \subseteq Int
        BY <3>2 DEF WindowsWide
      <3> QED
        BY <3>2, <3>3, <3>4
    <2> QED
      BY <1>14, <2>1, <2>2, <2>3
  <1>15. InBounds'
    <2>1. Apart' <=> Apart
      BY <1>6 DEF Apart
    <2>2. \A s \in Pending' : \E t \in timers' : s = t.seg
      BY DEF Pending
    <2>3. CASE crossed # {}
      <3>1. \A t \in timers' : Forced(t.seg)'
        BY <1>10, <2>3
      <3>2. \A s \in Pending' : Forced(s)'
        BY <2>2, <3>1 DEF Forced
      <3> QED
        BY <3>1, <3>2 DEF InBounds
    <2>4. CASE crossed = {}
      <3>1. \A s \in Pending' : ~Forced(s)'
        BY <1>12, <2>2, <2>4 DEF Forced
      <3> QED
        BY <1>13, <1>14, <2>1, <2>4, <3>1 DEF InBounds
    <2> QED
      BY <2>3, <2>4
  <1> QED
    BY <1>7, <1>8, <1>9, <1>15

LEMMA SkipInitGood ==
    ASSUME SkipInit
    PROVE  SkipInv
  <1>1. \A i \in DOMAIN answer : answer[i].from \in Int /\ answer[i].to \in Int
    <2>1. PICK m \in 0 .. MaxRows : answer \in [1 .. m -> SkipRows]
      BY DEF SkipInit, BoundedSeq, SeqOf
    <2> QED
      BY <2>1, SkipAssumption
  <1> QED
    BY <1>1 DEF SkipInit, SkipInv, WindowsWide, SkipTypes, AnnouncedOnce, InBounds, NoScript, Disabled,
                NotLoaded, Loaded, Pending, Segments

LEMMA FileLoadedGood ==
    ASSUME SkipInv, FileLoaded
    PROVE  SkipInv'
  <1> USE DEF SkipInv
  <1>1. PICK start \in 0 .. LastPos :
            LET hits == {s \in Segments : BuildOpts[s].from <= start /\ start < BuildOpts[s].to}
            IN /\ pos' = start /\ skipped' = hits
               /\ timers' = {[seg |-> s, due |-> Announce] : s \in hits}
               /\ touched' = [s \in Segments |-> IF s \in hits /\ start > BuildOpts[s].from THEN "entered" ELSE "no"]
    BY DEF FileLoaded
  <1> DEFINE hits == {s \in Segments : BuildOpts[s].from <= start /\ start < BuildOpts[s].to}
  <1>2. /\ start \in Nat /\ pos' = start /\ skipped' = hits
        /\ timers' = {[seg |-> s, due |-> Announce] : s \in hits}
        /\ touched' = [s \in Segments |-> IF s \in hits /\ start > BuildOpts[s].from THEN "entered" ELSE "no"]
        /\ windows' = BuildOpts /\ jumped' = {} /\ seeks' = seeks /\ mode' = mode /\ answer' = answer
    BY <1>1, SkipAssumption DEF FileLoaded, WindowsWide
  <1>3. \A s \in Segments : \/ BuildOpts[s] = Disabled
                            \/ /\ BuildOpts[s] \in [from : Int, to : Int] /\ Wants(s)
                               /\ BuildOpts[s].from >= 0 /\ BuildOpts[s].to - BuildOpts[s].from >= 5
    <2> SUFFICES ASSUME NEW s \in Segments, BuildOpts[s] # Disabled
                 PROVE  /\ BuildOpts[s] \in [from : Int, to : Int] /\ Wants(s)
                        /\ BuildOpts[s].from >= 0 /\ BuildOpts[s].to - BuildOpts[s].from >= 5
      OBVIOUS
    <2>1. Wants(s) /\ BuildOpts[s] = TimesOf(s) /\ FirstFit(s) # {}
      BY DEF BuildOpts, TimesOf
    <2> DEFINE i == CHOOSE i \in FirstFit(s) : TRUE
    <2>2. i \in DOMAIN answer /\ RowFits(s, answer[i])
      BY <2>1 DEF FirstFit
    <2>3. BuildOpts[s] = [from |-> answer[i].from, to |-> answer[i].to]
      BY <2>1 DEF TimesOf
    <2> HIDE DEF i
    <2> QED
      BY <2>1, <2>2, <2>3 DEF RowFits, ValidInterval, WindowsWide
  <1>4. /\ \A s : s \in hits <=> s \in Segments /\ BuildOpts[s].from <= start /\ start < BuildOpts[s].to
        /\ \A s \in hits : BuildOpts[s] # Disabled /\ BuildOpts[s].from >= 0 /\ BuildOpts[s].from \in Int /\ BuildOpts[s].to \in Int
    BY <1>2, <1>3 DEF Disabled
  <1>5. BuildOpts \in [Segments -> [from : Int, to : Int]]
    BY <1>3 DEF BuildOpts, Disabled
  <1>6. \A t \in timers' : t.seg \in hits /\ t.due = Announce /\ t = [seg |-> t.seg, due |-> Announce]
    BY <1>2
  <1> HIDE DEF hits
  <1>7. WindowsWide'
    BY <1>2, <1>3, <1>5 DEF WindowsWide, Wants, NotLoaded
  <1>8. SkipTypes'
    <2>1. timers' \subseteq [seg : Segments, due : 0 .. Announce]
      BY <1>4, <1>6 DEF Announce
    <2>2. touched' \in [Segments -> {"no", "entered", "sought"}]
      BY <1>2
    <2> QED
      BY <1>2, <1>4, <2>1, <2>2 DEF SkipTypes
  <1>9. AnnouncedOnce'
    <2>1. \A t \in timers' : t.seg \in skipped' /\ t.seg \notin jumped' /\ Enabled(t.seg)'
      BY <1>2, <1>4, <1>6 DEF Enabled
    <2>2. \A t, u \in timers' : t.seg = u.seg => t = u
      BY <1>6
    <2>3. ASSUME NEW s \in Segments \ skipped'
          PROVE  /\ touched'[s] = "no"
                 /\ Loaded' /\ Enabled(s)' => pos' < windows'[s].from \/ pos' >= windows'[s].to
      <3>1. s \notin hits /\ BuildOpts[s].from \in Int /\ BuildOpts[s].to \in Int
        BY <1>2, <1>5, <2>3
      <3> QED
        BY <1>2, <1>4, <3>1
    <2> QED
      BY <2>1, <2>2, <2>3 DEF AnnouncedOnce
  <1>10. InBounds'
    <2>1. \A s \in Pending' : ~Forced(s)'
      <3>1. \A s \in Pending' : s \in Segments
        BY <1>4, <1>6 DEF Pending
      <3> QED
        BY <1>2, <3>1 DEF Forced
    <2>2. ASSUME NEW t \in timers'
          PROVE  Within(t, pos)' /\ pos' >= windows'[t.seg].from
      <3>1. /\ t.seg \in hits /\ t.seg \in Segments /\ t.due = Announce
            /\ BuildOpts[t.seg].from \in Int /\ BuildOpts[t.seg].to \in Int
            /\ BuildOpts[t.seg].from <= start /\ start < BuildOpts[t.seg].to
        BY <1>4, <1>6
      <3>2. touched'[t.seg] = IF start > BuildOpts[t.seg].from THEN "entered" ELSE "no"
        BY <1>2, <3>1
      <3> QED
        BY <1>2, <3>1, <3>2 DEF Within, Announce
    <2>3. ASSUME Apart', NEW t \in timers', NEW u \in timers', t # u
          PROVE  FALSE
      <3>1. t.seg \in hits /\ u.seg \in hits /\ t.seg # u.seg
        BY <1>6, <2>3
      <3>2. BuildOpts[t.seg].to <= BuildOpts[u.seg].from \/ BuildOpts[u.seg].to <= BuildOpts[t.seg].from
        BY <1>2, <1>4, <2>3, <3>1 DEF Apart
      <3> QED
        BY <1>2, <1>4, <3>1, <3>2
    <2> QED
      BY <2>1, <2>2, <2>3 DEF InBounds
  <1> QED
    BY <1>7, <1>8, <1>9, <1>10

\* The announcements a tick later.
LEMMA LaterAre ==
    ASSUME SkipInv, NothingDue
    PROVE  /\ Later \subseteq [seg : Segments, due : 0 .. Announce]
           /\ \A u \in Later : \E t \in timers : u.seg = t.seg /\ u.due = t.due - 1 /\ t.due \in 1 .. Announce
           /\ \A u, v \in Later : u.seg = v.seg => u = v
           /\ \A u \in Later : u.seg \in Pending /\ u.seg \notin jumped /\ u.seg \in skipped
  <1>1. \A t \in timers : /\ t \in [seg : Segments, due : 0 .. Announce] /\ t.due \in 1 .. Announce
                          /\ [t EXCEPT !.due = @ - 1] = [seg |-> t.seg, due |-> t.due - 1]
    BY DEF SkipInv, SkipTypes, NothingDue, Announce
  <1>2. \A u \in Later : \E t \in timers : u = [seg |-> t.seg, due |-> t.due - 1]
    BY <1>1 DEF Later
  <1>3. ASSUME NEW u \in Later
        PROVE  /\ \E t \in timers : u.seg = t.seg /\ u.due = t.due - 1 /\ t.due \in 1 .. Announce
               /\ u \in [seg : Segments, due : 0 .. Announce]
    <2>1. PICK t \in timers : u = [seg |-> t.seg, due |-> t.due - 1]
      BY <1>2
    <2>4. t.due \in 1 .. Announce /\ t.seg \in Segments
      BY <1>1
    <2>2. t.due - 1 \in 0 .. Announce
      BY ONLY <2>4 DEF Announce
    <2>3. u.seg = t.seg /\ u.due = t.due - 1
      BY ONLY <2>1
    <2> QED
      BY <2>1, <2>2, <2>3, <2>4
  <1>5. \A u, v \in Later : u.seg = v.seg => u = v
    BY <1>2 DEF SkipInv, AnnouncedOnce
  <1> QED
    BY <1>3, <1>5 DEF SkipInv, AnnouncedOnce, Pending

\* Where the picture has played on for a tick, or stands still.
LEMMA LaterCarried ==
    ASSUME SkipInv, NothingDue, Loaded, Apart, NEW p \in {pos, pos + 1}
    PROVE  Carried(Later, p)
  <1> USE DEF SkipInv
  <1>1. pos \in Nat /\ p \in Nat /\ p >= pos /\ p <= pos + 1
    BY DEF Loaded, SkipTypes
  <1>2. \A s \in Segments : windows[s].from \in Int /\ windows[s].to \in Int
    BY DEF WindowsWide
  <1>3. \A s \in Hits(p) : /\ s \in Segments /\ s \notin skipped
                           /\ windows[s].from <= p /\ p < windows[s].to /\ pos < windows[s].from
    BY <1>1, <1>2, HitsAre DEF AnnouncedOnce
  <1>4. ASSUME NEW u \in Later, ~Forced(u.seg)
        PROVE  Within(u, p) /\ (skipped \cup Hits(p) # Segments => p >= windows[u.seg].from)
    <2>1. PICK t \in timers : u.seg = t.seg /\ u.due = t.due - 1 /\ t.due \in 1 .. Announce
      BY LaterAre, <1>4
    <2>2. Within(t, pos) /\ (skipped # Segments => pos >= windows[t.seg].from) /\ t.seg \in Segments
      BY <1>4, <2>1 DEF InBounds, SkipTypes
    <2>3. skipped \cup Hits(p) # Segments => skipped # Segments
      BY <1>3
    <2> QED
      BY <1>1, <1>2, <2>1, <2>2, <2>3 DEF Within, Announce
  <1>5. ASSUME NEW u \in Later, NEW v \in Later, u # v, ~Forced(u.seg), ~Forced(v.seg)
        PROVE  InTurn(u, v)
    <2>1. PICK t \in timers : u.seg = t.seg /\ u.due = t.due - 1 /\ t.due \in 1 .. Announce
      BY LaterAre, <1>5
    <2>2. PICK r \in timers : v.seg = r.seg /\ v.due = r.due - 1 /\ r.due \in 1 .. Announce
      BY LaterAre, <1>5
    <2>3. t # r
      BY LaterAre, <1>5, <2>1, <2>2
    <2>4. InTurn(t, r)
      BY <1>5, <2>1, <2>2, <2>3 DEF InBounds
    <2> QED
      BY <2>1, <2>2, <2>4 DEF InTurn, Announce
  <1>6. ASSUME NEW u \in Later, NEW s \in Hits(p), ~Forced(u.seg)
        PROVE  u.due < Announce /\ windows[u.seg].to <= windows[s].from
    <2>1. PICK t \in timers : u.seg = t.seg /\ u.due = t.due - 1 /\ t.due \in 1 .. Announce
      BY LaterAre, <1>6
    <2>2. t.seg \in Segments /\ t.seg \in skipped /\ t.seg # s /\ s \in Segments
      BY <1>3, <2>1 DEF AnnouncedOnce, SkipTypes
    <2>3. pos >= windows[t.seg].from
      BY <1>3, <1>6, <2>1, <2>2 DEF InBounds
    <2>4. windows[t.seg].to <= windows[s].from \/ windows[s].to <= windows[t.seg].from
      BY <2>2 DEF Apart
    <2> QED
      BY <1>1, <1>2, <1>3, <1>6, <2>1, <2>2, <2>3, <2>4 DEF Announce
  <1>7. \A s \in Hits(p) : p <= windows[s].from
    BY <1>1, <1>2, <1>3
  <1> QED
    BY <1>4, <1>5, <1>6, <1>7 DEF Carried

LEMMA PlaysGood ==
    ASSUME SkipInv, Plays \/ Paused
    PROVE  SkipInv'
  <1>1. NothingDue /\ Loaded /\ pos \in Nat
    BY DEF Plays, Paused, SkipInv, SkipTypes, Loaded
  <1>4. /\ Apart => Carried(Later, pos) /\ Carried(Later, pos + 1)
        /\ jumped \subseteq skipped /\ seeks \in Nat /\ pos + 1 \in Nat
    BY <1>1, LaterCarried DEF SkipInv, SkipTypes
  <1>2. CASE Plays
    BY <1>1, <1>2, <1>4, LaterAre, SeenGood DEF Plays, Sees
  <1>3. CASE Paused
    <2>1. Hits(pos) = {}
      BY <1>1, HitsAre DEF SkipInv, AnnouncedOnce, WindowsWide
    <2>2. /\ skipped' = skipped \cup Hits(pos) /\ timers' = Later \cup Announced(pos)
      BY <1>3, <2>1 DEF Paused, Announced
    <2>3. touched' = Touched(Hits(pos), FALSE)
      <3>1. Touched({}, FALSE) = [s \in Segments |-> touched[s]]
        BY DEF Touched
      <3> QED
        BY <1>3, <2>1, <3>1 DEF Paused, SkipInv, SkipTypes
    <2> QED
      BY <1>1, <1>3, <1>4, <2>2, <2>3, LaterAre, SeenGood DEF Paused
  <1> QED
    BY <1>2, <1>3

LEMMA SeeksGood ==
    ASSUME SkipInv, ViewerSeeks
    PROVE  SkipInv'
  <1>1. PICK p \in (0 .. LastPos) \ {pos} :
            Sees(p) /\ timers' = timers \cup Announced(p) /\ touched' = Touched(Hits(p), TRUE)
    BY DEF ViewerSeeks
  <1>2. /\ timers \subseteq [seg : Segments, due : 0 .. Announce] /\ p \in Nat
        /\ \A u \in timers : u.seg \in Pending /\ u.seg \notin jumped
        /\ \A u, v \in timers : u.seg = v.seg => u = v
        /\ jumped' = jumped /\ jumped \subseteq skipped /\ seeks' \in Nat
    BY SkipAssumption DEF SkipInv, SkipTypes, AnnouncedOnce, Pending, ViewerSeeks
  <1> QED
    BY <1>1, <1>2, SeenGood DEF ViewerSeeks, Sees

\* A segment jumps to the end of its window; what is announced beside it comes after.
LEMMA JumpsGood ==
    ASSUME SkipInv, NEW t \in timers, Jumps(t)
    PROVE  SkipInv'
  <1> USE DEF SkipInv
  <1> DEFINE rest == timers \ {t}
             p == windows[t.seg].to
  <1>1. /\ t.seg \in Segments /\ t.seg \in skipped /\ Enabled(t.seg) /\ t.due = 0
        /\ \A u \in rest : u.seg # t.seg /\ u \in timers /\ u.due \in 0 .. Announce /\ u.seg \in Segments /\ u.seg \in skipped
    BY DEF SkipTypes, AnnouncedOnce, Jumps
  <1>2. \A s \in Segments : windows[s].from \in Int /\ windows[s].to \in Int
    BY DEF WindowsWide
  <1>3. \A s \in Segments : Enabled(s) => windows[s].to >= windows[s].from + 5 /\ windows[s].from >= 0
    BY <1>2 DEF WindowsWide, Enabled, Disabled
  <1>4. p \in Nat
    BY <1>1, <1>2, <1>3
  <1>5. rest # {} => skipped = Segments
    BY <1>1 DEF SkipTypes, Segments
  <1>6. \A s \in Hits(p) : /\ s \in Segments /\ s # t.seg /\ rest = {}
                           /\ windows[s].from <= p /\ p < windows[s].to
    BY <1>1, <1>5, HitsAre
  <1>7. ASSUME Apart
        PROVE  Carried(rest, p)
    <2>1. ASSUME NEW u \in rest, ~Forced(u.seg)
          PROVE  Within(u, p) /\ (skipped \cup Hits(p) # Segments => p >= windows[u.seg].from)
      <3>1. ~Forced(t.seg) /\ InTurn(t, u)
        BY <1>1, <1>7, <2>1 DEF InBounds, Pending
      <3>2. windows[t.seg].to <= windows[u.seg].from
        BY <1>1, <3>1, <2>1 DEF InTurn, Announce
      <3>3. skipped \cup Hits(p) = Segments
        BY <1>5, <1>6, <2>1
      <3>4. Enabled(u.seg)
        BY <1>1, <2>1 DEF AnnouncedOnce
      <3> QED
        BY <1>1, <1>2, <1>3, <2>1, <3>2, <3>3, <3>4 DEF Within, Announce
    <2>2. \A u, v \in rest : u # v /\ ~Forced(u.seg) /\ ~Forced(v.seg) => InTurn(u, v)
      BY <1>1, <1>7 DEF InBounds
    <2>3. \A s \in Hits(p) : p <= windows[s].from
      BY <1>1, <1>2, <1>3, <1>6, <1>7 DEF Apart
    <2> QED
      BY <1>6, <2>1, <2>2, <2>3 DEF Carried
  <1>8. /\ rest \subseteq [seg : Segments, due : 0 .. Announce]
        /\ \A u \in rest : u.seg \in Pending /\ u.seg \notin jumped'
        /\ \A u, v \in rest : u.seg = v.seg => u = v
        /\ jumped' \subseteq skipped /\ seeks' \in Nat
    BY <1>1 DEF SkipTypes, AnnouncedOnce, Pending, Jumps
  <1> HIDE DEF rest
  <1> QED
    BY <1>4, <1>7, <1>8, SeenGood DEF Jumps, Sees, rest

LEMMA SkipNextGood ==
    ASSUME SkipInv, [SkipNext]_skipVars
    PROVE  SkipInv'
  <1>1. CASE UNCHANGED skipVars
    BY <1>1 DEF skipVars, SkipInv, WindowsWide, SkipTypes, AnnouncedOnce, InBounds, Pending, Forced, Enabled,
                Wants, Loaded, Apart, Within, InTurn
  <1> QED
    BY <1>1, FileLoadedGood, PlaysGood, SeeksGood, JumpsGood DEF SkipNext

\* Every skip is sound: for any answer of the database, mode, length and number of
\* the viewer's seeks (aniskip.rs and its script).
THEOREM SkipsAreSound == SkipSpec => SkipsSound
  <1>1. SkipInit => SkipInv
    BY SkipInitGood
  <1>2. SkipInv /\ [SkipNext]_skipVars => SkipInv'
    BY SkipNextGood
  <1>3. SkipInv /\ [SkipNext]_skipVars =>
            [Loaded /\ seeks' = seeks /\ pos' < pos /\ Apart =>
                \E t \in timers : t.due = 0 /\
                    \/ touched[t.seg] = "sought"
                    \/ touched[t.seg] = "entered" /\ pos - pos' <= Announce]_skipVars
    <2> SUFFICES ASSUME SkipInv, SkipNext, Loaded, seeks' = seeks, pos' < pos, Apart
                 PROVE  \E t \in timers : t.due = 0 /\
                            \/ touched[t.seg] = "sought"
                            \/ touched[t.seg] = "entered" /\ pos - pos' <= Announce
      OBVIOUS
    <2>1. PICK t \in timers : Jumps(t)
      <3>1. ~FileLoaded
        BY DEF FileLoaded, Loaded
      <3>4. pos \in Nat /\ seeks \in Nat
        BY DEF Loaded, SkipInv, SkipTypes
      <3>5. /\ Plays => pos' = pos + 1
            /\ Paused => pos' = pos
            /\ ViewerSeeks => seeks' = seeks + 1
        BY DEF Plays, Paused, Sees, ViewerSeeks
      <3>2. ~Plays /\ ~Paused
        BY <3>4, <3>5
      <3>3. ~ViewerSeeks
        BY <3>4, <3>5
      <3> QED
        BY <3>1, <3>2, <3>3 DEF SkipNext
    <2>2. t.due = 0 /\ pos' = windows[t.seg].to /\ t.seg \in Segments /\ Enabled(t.seg) /\ pos \in Nat
      BY <2>1 DEF Jumps, Sees, SkipInv, SkipTypes, AnnouncedOnce, Loaded
    <2>3. /\ windows[t.seg].from \in Int /\ windows[t.seg].to \in Int
          /\ windows[t.seg].to >= windows[t.seg].from + 5
      BY <2>2 DEF SkipInv, WindowsWide, Enabled, Disabled
    <2>4. touched[t.seg] \in {"no", "entered", "sought"}
      BY <2>2 DEF SkipInv, SkipTypes
    <2>5. touched[t.seg] # "sought" => Within(t, pos)
      BY DEF SkipInv, InBounds, Forced
    <2> QED
      BY <2>2, <2>3, <2>4, <2>5 DEF Within, Announce
  <1>4. SkipInv => [\A s \in Segments : (\E t \in timers : t.seg = s /\ t.due = 0) /\ timers' # timers =>
                        s \notin jumped /\ (mode = "both" \/ (mode = "intro" /\ s = "op") \/ (mode = "outro" /\ s = "ed"))]_skipVars
    <2> SUFFICES ASSUME SkipInv, NEW t \in timers
                 PROVE  /\ t.seg \notin jumped
                        /\ mode = "both" \/ (mode = "intro" /\ t.seg = "op") \/ (mode = "outro" /\ t.seg = "ed")
      OBVIOUS
    <2>1. t.seg \notin jumped /\ Enabled(t.seg) /\ t.seg \in Segments
      BY DEF SkipInv, AnnouncedOnce, SkipTypes
    <2>2. Wants(t.seg)
      BY <2>1 DEF SkipInv, WindowsWide, Enabled, Disabled
    <2> QED
      BY <2>1, <2>2 DEF Wants, Segments
  <1> QED
    BY <1>1, <1>2, <1>3, <1>4, PTL DEF SkipSpec, SkipsSound, SeeksForward, SkipsOnce

-----------------------------------------------------------------------------
\* What was played is kept, and what was skipped was the opening or the ending
\* (PlaySound; player.rs, aniskip.rs).
THEOREM PlaysAreSound == MpvSpec /\ SkipSpec => PlaySound
BY PlaysAreKept, SkipsAreSound, PTL DEF PlaySound

-----------------------------------------------------------------------------
(***************************************************************************)
(* The catalogue search.                                                   *)
(***************************************************************************)
\* Two lists end to end.
Joined(a, b) == a \o b

LEMMA JoinedEmpty ==
    ASSUME NEW S, NEW s \in Seq(S)
    PROVE  Joined(<<>>, s) = s
  BY DEF Joined

\* A list of lists laid end to end, one after the other.
LEMMA FlattenMade ==
    ASSUME NEW S, NEW n \in Nat, NEW lists \in [1 .. n -> Seq(S)], NEW g \in [0 .. n -> Seq(S)], g[0] = <<>>,
           \A i \in 1 .. n : g[i] = Joined(g[i - 1], lists[i])
    PROVE  FlattenSeq(lists) = g[n]
  <1>1. lists \in Seq(Seq(S)) /\ Len(lists) = n /\ DOMAIN lists = 1 .. n
    OBVIOUS
  <1>2. CASE n = 0
    <2>1. lists = <<>>
      BY <1>1, <1>2
    <2>2. FlattenSeq(lists) = lists
      BY <1>1, <1>2 DEF FlattenSeq
    <2> QED
      BY <1>2, <2>1, <2>2
  <1>3. CASE n # 0
    <2> DEFINE Laid(h) == h = [i \in 1 .. Len(lists) |-> IF i = 1 THEN lists[i] ELSE h[i - 1] \o lists[i]]
               f == [i \in 1 .. n |-> g[i]]
               h == CHOOSE k : Laid(k)
    <2>1. FlattenSeq(lists) = h[n]
      BY <1>1, <1>3 DEF FlattenSeq
    <2>2. ASSUME NEW i \in 1 .. n
          PROVE  f[i] = IF i = 1 THEN lists[i] ELSE Joined(f[i - 1], lists[i])
      <3>1. f[i] = g[i] /\ g[i] = Joined(g[i - 1], lists[i]) /\ lists[i] \in Seq(S)
        OBVIOUS
      <3>2. CASE i = 1
        <4>1. g[i - 1] = <<>>
          BY <3>2
        <4> QED
          BY <3>1, <3>2, <4>1, JoinedEmpty
      <3>3. CASE i # 1
        <4>1. i - 1 \in 1 .. n
          BY <3>3
        <4>2. f[i - 1] = g[i - 1]
          BY <4>1
        <4> HIDE DEF f
        <4> QED
          BY <3>1, <3>3, <4>2
      <3> QED
        BY <3>2, <3>3
    <2>3. f = [i \in 1 .. n |-> IF i = 1 THEN lists[i] ELSE Joined(f[i - 1], lists[i])]
      BY <2>2
    <2>4. Laid(f)
      BY <1>1, <2>3 DEF Joined
    <2> HIDE DEF Laid
    <2>5. Laid(h)
      BY <2>4
    <2> HIDE DEF h, f
    <2>6. \A i \in 1 .. n : h[i] = IF i = 1 THEN lists[i] ELSE Joined(h[i - 1], lists[i])
      <3>1. h = [i \in 1 .. n |-> IF i = 1 THEN lists[i] ELSE Joined(h[i - 1], lists[i])]
        BY <1>1, <2>5 DEF Laid, Joined
      <3> DEFINE Next(i) == IF i = 1 THEN lists[i] ELSE Joined(h[i - 1], lists[i])
      <3>2. h = [i \in 1 .. n |-> Next(i)]
        BY <3>1
      <3> HIDE DEF Next
      <3>3. \A i \in 1 .. n : h[i] = Next(i)
        BY <3>2
      <3> QED
        BY <3>3 DEF Next
    <2> DEFINE T == {i \in 0 .. n : i = 0 \/ h[i] = g[i]}
    <2>7. 0 \in T
      OBVIOUS
    <2>8. ASSUME NEW i \in 0 .. (n - 1), i \in T
          PROVE  i + 1 \in T
      <3>1. i + 1 \in 1 .. n /\ (i + 1) - 1 = i /\ i + 1 \in 0 .. n
        OBVIOUS
      <3>2. g[i + 1] = Joined(g[i], lists[i + 1]) /\ lists[i + 1] \in Seq(S)
        BY <3>1
      <3>3. h[i + 1] = IF i + 1 = 1 THEN lists[i + 1] ELSE Joined(h[i], lists[i + 1])
        BY <2>6, <3>1
      <3>4. CASE i = 0
        <4>1. g[i + 1] = lists[i + 1]
          BY <3>2, <3>4, JoinedEmpty
        <4>2. h[i + 1] = lists[i + 1]
          BY <3>3, <3>4
        <4> QED
          BY <3>1, <4>1, <4>2
      <3>5. CASE i # 0
        <4>1. h[i] = g[i]
          BY <2>8, <3>5
        <4>2. i + 1 # 1
          BY <3>5
        <4>3. h[i + 1] = g[i + 1]
          BY <3>2, <3>3, <4>1, <4>2
        <4> QED
          BY <3>1, <4>3
      <3> QED
        BY <3>4, <3>5
    <2> HIDE DEF T
    <2>9. 0 .. n \subseteq T
      BY <2>7, <2>8, ReachedUpTo
    <2>10. n \in T
      BY <2>9
    <2> QED
      BY <1>3, <2>1, <2>10 DEF T
  <1> QED
    BY <1>2, <1>3

\* One list more.
LEMMA FlattenGrows ==
    ASSUME NEW S, NEW n \in Nat, NEW lists \in [1 .. (n + 1) -> Seq(S)]
    PROVE  /\ FlattenSeq([i \in 1 .. n |-> lists[i]]) \in Seq(S)
           /\ FlattenSeq(lists) = Joined(FlattenSeq([i \in 1 .. n |-> lists[i]]), lists[n + 1])
  <1> DEFINE N == n + 1
             base == <<>>
             step == [k \in 1 .. N |-> [x \in Seq(S) |-> Joined(x, lists[k])]]
  <1>1. N \in Nat /\ base \in Seq(S)
    OBVIOUS
  <1>2. step \in StepFunctions(N, Seq(S))
    BY DEF StepFunctions, Joined
  <1>3. \A k \in 1 .. N, x \in Seq(S) : step[k][x] = Joined(x, lists[k])
    OBVIOUS
  <1> HIDE DEF step, base
  <1>4. PICK f \in [0 .. N -> Seq(S)] : MadeUpTo(N, f, base, step)
    BY <1>1, <1>2, Recursion
  <1>5. f[0] = base /\ \A k \in 1 .. N : f[k] = Joined(f[k - 1], lists[k])
    <2>1. f = [k \in 0 .. N |-> IF k = 0 THEN base ELSE step[k][f[k - 1]]]
      BY <1>4 DEF MadeUpTo
    <2>2. f[0] = base
      BY <1>1, <2>1
    <2>3. ASSUME NEW k \in 1 .. N
          PROVE  f[k] = Joined(f[k - 1], lists[k])
      <3>1. k \in 0 .. N /\ k # 0 /\ k - 1 \in 0 .. N
        BY <1>1
      <3>2. f[k] = step[k][f[k - 1]]
        BY <2>1, <3>1
      <3> QED
        BY <1>3, <1>4, <3>1, <3>2
    <2> QED
      BY <2>2, <2>3
  <1>6. FlattenSeq(lists) = f[N]
    BY <1>1, <1>4, <1>5, FlattenMade DEF base
  <1> DEFINE g == [k \in 0 .. n |-> f[k]]
             fewer == [i \in 1 .. n |-> lists[i]]
  <1>7. /\ g \in [0 .. n -> Seq(S)] /\ g[0] = <<>> /\ g[n] = f[n]
        /\ \A k \in 1 .. n : g[k] = Joined(g[k - 1], fewer[k])
    <2>1. 0 .. n \subseteq 0 .. N /\ n \in 0 .. n /\ 0 \in 0 .. n
      OBVIOUS
    <2>2. \A k \in 0 .. n : g[k] = f[k] /\ f[k] \in Seq(S)
      BY <1>4, <2>1
    <2>3. ASSUME NEW k \in 1 .. n
          PROVE  g[k] = Joined(g[k - 1], fewer[k])
      <3>1. k \in 0 .. n /\ k - 1 \in 0 .. n /\ k \in 1 .. N
        OBVIOUS
      <3>2. f[k] = Joined(f[k - 1], lists[k])
        BY <1>5, <3>1
      <3>3. g[k] = f[k] /\ g[k - 1] = f[k - 1]
        BY <2>2, <3>1
      <3> HIDE DEF g
      <3> QED
        BY <3>2, <3>3
    <2> QED
      BY <1>5, <2>1, <2>2, <2>3 DEF base
  <1>8. fewer \in [1 .. n -> Seq(S)]
    OBVIOUS
  <1> HIDE DEF g, fewer
  <1>9. FlattenSeq(fewer) = g[n]
    BY <1>7, <1>8, FlattenMade
  <1>10. n \in 0 .. n /\ n + 1 \in 1 .. N /\ (n + 1) - 1 = n
    OBVIOUS
  <1>11. f[n + 1] = Joined(f[n], lists[n + 1])
    BY <1>5, <1>10
  <1>12. g[n] \in Seq(S)
    BY <1>7, <1>10
  <1> QED
    BY <1>6, <1>7, <1>9, <1>11, <1>12 DEF fewer

-----------------------------------------------------------------------------
AskedFor == (Queries \ {NoQuery}) \X (Nat \ {0})
Cards == Queries \X Nat \X {1, 2}

\* The pages 1 to n of query q, one after the other.
Pages(q, n) == FlattenSeq([p \in 1 .. n |-> PageRows(q, p)])

LEMMA PageTyped ==
    ASSUME NEW q \in Queries, NEW p \in Nat
    PROVE  PageRows(q, p) \in Seq(Cards) /\ Len(PageRows(q, p)) >= 1
  <1> DEFINE one == <<q, p, 1>>
             two == <<q, p, 2>>
  <1>1. one \in Cards /\ two \in Cards
    BY DEF Cards
  <1>2. PageRows(q, p) = IF p = LastPage[q] THEN <<one>> ELSE <<one, two>>
    BY DEF PageRows
  <1> HIDE DEF one, two
  <1> QED
    BY <1>1, <1>2

LEMMA PagesGrow ==
    ASSUME NEW q \in Queries, NEW n \in Nat
    PROVE  /\ Pages(q, 0) = <<>>
           /\ Pages(q, n) \in Seq(Cards)
           /\ Pages(q, n + 1) = Joined(Pages(q, n), PageRows(q, n + 1))
  <1> DEFINE lists == [p \in 1 .. (n + 1) |-> PageRows(q, p)]
             few == [p \in 1 .. n |-> PageRows(q, p)]
             none == [p \in 1 .. 0 |-> PageRows(q, p)]
  <1>1. lists \in [1 .. (n + 1) -> Seq(Cards)]
    BY PageTyped
  <1>2. few = [i \in 1 .. n |-> lists[i]]
    OBVIOUS
  <1>3. lists[n + 1] = PageRows(q, n + 1)
    OBVIOUS
  <1>4. none \in Seq(Cards) /\ Len(none) = 0
    OBVIOUS
  <1> HIDE DEF lists, few, none
  <1>5. FlattenSeq(none) = none /\ none = <<>>
    BY <1>4 DEF FlattenSeq
  <1>6. FlattenSeq(few) \in Seq(Cards) /\ FlattenSeq(lists) = Joined(FlattenSeq(few), lists[n + 1])
    BY <1>1, <1>2, FlattenGrows
  <1> QED
    BY <1>3, <1>5, <1>6 DEF Pages, lists, few, none

-----------------------------------------------------------------------------
\* The rows are pages of the query they answered; nothing more is there without one.
SearchInv ==
    /\ {query, answered} \subseteq Queries
    /\ {typing, due, started, hasNext, outage} \subseteq BOOLEAN
    /\ asked \in Seq(AskedFor) /\ Len(asked) <= MaxSearches
    /\ page \in Nat /\ results = Pages(answered, page)
    /\ cursor \in 0 .. (IF results = <<>> THEN 0 ELSE Len(results) - 1)
    /\ hasNext => page > 0
    /\ page > 0 => answered # NoQuery /\ hasNext = (page < LastPage[answered])

\* What a step does to the rows.
RowsLive == results' # results => answered' = query

LEMMA SearchInitGood ==
    ASSUME SearchInit
    PROVE  SearchInv
  <1>1. Pages(NoQuery, 0) = <<>>
    BY SearchAssumption, PagesGrow
  <1> QED
    <2>1. results = Pages(answered, page)
      BY <1>1 DEF SearchInit
    <2>2. asked \in Seq(AskedFor) /\ Len(asked) <= MaxSearches
      BY SearchAssumption DEF SearchInit
    <2>3. cursor \in 0 .. (IF results = <<>> THEN 0 ELSE Len(results) - 1)
      BY DEF SearchInit
    <2>4. {query, answered} \subseteq Queries /\ {typing, due, started, hasNext, outage} \subseteq BOOLEAN
      BY SearchAssumption DEF SearchInit
    <2>5. page = 0 /\ hasNext = FALSE
      BY DEF SearchInit
    <2> QED
      BY <2>1, <2>2, <2>3, <2>4, <2>5 DEF SearchInv

\* A fetch is one of a query that is none of the empty buffer.
LEMMA FetchGood ==
    ASSUME SearchInv, NEW q \in Queries \ {NoQuery}, NEW p \in Nat \ {0}, Fetches(q, p), Len(asked) < MaxSearches
    PROVE  started' \in BOOLEAN /\ asked' \in Seq(AskedFor) /\ Len(asked') <= MaxSearches
  <1>1. <<q, p>> \in AskedFor
    BY DEF AskedFor
  <1> DEFINE f == <<q, p>>
  <1>2. asked' = asked \/ asked' = Append(asked, f)
    BY DEF Fetches
  <1> HIDE DEF f
  <1>3. started' \in BOOLEAN
    BY DEF Fetches
  <1> QED
    <2>1. asked \in Seq(AskedFor) /\ Len(asked) \in Nat /\ Len(asked) <= MaxSearches
      BY DEF SearchInv
    <2>2. Append(asked, f) \in Seq(AskedFor) /\ Len(Append(asked, f)) = Len(asked) + 1
      BY <1>1, <2>1, AppendProperties DEF f
    <2> QED
      BY <1>2, <1>3, <2>1, <2>2, SearchAssumption

\* The keys and the debounce leave the rows alone.
LEMMA KeysGood ==
    ASSUME SearchInv,
           TogglePrompt \/ CloseSearch \/ FireSearch \/ MoveDown \/ MoveUp
             \/ (\E q \in Queries : EditQuery(q)) \/ UNCHANGED searchVars
    PROVE  SearchInv' /\ RowsLive
  <1>1. UNCHANGED resultList
    BY DEF TogglePrompt, CloseSearch, FireSearch, MoveDown, MoveUp, EditQuery, searchVars, resultList
  <1>2. query' \in Queries /\ typing' \in BOOLEAN /\ due' \in BOOLEAN
    <2>1. typing \in BOOLEAN /\ due \in BOOLEAN /\ query \in Queries
      BY DEF SearchInv
    <2> QED
      BY <2>1, SearchAssumption
         DEF TogglePrompt, CloseSearch, FireSearch, MoveDown, MoveUp, EditQuery, searchVars
  <1>3. started' \in BOOLEAN /\ asked' \in Seq(AskedFor) /\ Len(asked') <= MaxSearches
    <2>1. CASE UNCHANGED <<started, asked>>
      BY <2>1 DEF SearchInv
    <2>2. CASE FireSearch /\ query # NoQuery
      <3>1. Fetches(query, 1) /\ Len(asked) < MaxSearches /\ query \in Queries \ {NoQuery}
        BY <2>2 DEF FireSearch, SearchInv
      <3> QED
        BY <3>1, FetchGood
    <2>3. CASE MoveDown /\ MoreWanted /\ Fetches(query, page + 1) /\ Len(asked) < MaxSearches
      <3>1. query \in Queries \ {NoQuery} /\ page + 1 \in Nat \ {0}
        BY <2>3 DEF MoreWanted, SearchInv
      <3> QED
        BY <2>3, <3>1, FetchGood
    <2> QED
      BY <2>1, <2>2, <2>3 DEF TogglePrompt, CloseSearch, FireSearch, MoveDown, MoveUp, EditQuery, searchVars
  <1>4. cursor' \in 0 .. (IF results = <<>> THEN 0 ELSE Len(results) - 1)
    <2>1. results \in Seq(Cards) /\ Len(results) \in Nat /\ (results # <<>> => Len(results) > 0)
      <3>1. results \in Seq(Cards)
        BY PagesGrow DEF SearchInv
      <3> QED
        BY <3>1
    <2>2. CASE UNCHANGED cursor
      BY <2>2 DEF SearchInv
    <2>3. CASE MoveDown
      BY <2>1, <2>3 DEF MoveDown, SearchInv
    <2>4. CASE MoveUp
      BY <2>1, <2>4 DEF MoveUp, SearchInv
    <2> QED
      BY <2>2, <2>3, <2>4 DEF TogglePrompt, CloseSearch, FireSearch, EditQuery, searchVars
  <1>5. results' = results /\ answered' = answered /\ page' = page /\ hasNext' = hasNext /\ outage' = outage
    BY <1>1 DEF resultList
  <1> QED
    BY <1>2, <1>3, <1>4, <1>5 DEF SearchInv, RowsLive

\* An answer that has arrived is no longer asked for.
LEMMA AnswerTaken ==
    ASSUME SearchInv, NEW i \in DOMAIN asked
    PROVE  /\ asked[i] \in AskedFor /\ asked[i][1] \in Queries \ {NoQuery} /\ asked[i][2] \in Nat \ {0}
           /\ RemoveAt(asked, i) \in Seq(AskedFor) /\ Len(RemoveAt(asked, i)) <= MaxSearches
  <1>1. asked \in Seq(AskedFor) /\ i \in 1 .. Len(asked) /\ Len(asked) <= MaxSearches
    BY DEF SearchInv
  <1>2. asked[i] \in AskedFor
    BY <1>1
  <1>3. asked[i][1] \in Queries \ {NoQuery} /\ asked[i][2] \in Nat \ {0}
    BY <1>2 DEF AskedFor
  <1>4. /\ SubSeq(asked, 1, i - 1) \in Seq(AskedFor) /\ Len(SubSeq(asked, 1, i - 1)) = i - 1
        /\ SubSeq(asked, i + 1, Len(asked)) \in Seq(AskedFor) /\ Len(SubSeq(asked, i + 1, Len(asked))) = Len(asked) - i
    BY <1>1, SubSeqProperties
  <1>5. RemoveAt(asked, i) \in Seq(AskedFor) /\ Len(RemoveAt(asked, i)) = Len(asked) - 1
    <2> DEFINE before == SubSeq(asked, 1, i - 1)
               after == SubSeq(asked, i + 1, Len(asked))
    <2>1. RemoveAt(asked, i) = before \o after
      BY DEF RemoveAt
    <2>2. before \in Seq(AskedFor) /\ after \in Seq(AskedFor) /\ Len(before) = i - 1 /\ Len(after) = Len(asked) - i
      BY <1>4
    <2> HIDE DEF before, after
    <2>3. before \o after \in Seq(AskedFor) /\ Len(before \o after) = Len(before) + Len(after)
      BY <2>2, ConcatProperties
    <2>4. Len(asked) \in Nat /\ i \in Int
      BY <1>1
    <2> QED
      BY <2>1, <2>2, <2>3, <2>4
  <1> QED
    BY <1>1, <1>2, <1>3, <1>5, SearchAssumption

\* An answer to the live query, in its turn, is filed.
LEMMA Filed ==
    ASSUME SearchInv, NEW q \in Queries \ {NoQuery}, NEW p \in Nat \ {0}, InOrder(q, p), Live(q),
           results' = IF p = 1 THEN PageRows(q, 1) ELSE results \o PageRows(q, p),
           cursor' = CursorAfter(p), answered' = q, page' = p, hasNext' = (p < LastPage[q])
    PROVE  /\ results' = Pages(answered', page') /\ RowsLive
           /\ cursor' \in 0 .. (IF results' = <<>> THEN 0 ELSE Len(results') - 1)
           /\ hasNext' \in BOOLEAN /\ answered' = q /\ page' = p
  <1>1. results \in Seq(Cards) /\ results = Pages(answered, page) /\ page \in Nat
    BY PagesGrow DEF SearchInv
  <1>2. PageRows(q, p) \in Seq(Cards) /\ Len(PageRows(q, p)) >= 1
    BY PageTyped
  <1>3. CASE p = 1
    <2>1. Pages(q, 1) = Joined(Pages(q, 0), PageRows(q, 1)) /\ Pages(q, 0) = <<>>
      <3>1. Pages(q, 0 + 1) = Joined(Pages(q, 0), PageRows(q, 0 + 1))
        BY PagesGrow
      <3>2. 0 + 1 = 1
        OBVIOUS
      <3> QED
        BY <3>1, <3>2, PagesGrow
    <2>2. results' = PageRows(q, p) /\ Pages(q, p) = PageRows(q, p)
      BY <1>2, <1>3, <2>1, JoinedEmpty
    <2>3. cursor' = 0
      BY <1>3 DEF CursorAfter
    <2>4. results' # <<>> /\ Len(results') - 1 \in Nat
      BY <1>2, <2>2
    <2> QED
      BY <2>2, <2>3, <2>4 DEF RowsLive, Live
  <1>4. CASE p # 1
    <2>1. q = answered /\ p = page + 1
      BY <1>4 DEF InOrder
    <2>2. Pages(q, p) = Joined(Pages(q, page), PageRows(q, p))
      BY <1>1, <2>1, PagesGrow
    <2>3. results' = results \o PageRows(q, p)
      BY <1>4
    <2>4. Len(results') = Len(results) + Len(PageRows(q, p)) /\ Len(results) \in Nat
          /\ Len(PageRows(q, p)) \in Nat /\ results' \in Seq(Cards)
      BY <1>1, <1>2, <2>3
    <2>5. cursor' = cursor /\ cursor \in 0 .. (IF results = <<>> THEN 0 ELSE Len(results) - 1)
      BY <1>4 DEF CursorAfter, SearchInv
    <2>6. cursor \in Nat /\ cursor <= Len(results)
      BY <1>1, <2>4, <2>5
    <2>7. cursor' \in 0 .. (IF results' = <<>> THEN 0 ELSE Len(results') - 1)
      BY <1>2, <2>4, <2>5, <2>6
    <2>8. results' = Pages(answered', page')
      BY <1>1, <2>1, <2>2, <2>3 DEF Joined
    <2> QED
      BY <2>7, <2>8 DEF RowsLive, Live
  <1> QED
    BY <1>3, <1>4

LEMMA DoneGood ==
    ASSUME SearchInv, NEW i \in DOMAIN asked, SearchDone(i)
    PROVE  SearchInv' /\ RowsLive
  <1> DEFINE q == asked[i][1]
             p == asked[i][2]
  <1>1. /\ q \in Queries \ {NoQuery} /\ p \in Nat \ {0}
        /\ asked' \in Seq(AskedFor) /\ Len(asked') <= MaxSearches
    BY AnswerTaken DEF SearchDone
  <1>2. /\ started' = (started /\ ~Live(q)) /\ UNCHANGED <<typing, query, due>>
        /\ IF Live(q) /\ InOrder(q, p)
           THEN /\ results' = IF p = 1 THEN PageRows(q, 1) ELSE results \o PageRows(q, p)
                /\ cursor' = CursorAfter(p)
                /\ answered' = q /\ page' = p /\ hasNext' = (p < LastPage[q])
                /\ outage' = FALSE
           ELSE UNCHANGED <<resultList, cursor>>
    BY DEF SearchDone
  <1> HIDE DEF q, p
  <1>3. started' \in BOOLEAN
    BY <1>2
  <1>4. CASE Live(q) /\ InOrder(q, p)
    <2>1. /\ results' = Pages(answered', page') /\ RowsLive
          /\ cursor' \in 0 .. (IF results' = <<>> THEN 0 ELSE Len(results') - 1)
          /\ hasNext' \in BOOLEAN /\ answered' = q /\ page' = p
      BY <1>1, <1>2, <1>4, Filed
    <2>2. hasNext' = (p < LastPage[q]) /\ outage' \in BOOLEAN
      BY <1>2, <1>4
    <2> QED
      BY <1>1, <1>2, <1>3, <2>1, <2>2 DEF SearchInv
  <1>5. CASE ~(Live(q) /\ InOrder(q, p))
    <2>1. /\ results' = results /\ answered' = answered /\ page' = page /\ hasNext' = hasNext
          /\ outage' = outage /\ cursor' = cursor
      BY <1>2, <1>5 DEF resultList
    <2> QED
      BY <1>1, <1>2, <1>3, <2>1 DEF SearchInv, RowsLive
  <1> QED
    BY <1>4, <1>5

LEMMA FailedGood ==
    ASSUME SearchInv, NEW i \in DOMAIN asked, SearchFailed(i)
    PROVE  SearchInv' /\ RowsLive
  <1>1. asked' \in Seq(AskedFor) /\ Len(asked') <= MaxSearches
    BY AnswerTaken DEF SearchFailed
  <1>2. started' \in BOOLEAN /\ outage' \in BOOLEAN
    BY DEF SearchFailed, SpinsOn
  <1>3. UNCHANGED <<typing, query, due, results, answered, page, hasNext, cursor>>
    BY DEF SearchFailed
  <1> QED
    BY <1>1, <1>2, <1>3 DEF SearchInv, RowsLive

LEMMA SearchStep ==
    ASSUME SearchInv, [SearchNext]_searchVars
    PROVE  SearchInv' /\ RowsLive
  <1>1. CASE SearchAnswers
    BY <1>1, DoneGood, FailedGood DEF SearchAnswers
  <1>2. CASE ~SearchAnswers
    BY <1>2, KeysGood DEF SearchNext
  <1> QED
    BY <1>1, <1>2

LEMMA SearchGood ==
    ASSUME SearchInv
    PROVE  SearchTypeOK /\ RowsOfOneQuery
  <1>1. asked \in Seq((Queries \ {NoQuery}) \X Nat)
    <2>1. AskedFor \subseteq (Queries \ {NoQuery}) \X Nat
      BY DEF AskedFor
    <2> QED
      BY <2>1 DEF SearchInv
  <1> QED
    BY <1>1 DEF SearchInv, SearchTypeOK, RowsOfOneQuery, Pages

\* However the answers of several fetches cross, the rows are the pages of one query, each
\* once and in order, and they change only for an answer to the query that stands
\* (BrowseState::on_done).
THEOREM SearchesAreHonest == SearchSpec => []SearchTypeOK /\ SearchHonest
  <1>1. SearchInit => SearchInv
    BY SearchInitGood
  <1>2. SearchInv /\ [SearchNext]_searchVars => SearchInv' /\ RowsLive
    BY SearchStep
  <1>3. SearchInv => SearchTypeOK /\ RowsOfOneQuery
    BY SearchGood
  <1>4. SearchSpec => [](SearchTypeOK /\ RowsOfOneQuery) /\ [][RowsLive]_searchVars
    BY <1>1, <1>2, <1>3, PTL DEF SearchSpec
  <1> QED
    BY <1>4, PTL DEF SearchHonest, RowsAnswerLive, RowsLive

-----------------------------------------------------------------------------
(***************************************************************************)
(* Toasts and alarms.                                                      *)
(***************************************************************************)
Toast == [n : Nat, topic : BOOLEAN, born : Nat]

LEMMA ToastTyped ==
    ASSUME NEW q \in Seq(Toast), NEW i \in DOMAIN q
    PROVE  q[i] \in Toast /\ q[i].n \in Nat /\ q[i].topic \in BOOLEAN /\ q[i].born \in Nat /\ i \in Nat
  <1>1. q[i] \in Toast /\ i \in Nat
    OBVIOUS
  <1> QED
    BY <1>1 DEF Toast

\* The k-th of r is the f[k]-th of q, and every place to keep is one of them.
Picks(f, q, r, keep) ==
    /\ \A k \in 1 .. Len(r) : r[k] = q[f[k]]
    /\ \A j, k \in 1 .. Len(r) : j < k => f[j] < f[k]
    /\ \A i \in keep : \E k \in 1 .. Len(r) : f[k] = i

\* r is what is left of q at the places to keep, in the order of q.
Thins(q, r, keep) ==
    /\ r \in Seq(Toast) /\ Len(r) <= Len(q)
    /\ \E f \in [1 .. Len(r) -> keep] : Picks(f, q, r, keep)

\* The list is made toast by toast.
LEMMA RetainsStepwise ==
    ASSUME NEW q \in Seq(Toast), NEW keep \in SUBSET (DOMAIN q)
    PROVE  /\ Retaining(q, keep) \in [0 .. Len(q) -> Seq(Toast)]
           /\ Retaining(q, keep)[0] = <<>>
           /\ \A i \in 1 .. Len(q) :
                 Retaining(q, keep)[i] = IF i \in keep THEN Append(Retaining(q, keep)[i - 1], q[i])
                                         ELSE Retaining(q, keep)[i - 1]
  <1> DEFINE N == Len(q)
             none == <<>>
             More(i, r) == IF i \in keep THEN Append(r, q[i]) ELSE r
             step == [i \in 1 .. N |-> [r \in Seq(Toast) |-> More(i, r)]]
  <1>1. N \in Nat /\ \A i \in 1 .. N : q[i] \in Toast
    OBVIOUS
  <1>2. none \in Seq(Toast)
    OBVIOUS
  <1>3. \A i \in 1 .. N, r \in Seq(Toast) : More(i, r) \in Seq(Toast)
    BY <1>1
  <1>4. Retaining(q, keep) = CHOOSE g : g = [i \in 0 .. N |-> IF i = 0 THEN none ELSE More(i, g[i - 1])]
    BY DEF Retaining
  <1> HIDE DEF More, none, N
  <1>5. step \in StepFunctions(N, Seq(Toast))
    BY <1>3 DEF StepFunctions
  <1>6. \A i \in 1 .. N, r \in Seq(Toast) : step[i][r] = More(i, r)
    OBVIOUS
  <1> HIDE DEF step
  <1>7. PICK f \in [0 .. N -> Seq(Toast)] : MadeUpTo(N, f, none, step)
    BY <1>1, <1>2, <1>5, Recursion
  <1>8. ASSUME NEW i \in 0 .. N
        PROVE  (IF i = 0 THEN none ELSE step[i][f[i - 1]]) = (IF i = 0 THEN none ELSE More(i, f[i - 1]))
    <2>1. CASE i # 0
      <3>1. i \in 1 .. N /\ i - 1 \in 0 .. N
        BY <1>1, <2>1
      <3>2. f[i - 1] \in Seq(Toast)
        BY <3>1
      <3> QED
        BY <1>6, <2>1, <3>1, <3>2
    <2> QED
      BY <2>1
  <1>9. f = [i \in 0 .. N |-> IF i = 0 THEN none ELSE More(i, f[i - 1])]
    BY <1>7, <1>8 DEF MadeUpTo
  <1> DEFINE Made(g) == g = [i \in 0 .. N |-> IF i = 0 THEN none ELSE More(i, g[i - 1])]
  <1>10. Retaining(q, keep) = CHOOSE g : Made(g)
    BY <1>4
  <1>11. Made(f)
    BY <1>9
  <1> HIDE DEF Made
  <1>12. Made(Retaining(q, keep))
    BY <1>10, <1>11
  <1> DEFINE kept == Retaining(q, keep)
  <1>13. kept = [i \in 0 .. N |-> IF i = 0 THEN none ELSE More(i, kept[i - 1])]
    BY <1>12 DEF Made
  <1> HIDE DEF kept
  <1>14. kept[0] = none /\ \A i \in 1 .. N : kept[i] = More(i, kept[i - 1])
    <2>1. 0 \in 0 .. N /\ \A i \in 1 .. N : i \in 0 .. N /\ i # 0
      BY <1>1
    <2> QED
      BY <1>13, <2>1
  <1> DEFINE T == {i \in 0 .. N : kept[i] \in Seq(Toast)}
  <1>15. 0 \in T
    BY <1>1, <1>2, <1>14
  <1>16. ASSUME NEW i \in 0 .. (N - 1), i \in T
         PROVE  i + 1 \in T
    <2>1. i + 1 \in 1 .. N /\ (i + 1) - 1 = i /\ i + 1 \in 0 .. N
      BY <1>1
    <2>2. kept[i] \in Seq(Toast)
      BY <1>16
    <2>3. kept[i + 1] = More(i + 1, kept[i])
      BY <1>14, <2>1
    <2> QED
      BY <1>3, <2>1, <2>2, <2>3
  <1> HIDE DEF T
  <1>17. 0 .. N \subseteq T
    BY <1>1, <1>15, <1>16, ReachedUpTo
  <1>18. \A i \in 0 .. N : kept[i] \in Seq(Toast)
    BY <1>17 DEF T
  <1>19. kept = [i \in 0 .. N |-> kept[i]]
    <2> DEFINE Value(i) == IF i = 0 THEN none ELSE More(i, kept[i - 1])
    <2>1. kept = [i \in 0 .. N |-> Value(i)]
      BY <1>13
    <2> HIDE DEF Value
    <2> QED
      BY <2>1
  <1>20. kept \in [0 .. N -> Seq(Toast)]
    BY <1>18, <1>19
  <1> QED
    BY <1>14, <1>20 DEF kept, none, More, N

\* One toast more, kept or not.
LEMMA ThinsOneMore ==
    ASSUME NEW q \in Seq(Toast), NEW i \in 1 .. Len(q), NEW keep \in SUBSET (1 .. (i - 1)),
           NEW r \in Seq(Toast), Len(r) <= i - 1, Thins(q, r, keep)
    PROVE  Thins(q, Append(r, q[i]), keep \cup {i}) /\ Len(Append(r, q[i])) <= i
  <1>1. PICK f \in [1 .. Len(r) -> keep] :
          /\ \A k \in 1 .. Len(r) : r[k] = q[f[k]]
          /\ \A j, k \in 1 .. Len(r) : j < k => f[j] < f[k]
          /\ \A p \in keep : \E k \in 1 .. Len(r) : f[k] = p
    BY DEF Thins, Picks
  <1>2. Len(r) \in Nat /\ q[i] \in Toast /\ Len(q) \in Nat /\ i <= Len(q) /\ i \in Nat
    OBVIOUS
  <1> DEFINE m == Len(r)
             longer == Append(r, q[i])
  <1>3. /\ longer \in Seq(Toast) /\ Len(longer) = m + 1 /\ longer[m + 1] = q[i]
        /\ \A k \in 1 .. m : longer[k] = r[k]
    BY <1>2, AppendProperties
  <1> HIDE DEF m, longer
  <1> DEFINE g == [k \in 1 .. (m + 1) |-> IF k <= m THEN f[k] ELSE i]
  <1>4. m \in Nat /\ f \in [1 .. m -> keep] /\ m <= i - 1
    BY <1>1, <1>2 DEF m
  <1>5. (\A k \in 1 .. m : g[k] = f[k]) /\ g[m + 1] = i
    BY <1>4
  <1>6. g \in [1 .. (m + 1) -> keep \cup {i}]
    BY <1>4
  <1> HIDE DEF g
  <1>7. \A k \in 1 .. (m + 1) : k \in 1 .. m \/ k = m + 1
    BY <1>4
  <1>8. \A k \in 1 .. (m + 1) : longer[k] = q[g[k]]
    <2>1. \A k \in 1 .. m : r[k] = q[f[k]]
      BY <1>1 DEF m
    <2> QED
      BY <1>3, <1>5, <1>7, <2>1
  <1>9. ASSUME NEW j \in 1 .. (m + 1), NEW k \in 1 .. (m + 1), j < k
        PROVE  g[j] < g[k]
    <2>1. j \in 1 .. m
      BY <1>4, <1>9
    <2>2. CASE k = m + 1
      <3>1. f[j] \in 1 .. (i - 1)
        BY <1>4, <2>1
      <3> QED
        BY <1>5, <2>1, <2>2, <3>1
    <2>3. CASE k \in 1 .. m
      <3>1. f[j] < f[k]
        BY <1>1, <1>9, <2>1, <2>3 DEF m
      <3> QED
        BY <1>5, <2>1, <2>3, <3>1
    <2> QED
      BY <1>7, <2>2, <2>3
  <1>10. ASSUME NEW p \in keep \cup {i}
         PROVE  \E k \in 1 .. (m + 1) : g[k] = p
    <2>1. CASE p = i
      <3>1. m + 1 \in 1 .. (m + 1)
        BY <1>4
      <3> QED
        BY <1>5, <2>1, <3>1
    <2>2. CASE p \in keep
      <3>1. PICK k \in 1 .. m : f[k] = p
        BY <1>1, <2>2 DEF m
      <3>2. k \in 1 .. (m + 1)
        BY <1>4
      <3> QED
        BY <1>5, <3>1, <3>2
    <2> QED
      BY <2>1, <2>2
  <1>11. Len(longer) <= i /\ Len(longer) <= Len(q)
    BY <1>2, <1>3, <1>4
  <1>12. Picks(g, q, longer, keep \cup {i})
    BY <1>3, <1>8, <1>9, <1>10 DEF Picks
  <1>13. Thins(q, longer, keep \cup {i})
    BY <1>3, <1>6, <1>11, <1>12 DEF Thins
  <1> QED
    BY <1>11, <1>13 DEF longer

\* retain keeps what it is to keep, in order.
LEMMA RetainedThins ==
    ASSUME NEW q \in Seq(Toast), NEW keep \in SUBSET (DOMAIN q)
    PROVE  Thins(q, Retained(q, keep), keep)
  <1> DEFINE N == Len(q)
             g == Retaining(q, keep)
             Upto(i) == keep \cap (1 .. i)
             T == {i \in 0 .. N : Len(g[i]) <= i /\ Thins(q, g[i], Upto(i))}
  <1>1. /\ g \in [0 .. N -> Seq(Toast)] /\ g[0] = <<>>
        /\ \A i \in 1 .. N : g[i] = IF i \in keep THEN Append(g[i - 1], q[i]) ELSE g[i - 1]
    BY RetainsStepwise
  <1>2. N \in Nat /\ keep \subseteq 1 .. N
    OBVIOUS
  <1> HIDE DEF g
  <1>3. 0 \in T
    <2>1. Upto(0) = {}
      OBVIOUS
    <2> DEFINE e == <<>>
    <2>2. e \in Seq(Toast) /\ Len(e) = 0 /\ e \in [1 .. Len(e) -> {}]
      OBVIOUS
    <2> HIDE DEF e
    <2>3. Picks(e, q, e, {})
      BY <2>2 DEF Picks
    <2>4. Thins(q, e, {})
      <3>1. \E f \in [1 .. Len(e) -> {}] : Picks(f, q, e, {})
        BY ONLY <2>2, <2>3
      <3>2. Len(e) <= Len(q)
        BY <1>2, <2>2
      <3> QED
        BY <2>2, <3>1, <3>2 DEF Thins
    <2> QED
      BY <1>1, <1>2, <2>1, <2>2, <2>4 DEF e
  <1>4. ASSUME NEW i \in 0 .. (N - 1), i \in T
        PROVE  i + 1 \in T
    <2>1. i + 1 \in 1 .. N /\ (i + 1) - 1 = i /\ i + 1 \in 0 .. N /\ i \in 0 .. N
      BY <1>2
    <2>2. Len(g[i]) <= i /\ Thins(q, g[i], Upto(i)) /\ g[i] \in Seq(Toast)
      BY <1>1, <1>4, <2>1
    <2>3. CASE i + 1 \in keep
      <3>1. g[i + 1] = Append(g[i], q[i + 1])
        BY <1>1, <2>1, <2>3
      <3>2. Upto(i + 1) = Upto(i) \cup {i + 1}
        BY <2>1, <2>3
      <3>3. Upto(i) \in SUBSET (1 .. ((i + 1) - 1))
        BY <2>1
      <3> HIDE DEF Upto
      <3> DEFINE at == i + 1
                 few == Upto(i)
                 r == g[i]
      <3>4. at \in 1 .. Len(q) /\ few \in SUBSET (1 .. (at - 1)) /\ Len(r) <= at - 1 /\ Thins(q, r, few) /\ r \in Seq(Toast)
        BY <2>1, <2>2, <3>3
      <3> HIDE DEF at, few, r
      <3>5. Thins(q, Append(r, q[at]), few \cup {at}) /\ Len(Append(r, q[at])) <= at
        BY <3>4, ThinsOneMore
      <3> QED
        BY <2>1, <3>1, <3>2, <3>5 DEF at, few, r
    <2>4. CASE i + 1 \notin keep
      <3>1. g[i + 1] = g[i]
        BY <1>1, <2>1, <2>4
      <3>2. Upto(i + 1) = Upto(i)
        BY <2>1, <2>4
      <3>3. Len(g[i]) \in Nat
        BY <2>2
      <3> HIDE DEF Upto
      <3> QED
        BY <2>1, <2>2, <3>1, <3>2, <3>3
    <2> QED
      BY <2>3, <2>4
  <1> HIDE DEF T
  <1>5. 0 .. N \subseteq T
    BY <1>2, <1>3, <1>4, ReachedUpTo
  <1>6. N \in T
    BY <1>2, <1>5
  <1>7. Upto(N) = keep
    BY <1>2
  <1>8. Thins(q, g[N], keep)
    BY <1>6, <1>7 DEF T
  <1> QED
    BY <1>8 DEF Retained, g

\* remove takes one out.
LEMMA RemovedThins ==
    ASSUME NEW q \in Seq(Toast), NEW i \in DOMAIN q
    PROVE  Thins(q, RemoveAt(q, i), DOMAIN q \ {i}) /\ Len(RemoveAt(q, i)) = Len(q) - 1
  <1> DEFINE before == SubSeq(q, 1, i - 1)
             after == SubSeq(q, i + 1, Len(q))
             r == before \o after
  <1>1. i \in 1 .. Len(q) /\ Len(q) \in Nat
    OBVIOUS
  <1>2. /\ before \in Seq(Toast) /\ Len(before) = i - 1 /\ \A k \in 1 .. (i - 1) : before[k] = q[k]
    BY <1>1, SubSeqProperties
  <1>3. /\ after \in Seq(Toast) /\ Len(after) = Len(q) - i /\ \A k \in 1 .. (Len(q) - i) : after[k] = q[k + i]
    BY <1>1, SubSeqProperties
  <1> HIDE DEF before, after
  <1>4. /\ r \in Seq(Toast) /\ Len(r) = Len(q) - 1
        /\ \A k \in 1 .. (Len(q) - 1) : r[k] = IF k < i THEN q[k] ELSE q[k + 1]
    <2>1. r \in Seq(Toast) /\ Len(r) = Len(before) + Len(after)
      <3>1. before \in Seq(Toast) /\ after \in Seq(Toast)
        BY <1>2, <1>3
      <3> QED
        BY ONLY <3>1, ConcatProperties
    <2>2. \A k \in 1 .. Len(r) : r[k] = IF k <= Len(before) THEN before[k] ELSE after[k - Len(before)]
      <3>1. before \in Seq(Toast) /\ after \in Seq(Toast)
        BY <1>2, <1>3
      <3>2. \A k \in 1 .. Len(before) + Len(after) :
               r[k] = IF k <= Len(before) THEN before[k] ELSE after[k - Len(before)]
        BY ONLY <3>1, ConcatProperties
      <3> QED
        BY <2>1, <3>2
    <2> HIDE DEF r
    <2>3. Len(r) = Len(q) - 1
      BY <1>1, <1>2, <1>3, <2>1
    <2>4. ASSUME NEW k \in 1 .. (Len(q) - 1)
          PROVE  r[k] = IF k < i THEN q[k] ELSE q[k + 1]
      <3>1. CASE k < i
        <4>1. k \in 1 .. (i - 1) /\ k <= Len(before) /\ k \in 1 .. Len(r)
          BY <1>1, <1>2, <2>3, <3>1
        <4> QED
          BY <1>2, <2>2, <3>1, <4>1
      <3>2. CASE ~(k < i)
        <4>1. ~(k <= Len(before)) /\ k \in 1 .. Len(r) /\ k - Len(before) \in 1 .. (Len(q) - i)
              /\ (k - Len(before)) + i = k + 1
          BY <1>1, <1>2, <2>3, <3>2
        <4>2. after[k - Len(before)] = q[k + 1]
          BY <1>3, <4>1
        <4> QED
          BY <2>2, <3>2, <4>1, <4>2
      <3> QED
        BY <3>1, <3>2
    <2> QED
      BY <2>1, <2>3, <2>4
  <1> HIDE DEF r
  <1> DEFINE f == [k \in 1 .. (Len(q) - 1) |-> IF k < i THEN k ELSE k + 1]
  <1>5. f \in [1 .. Len(r) -> DOMAIN q \ {i}]
    BY <1>1, <1>4
  <1>6. \A k \in 1 .. Len(r) : r[k] = q[f[k]]
    BY <1>1, <1>4
  <1>7. \A j, k \in 1 .. Len(r) : j < k => f[j] < f[k]
    BY <1>1, <1>4
  <1>8. ASSUME NEW p \in DOMAIN q \ {i}
        PROVE  \E k \in 1 .. Len(r) : f[k] = p
    <2>1. CASE p < i
      <3>1. p \in 1 .. Len(r) /\ f[p] = p
        BY <1>1, <1>4, <2>1
      <3> QED
        BY <3>1
    <2>2. CASE ~(p < i)
      <3>1. p - 1 \in 1 .. Len(r) /\ f[p - 1] = p
        BY <1>1, <1>4, <2>2
      <3> QED
        BY <3>1
    <2> QED
      BY <2>1, <2>2
  <1> HIDE DEF f
  <1>9. Picks(f, q, r, DOMAIN q \ {i})
    BY <1>6, <1>7, <1>8 DEF Picks
  <1>10. Len(r) <= Len(q)
    BY <1>1, <1>4
  <1>11. Thins(q, r, DOMAIN q \ {i})
    BY <1>4, <1>5, <1>9, <1>10 DEF Thins
  <1> QED
    BY <1>4, <1>11 DEF RemoveAt, r, before, after

-----------------------------------------------------------------------------
\* One standing toast at most, the transient ones in the order they were said, and of
\* those said the newest, without a gap.
Tidy(q, last) ==
    /\ \A i, j \in DOMAIN q : q[i].topic /\ q[j].topic => i = j
    /\ \A i, j \in DOMAIN q :
          i < j /\ ~q[i].topic /\ ~q[j].topic => q[i].n < q[j].n /\ q[i].born <= q[j].born
    /\ \A i \in DOMAIN q : ~q[i].topic => q[i].n \in 1 .. last
    /\ \A i \in DOMAIN q : ~q[i].topic =>
          \A m \in q[i].n .. last : \E j \in DOMAIN q : ~q[j].topic /\ q[j].n = m

\* Taking toasts out, the older transient ones first, leaves the list tidy.
LEMMA ThinnedTidy ==
    ASSUME NEW q \in Seq(Toast), NEW r \in Seq(Toast), NEW keep \in SUBSET (DOMAIN q), NEW last \in Nat,
           Tidy(q, last), Thins(q, r, keep),
           \A i \in keep, j \in DOMAIN q : ~q[i].topic /\ ~q[j].topic /\ i < j => j \in keep
    PROVE  /\ Tidy(r, last)
           /\ OnTopic(r) # {} <=> OnTopic(q) \cap keep # {}
           /\ \A k \in DOMAIN r : \E i \in keep : r[k] = q[i]
  <1>1. PICK f \in [1 .. Len(r) -> keep] :
          /\ \A k \in 1 .. Len(r) : r[k] = q[f[k]]
          /\ \A j, k \in 1 .. Len(r) : j < k => f[j] < f[k]
          /\ \A p \in keep : \E k \in 1 .. Len(r) : f[k] = p
    BY DEF Thins, Picks
  <1>2. DOMAIN r = 1 .. Len(r) /\ DOMAIN q = 1 .. Len(q) /\ Len(r) \in Nat /\ Len(q) \in Nat
    OBVIOUS
  <1>3. \A k \in DOMAIN r : f[k] \in keep /\ f[k] \in DOMAIN q /\ r[k] = q[f[k]]
    BY <1>1, <1>2
  <1>4. \A j, k \in DOMAIN r : f[j] = f[k] => j = k
    <2> SUFFICES ASSUME NEW j \in DOMAIN r, NEW k \in DOMAIN r, f[j] = f[k], j # k
                 PROVE  FALSE
      OBVIOUS
    <2>1. j \in 1 .. Len(r) /\ k \in 1 .. Len(r) /\ f[j] \in Nat /\ f[k] \in Nat
      BY <1>2, <1>3
    <2>2. j < k \/ k < j
      BY <2>1
    <2>3. f[j] < f[k] \/ f[k] < f[j]
      BY <1>1, <2>1, <2>2
    <2> QED
      BY <2>1, <2>3
  <1>5. \A i, j \in DOMAIN r : r[i].topic /\ r[j].topic => i = j
    <2> SUFFICES ASSUME NEW i \in DOMAIN r, NEW j \in DOMAIN r, r[i].topic, r[j].topic
                 PROVE  i = j
      OBVIOUS
    <2>1. q[f[i]].topic /\ q[f[j]].topic
      BY <1>3
    <2>2. f[i] = f[j]
      BY <1>3, <2>1 DEF Tidy
    <2> QED
      BY <1>4, <2>2
  <1>6. ASSUME NEW i \in DOMAIN r, NEW j \in DOMAIN r, i < j, ~r[i].topic, ~r[j].topic
        PROVE  r[i].n < r[j].n /\ r[i].born <= r[j].born
    <2>1. f[i] < f[j]
      BY <1>1, <1>2, <1>6
    <2>2. /\ f[i] \in DOMAIN q /\ f[j] \in DOMAIN q /\ ~q[f[i]].topic /\ ~q[f[j]].topic
          /\ r[i] = q[f[i]] /\ r[j] = q[f[j]]
      BY <1>3, <1>6
    <2>3. q[f[i]].n < q[f[j]].n /\ q[f[i]].born <= q[f[j]].born
      BY <2>1, <2>2 DEF Tidy
    <2> QED
      BY <2>2, <2>3
  <1>7. ASSUME NEW i \in DOMAIN r, ~r[i].topic
        PROVE  /\ r[i].n \in 1 .. last
               /\ \A m \in r[i].n .. last : \E j \in DOMAIN r : ~r[j].topic /\ r[j].n = m
    <2>1. f[i] \in DOMAIN q /\ f[i] \in keep /\ ~q[f[i]].topic /\ r[i] = q[f[i]] /\ q[f[i]].n \in 1 .. last
      BY <1>3, <1>7 DEF Tidy
    <2>2. ASSUME NEW m \in r[i].n .. last
          PROVE  \E j \in DOMAIN r : ~r[j].topic /\ r[j].n = m
      <3>1. PICK p \in DOMAIN q : ~q[p].topic /\ q[p].n = m
        BY <2>1, <2>2 DEF Tidy
      <3>2. ~(p < f[i])
        <4> SUFFICES ASSUME p < f[i]
                     PROVE  FALSE
          OBVIOUS
        <4>1. q[p].n < q[f[i]].n
          BY <2>1, <3>1 DEF Tidy
        <4>2. m >= q[f[i]].n /\ m \in Int /\ q[f[i]].n \in Nat
          BY <2>1, <2>2
        <4> QED
          BY <3>1, <4>1, <4>2
      <3>3. p \in keep
        <4>1. p = f[i] \/ f[i] < p
          BY <1>2, <2>1, <3>2
        <4> QED
          BY <2>1, <3>1, <4>1
      <3>4. PICK k \in 1 .. Len(r) : f[k] = p
        BY <1>1, <3>3
      <3>5. k \in DOMAIN r /\ r[k] = q[p]
        BY <1>2, <1>3, <3>4
      <3> QED
        BY <3>1, <3>5
    <2> QED
      BY <2>1, <2>2
  <1>8. Tidy(r, last)
    BY <1>5, <1>6, <1>7 DEF Tidy
  <1>9. OnTopic(r) # {} <=> OnTopic(q) \cap keep # {}
    <2>1. ASSUME OnTopic(r) # {}
          PROVE  OnTopic(q) \cap keep # {}
      <3>1. PICK k \in DOMAIN r : r[k].topic
        BY <2>1 DEF OnTopic
      <3>2. f[k] \in keep /\ f[k] \in DOMAIN q /\ q[f[k]].topic
        BY <1>3, <3>1
      <3> QED
        BY <3>2 DEF OnTopic
    <2>2. ASSUME OnTopic(q) \cap keep # {}
          PROVE  OnTopic(r) # {}
      <3>1. PICK p \in keep : p \in DOMAIN q /\ q[p].topic
        BY <2>2 DEF OnTopic
      <3>2. PICK k \in 1 .. Len(r) : f[k] = p
        BY <1>1
      <3>3. k \in DOMAIN r /\ r[k].topic
        BY <1>2, <1>3, <3>1, <3>2
      <3> QED
        BY <3>3 DEF OnTopic
    <2> QED
      BY <2>1, <2>2
  <1> QED
    BY <1>3, <1>8, <1>9

\* There is room for one more: a transient toast leaves, if it must be one.
LEMMA RoomMade ==
    ASSUME NEW q \in Seq(Toast), Len(q) <= Visible, NEW last \in Nat, Tidy(q, last)
    PROVE  /\ RoomIn(q) \in Seq(Toast) /\ Len(RoomIn(q)) < Visible
           /\ Tidy(RoomIn(q), last)
           /\ OnTopic(RoomIn(q)) # {} <=> OnTopic(q) # {}
           /\ \A k \in DOMAIN RoomIn(q) : \E i \in DOMAIN q : RoomIn(q)[k] = q[i]
  <1>1. Len(q) \in Nat /\ DOMAIN q = 1 .. Len(q) /\ Len(q) <= 3
    BY DEF Visible
  <1>2. CASE Len(q) < Visible
    <2>1. RoomIn(q) = q
      BY <1>2 DEF RoomIn
    <2> QED
      BY <1>2, <2>1
  <1>3. CASE ~(Len(q) < Visible)
    <2> DEFINE transient == {i \in DOMAIN q : ~q[i].topic}
    <2>1. Len(q) = 3 /\ 1 \in DOMAIN q /\ 2 \in DOMAIN q
      BY <1>1, <1>3 DEF Visible
    <2>2. ~(q[1].topic /\ q[2].topic)
      <3>1. q[1].topic /\ q[2].topic => 1 = 2
        BY <2>1 DEF Tidy
      <3> QED
        BY <3>1
    <2>3. transient # {} /\ transient \in SUBSET Nat
      BY <1>1, <2>1, <2>2
    <2>4. \E i \in transient : \A j \in transient : i <= j
      BY <2>3, LeastOf
    <2> DEFINE i == CHOOSE k \in transient : \A j \in transient : k <= j
    <2>5. i \in transient /\ \A j \in transient : i <= j
      BY <2>4
    <2>6. RoomIn(q) = RemoveAt(q, i)
      BY <1>3, <2>3 DEF RoomIn
    <2> HIDE DEF i
    <2> DEFINE keep == DOMAIN q \ {i}
               r == RemoveAt(q, i)
    <2>7. Thins(q, r, keep) /\ Len(r) = Len(q) - 1
      BY <2>5, RemovedThins
    <2>8. r \in Seq(Toast)
      BY <2>7 DEF Thins
    <2>9. \A a \in keep, b \in DOMAIN q : ~q[a].topic /\ ~q[b].topic /\ a < b => b \in keep
      <3> SUFFICES ASSUME NEW a \in keep, NEW b \in DOMAIN q, ~q[a].topic, a < b, b = i
                   PROVE  FALSE
        OBVIOUS
      <3>1. a \in transient /\ a \in Nat /\ b \in Nat
        BY <1>1
      <3> QED
        BY <2>5, <3>1
    <2>10. keep \in SUBSET (DOMAIN q)
      OBVIOUS
    <2> HIDE DEF r
    <2>11. OnTopic(q) \cap keep = OnTopic(q)
      BY <2>5 DEF OnTopic
    <2> HIDE DEF keep
    <2>12. /\ Tidy(r, last)
           /\ OnTopic(r) # {} <=> OnTopic(q) \cap keep # {}
           /\ \A k \in DOMAIN r : \E a \in keep : r[k] = q[a]
      BY <2>7, <2>8, <2>9, <2>10, ThinnedTidy
    <2>13. Len(r) < Visible
      BY <2>1, <2>7 DEF Visible
    <2> QED
      BY <2>6, <2>8, <2>10, <2>11, <2>12, <2>13 DEF r
  <1> QED
    BY <1>2, <1>3

\* What is said last stands last.
LEMMA AppendedTidy ==
    ASSUME NEW q \in Seq(Toast), NEW last \in Nat, Tidy(q, last), NEW t \in Toast,
           NEW upto \in Nat,
           \/ t.topic /\ OnTopic(q) = {} /\ upto = last
           \/ ~t.topic /\ t.n = last + 1 /\ upto = last + 1 /\ \A k \in DOMAIN q : q[k].born <= t.born
    PROVE  /\ Append(q, t) \in Seq(Toast) /\ Len(Append(q, t)) = Len(q) + 1
           /\ Tidy(Append(q, t), upto)
           /\ OnTopic(Append(q, t)) # {} <=> t.topic \/ OnTopic(q) # {}
           /\ \A k \in DOMAIN Append(q, t) : Append(q, t)[k] = t \/ \E i \in DOMAIN q : Append(q, t)[k] = q[i]
  <1> DEFINE r == Append(q, t)
             m == Len(q)
  <1>1. m \in Nat /\ DOMAIN q = 1 .. m
    OBVIOUS
  <1>2. r \in Seq(Toast) /\ Len(r) = m + 1 /\ DOMAIN r = 1 .. (m + 1) /\ r[m + 1] = t /\ \A k \in 1 .. m : r[k] = q[k]
    BY <1>1, AppendProperties
  <1> HIDE DEF r, m
  <1>3. \A k \in DOMAIN r : (k \in DOMAIN q /\ r[k] = q[k]) \/ (k = m + 1 /\ r[k] = t)
    BY <1>1, <1>2
  <1>4. \A k \in DOMAIN q : k \in DOMAIN r /\ r[k] = q[k] /\ k < m + 1
    BY <1>1, <1>2
  <1>5. m + 1 \in DOMAIN r /\ m + 1 \notin DOMAIN q
    BY <1>1, <1>2
  <1>6. OnTopic(r) # {} <=> t.topic \/ OnTopic(q) # {}
    BY <1>2, <1>3, <1>4, <1>5 DEF OnTopic
  <1>7. \A i, j \in DOMAIN r : r[i].topic /\ r[j].topic => i = j
    <2> SUFFICES ASSUME NEW i \in DOMAIN r, NEW j \in DOMAIN r, r[i].topic, r[j].topic
                 PROVE  i = j
      OBVIOUS
    <2>1. CASE t.topic
      <3>1. \A k \in DOMAIN q : ~q[k].topic
        BY <2>1 DEF OnTopic
      <3> QED
        BY <1>3, <3>1
    <2>2. CASE ~t.topic
      <3>1. i \in DOMAIN q /\ j \in DOMAIN q /\ q[i].topic /\ q[j].topic
        BY <1>3, <2>2
      <3> QED
        BY <3>1 DEF Tidy
    <2> QED
      BY <2>1, <2>2
  <1>8. ASSUME NEW i \in DOMAIN r, NEW j \in DOMAIN r, i < j, ~r[i].topic, ~r[j].topic
        PROVE  r[i].n < r[j].n /\ r[i].born <= r[j].born
    <2>1. i \in DOMAIN q /\ r[i] = q[i] /\ i \in Nat /\ j \in Nat
      BY <1>1, <1>2, <1>3, <1>8
    <2>2. CASE j \in DOMAIN q
      <3>1. r[j] = q[j]
        BY <1>4, <2>2
      <3> QED
        BY <1>8, <2>1, <2>2, <3>1 DEF Tidy
    <2>3. CASE j \notin DOMAIN q
      <3>1. r[j] = t /\ ~t.topic /\ t.n = last + 1
        BY <1>3, <1>8, <2>3
      <3>2. q[i].n \in 1 .. last /\ q[i].born <= t.born
        BY <1>8, <2>1, <3>1 DEF Tidy
      <3> QED
        BY <2>1, <3>1, <3>2
    <2> QED
      BY <2>2, <2>3
  <1>9. ASSUME NEW i \in DOMAIN r, ~r[i].topic
        PROVE  /\ r[i].n \in 1 .. upto
               /\ \A k \in r[i].n .. upto : \E j \in DOMAIN r : ~r[j].topic /\ r[j].n = k
    <2>1. CASE i \in DOMAIN q
      <3>1. r[i] = q[i] /\ q[i].n \in 1 .. last /\ ~q[i].topic
        BY <1>4, <1>9, <2>1 DEF Tidy
      <3>2. ASSUME NEW k \in r[i].n .. upto
            PROVE  \E j \in DOMAIN r : ~r[j].topic /\ r[j].n = k
        <4>1. CASE k \in q[i].n .. last
          <5>1. PICK j \in DOMAIN q : ~q[j].topic /\ q[j].n = k
            BY <2>1, <3>1, <4>1 DEF Tidy
          <5> QED
            BY <1>4, <5>1
        <4>2. CASE k \notin q[i].n .. last
          <5>1. k = last + 1 /\ upto = last + 1
            BY <3>1, <3>2, <4>2
          <5>2. ~t.topic /\ t.n = k
            BY <5>1
          <5> QED
            BY <1>2, <1>5, <5>2
        <4> QED
          BY <4>1, <4>2
      <3>3. r[i].n \in 1 .. upto
        BY <3>1
      <3> QED
        BY <3>2, <3>3
    <2>2. CASE i \notin DOMAIN q
      <3>1. r[i] = t /\ ~t.topic /\ t.n = last + 1 /\ upto = last + 1
        BY <1>3, <1>9, <2>2
      <3>2. \A k \in r[i].n .. upto : k = t.n
        BY <3>1
      <3> QED
        BY <1>9, <3>1, <3>2
    <2> QED
      BY <2>1, <2>2
  <1>10. Tidy(r, upto)
    BY <1>7, <1>8, <1>9 DEF Tidy
  <1>11. \A k \in DOMAIN r : r[k] = t \/ \E i \in DOMAIN q : r[k] = q[i]
    BY <1>3
  <1> QED
    BY <1>2, <1>6, <1>10, <1>11 DEF r, m

\* Refreshing the standing toast changes no other.
LEMMA RefreshedTidy ==
    ASSUME NEW q \in Seq(Toast), NEW last \in Nat, Tidy(q, last), NEW r, NEW at \in Nat,
           r = [i \in DOMAIN q |-> IF q[i].topic THEN [q[i] EXCEPT !.born = at] ELSE q[i]]
    PROVE  /\ r \in Seq(Toast) /\ Len(r) = Len(q) /\ DOMAIN r = DOMAIN q
           /\ Tidy(r, last)
           /\ OnTopic(r) = OnTopic(q)
           /\ \A k \in DOMAIN q : /\ r[k].topic = q[k].topic
                                  /\ ~q[k].topic => r[k] = q[k]
                                  /\ q[k].topic => r[k].born = at
  <1>1. DOMAIN q = 1 .. Len(q) /\ Len(q) \in Nat /\ \A k \in DOMAIN q : q[k] \in Toast
    OBVIOUS
  <1>2. ASSUME NEW k \in DOMAIN q
        PROVE  /\ r[k] \in Toast /\ r[k].topic = q[k].topic
               /\ ~q[k].topic => r[k] = q[k]
               /\ q[k].topic => r[k].born = at
    BY <1>1 DEF Toast
  <1>3. r \in [1 .. Len(q) -> Toast]
    BY <1>1, <1>2
  <1>4. r \in Seq(Toast) /\ Len(r) = Len(q) /\ DOMAIN r = DOMAIN q
    BY <1>1, <1>3
  <1>5. OnTopic(r) = OnTopic(q)
    BY <1>2, <1>4 DEF OnTopic
  <1>6. \A i, j \in DOMAIN r : r[i].topic /\ r[j].topic => i = j
    BY <1>2, <1>4 DEF Tidy
  <1>7. ASSUME NEW i \in DOMAIN r, NEW j \in DOMAIN r, i < j, ~r[i].topic, ~r[j].topic
        PROVE  r[i].n < r[j].n /\ r[i].born <= r[j].born
    <2>1. r[i] = q[i] /\ r[j] = q[j] /\ ~q[i].topic /\ ~q[j].topic /\ i \in DOMAIN q /\ j \in DOMAIN q
      BY <1>2, <1>4, <1>7
    <2>2. q[i].n < q[j].n /\ q[i].born <= q[j].born
      BY <1>7, <2>1 DEF Tidy
    <2> QED
      BY <2>1, <2>2
  <1>8. ASSUME NEW i \in DOMAIN r, ~r[i].topic
        PROVE  /\ r[i].n \in 1 .. last
               /\ \A m \in r[i].n .. last : \E j \in DOMAIN r : ~r[j].topic /\ r[j].n = m
    <2>1. r[i] = q[i] /\ ~q[i].topic /\ i \in DOMAIN q
      BY <1>2, <1>4, <1>8
    <2>2. q[i].n \in 1 .. last
      BY <2>1 DEF Tidy
    <2>3. ASSUME NEW m \in r[i].n .. last
          PROVE  \E j \in DOMAIN r : ~r[j].topic /\ r[j].n = m
      <3>1. PICK j \in DOMAIN q : ~q[j].topic /\ q[j].n = m
        BY <2>1, <2>3 DEF Tidy
      <3>2. r[j] = q[j] /\ j \in DOMAIN r
        BY <1>2, <1>4, <3>1
      <3> QED
        BY <3>1, <3>2
    <2> QED
      BY <2>1, <2>2, <2>3
  <1>9. Tidy(r, last)
    BY <1>6, <1>7, <1>8 DEF Tidy
  <1> QED
    BY <1>2, <1>4, <1>5, <1>9

-----------------------------------------------------------------------------
\* The list is tidy, nothing in it is older than it may be, and the next tick is due one
\* past the last.
NoticesInv ==
    /\ toasts \in Seq(Toast) /\ Len(toasts) <= Visible /\ Tidy(toasts, said)
    /\ moment \in Nat /\ beat \in Nat /\ said \in Nat /\ flash \in Nat
    /\ beat <= moment /\ alarm = beat + 1
    /\ beats \in [last : Nat, before : Int] /\ beats.last = beat /\ beats.before < beat
    /\ \A i \in DOMAIN toasts : toasts[i].born <= moment
    /\ \A i \in DOMAIN toasts : ~toasts[i].topic => beat - toasts[i].born < Ttl
    /\ flash # 0 => beat < flash
    /\ OutageStands

\* The next list and what was heard are good, whatever the step was.
GoodList(q, last) ==
    /\ q \in Seq(Toast) /\ Len(q) <= Visible /\ Tidy(q, last)
    /\ \A i \in DOMAIN q : q[i].born <= moment
    /\ \A i \in DOMAIN q : ~q[i].topic => beat - q[i].born < Ttl

LEMMA InsertGood ==
    ASSUME NoticesInv, NEW t \in Toast, t.born = moment, NEW upto \in Nat,
           \/ t.topic /\ OnTopic(toasts) = {} /\ upto = said
           \/ ~t.topic /\ t.n = said + 1 /\ upto = said + 1
    PROVE  /\ GoodList(Insert(toasts, t), upto)
           /\ OnTopic(Insert(toasts, t)) # {} <=> t.topic \/ OnTopic(toasts) # {}
  <1> DEFINE room == RoomIn(toasts)
  <1>1. /\ toasts \in Seq(Toast) /\ Len(toasts) <= Visible /\ Tidy(toasts, said) /\ said \in Nat
        /\ moment \in Nat /\ beat \in Nat /\ beat <= moment
        /\ \A i \in DOMAIN toasts : toasts[i].born <= moment
        /\ \A i \in DOMAIN toasts : ~toasts[i].topic => beat - toasts[i].born < Ttl
    BY DEF NoticesInv
  <1>2. /\ room \in Seq(Toast) /\ Len(room) < Visible
        /\ Tidy(room, said)
        /\ OnTopic(room) # {} <=> OnTopic(toasts) # {}
        /\ \A k \in DOMAIN room : \E i \in DOMAIN toasts : room[k] = toasts[i]
    BY <1>1, RoomMade
  <1>3. Insert(toasts, t) = Append(room, t)
    BY <1>2 DEF Insert
  <1> HIDE DEF room
  <1>4. /\ \A k \in DOMAIN room : room[k].born <= moment
        /\ \A k \in DOMAIN room : ~room[k].topic => beat - room[k].born < Ttl
    BY <1>1, <1>2
  <1>5. \/ t.topic /\ OnTopic(room) = {} /\ upto = said
        \/ ~t.topic /\ t.n = said + 1 /\ upto = said + 1 /\ \A k \in DOMAIN room : room[k].born <= t.born
    BY <1>2, <1>4
  <1> DEFINE r == Append(room, t)
  <1>6. /\ r \in Seq(Toast) /\ Len(r) = Len(room) + 1
        /\ Tidy(r, upto)
        /\ OnTopic(r) # {} <=> t.topic \/ OnTopic(room) # {}
        /\ \A k \in DOMAIN r : r[k] = t \/ \E i \in DOMAIN room : r[k] = room[i]
    BY <1>1, <1>2, <1>5, AppendedTidy
  <1> HIDE DEF r
  <1>7. Len(r) <= Visible
    <2>1. Len(room) \in Nat
      BY <1>2
    <2> QED
      BY <1>2, <1>6, <2>1 DEF Visible
  <1>8. Ttl \in Nat /\ Ttl > 0
    BY NoticesAssumption
  <1>9. \A k \in DOMAIN r : r[k].born <= moment
    BY <1>1, <1>4, <1>6
  <1>10. \A k \in DOMAIN r : ~r[k].topic => beat - r[k].born < Ttl
    <2> SUFFICES ASSUME NEW k \in DOMAIN r, ~r[k].topic
                 PROVE  beat - r[k].born < Ttl
      OBVIOUS
    <2>1. CASE r[k] = t
      BY <1>1, <1>8, <2>1
    <2>2. CASE r[k] # t
      BY <1>4, <1>6, <2>2
    <2> QED
      BY <2>1, <2>2
  <1> QED
    BY <1>2, <1>3, <1>6, <1>7, <1>9, <1>10 DEF GoodList, r

\* Whatever is taken out of the list, the older ones first, it stays good.
LEMMA RetainGood ==
    ASSUME NoticesInv, NEW keep \in SUBSET (DOMAIN toasts),
           \A i \in keep, j \in DOMAIN toasts : ~toasts[i].topic /\ ~toasts[j].topic /\ i < j => j \in keep
    PROVE  /\ GoodList(Retained(toasts, keep), said)
           /\ OnTopic(Retained(toasts, keep)) # {} <=> OnTopic(toasts) \cap keep # {}
           /\ \A k \in DOMAIN Retained(toasts, keep) : \E i \in keep : Retained(toasts, keep)[k] = toasts[i]
  <1> DEFINE r == Retained(toasts, keep)
  <1>1. /\ toasts \in Seq(Toast) /\ Len(toasts) <= Visible /\ Tidy(toasts, said) /\ said \in Nat
        /\ \A i \in DOMAIN toasts : toasts[i].born <= moment
        /\ \A i \in DOMAIN toasts : ~toasts[i].topic => beat - toasts[i].born < Ttl
    BY DEF NoticesInv
  <1>2. Thins(toasts, r, keep)
    BY <1>1, RetainedThins
  <1> HIDE DEF r
  <1>3. r \in Seq(Toast) /\ Len(r) <= Visible
    <2>1. r \in Seq(Toast) /\ Len(r) <= Len(toasts)
      BY <1>2 DEF Thins
    <2>2. Len(r) \in Nat /\ Len(toasts) \in Nat
      BY <1>1, <2>1
    <2> QED
      BY <1>1, <2>1, <2>2 DEF Visible
  <1>4. /\ Tidy(r, said)
        /\ OnTopic(r) # {} <=> OnTopic(toasts) \cap keep # {}
        /\ \A k \in DOMAIN r : \E i \in keep : r[k] = toasts[i]
    BY <1>1, <1>2, <1>3, ThinnedTidy
  <1> QED
    BY <1>1, <1>3, <1>4 DEF GoodList, r

LEMMA NoticesTick ==
    ASSUME NoticesInv, TickBeats
    PROVE  NoticesInv'
  <1> DEFINE keep == {i \in DOMAIN toasts : toasts[i].topic \/ moment - toasts[i].born < Ttl}
             r == Retained(toasts, keep)
  <1>1. /\ toasts \in Seq(Toast) /\ Tidy(toasts, said) /\ moment \in Nat /\ beat \in Nat
        /\ beat <= moment /\ alarm = beat + 1 /\ said \in Nat /\ flash \in Nat
    BY DEF NoticesInv
  <1>2. /\ moment >= alarm /\ alarm' = moment + 1 /\ beat' = moment
        /\ beats' = [last |-> moment, before |-> beats.last]
        /\ toasts' = r /\ flash' = (IF flash # 0 /\ moment >= flash THEN 0 ELSE flash)
        /\ moment' = moment /\ said' = said /\ heard' = heard
    BY DEF TickBeats, NextAlarm, Unexpired
  <1>3. keep \in SUBSET (DOMAIN toasts)
    OBVIOUS
  <1>4. \A i \in DOMAIN toasts : toasts[i] \in Toast /\ toasts[i].born \in Nat /\ i \in Nat
    BY <1>1, ToastTyped
  <1>5. \A i \in keep, j \in DOMAIN toasts : ~toasts[i].topic /\ ~toasts[j].topic /\ i < j => j \in keep
    <2> SUFFICES ASSUME NEW i \in keep, NEW j \in DOMAIN toasts, ~toasts[i].topic, ~toasts[j].topic, i < j
                 PROVE  j \in keep
      OBVIOUS
    <2>1. toasts[i].born <= toasts[j].born
      BY <1>1 DEF Tidy
    <2>2. moment - toasts[i].born < Ttl /\ toasts[i].born \in Nat /\ toasts[j].born \in Nat /\ Ttl \in Nat
      BY <1>4, NoticesAssumption
    <2>3. moment - toasts[j].born < Ttl
      BY <1>1, <2>1, <2>2
    <2> QED
      BY <2>3
  <1>6. /\ GoodList(r, said)
        /\ OnTopic(r) # {} <=> OnTopic(toasts) \cap keep # {}
        /\ \A k \in DOMAIN r : \E i \in keep : r[k] = toasts[i]
    <2> HIDE DEF keep
    <2> QED
      BY <1>3, <1>5, RetainGood
  <1>7. OnTopic(toasts) \cap keep = OnTopic(toasts)
    BY DEF OnTopic
  <1>8. \A k \in DOMAIN r : ~r[k].topic => moment - r[k].born < Ttl
    <2>1. \A i \in keep : ~toasts[i].topic => moment - toasts[i].born < Ttl
      OBVIOUS
    <2> HIDE DEF r, keep
    <2> QED
      BY <1>6, <2>1
  <1> HIDE DEF r, keep
  <1>9. OutageStands'
    <2>1. OnTopic(toasts') # {} <=> OnTopic(toasts) # {}
      BY <1>2, <1>6, <1>7
    <2>2. OnTopic(toasts)' = OnTopic(toasts')
      BY DEF OnTopic
    <2> QED
      BY <1>2, <2>1, <2>2 DEF NoticesInv, OutageStands
  <1>10. /\ toasts' \in Seq(Toast) /\ Len(toasts') <= Visible /\ Tidy(toasts', said')
         /\ \A i \in DOMAIN toasts' : toasts'[i].born <= moment'
         /\ \A i \in DOMAIN toasts' : ~toasts'[i].topic => beat' - toasts'[i].born < Ttl
    BY <1>2, <1>6, <1>8 DEF GoodList
  <1>11. beats' \in [last : Nat, before : Int] /\ beats'.last = beat' /\ beats'.before < beat'
    BY <1>1, <1>2 DEF NoticesInv
  <1>12. flash' \in Nat /\ (flash' # 0 => beat' < flash')
    BY <1>1, <1>2
  <1>13. beat' <= moment' /\ alarm' = beat' + 1 /\ moment' \in Nat /\ beat' \in Nat /\ said' \in Nat
    BY <1>1, <1>2
  <1>14. Tidy(toasts, said)' = Tidy(toasts', said')
    BY DEF Tidy
  <1> QED
    BY <1>9, <1>10, <1>11, <1>12, <1>13, <1>14 DEF NoticesInv

\* A step that changes the list of toasts and none of the clocks.
LEMMA NoticesSaid ==
    ASSUME NoticesInv, UNCHANGED <<moment, alarm, beat, beats>>, said' \in Nat, flash' \in Nat,
           flash' # 0 => beat < flash', GoodList(toasts', said'),
           OnTopic(toasts') # {} <=> heard' = "failure"
    PROVE  NoticesInv'
  <1>1. OutageStands'
    BY DEF OutageStands, OnTopic
  <1>2. Tidy(toasts, said)' = Tidy(toasts', said')
    BY DEF Tidy
  <1> QED
    BY <1>1, <1>2 DEF NoticesInv, GoodList

LEMMA SpeaksGood ==
    ASSUME NoticesInv, NEW kind, SpeaksUp(kind)
    PROVE  NoticesInv'
  <1>1. /\ toasts \in Seq(Toast) /\ Tidy(toasts, said) /\ moment \in Nat /\ beat \in Nat
        /\ beat <= moment /\ said \in Nat /\ flash \in Nat
        /\ (OnTopic(toasts) # {} <=> heard = "failure")
    BY DEF NoticesInv, OutageStands
  <1> DEFINE t == [n |-> said + 1, topic |-> FALSE, born |-> moment]
  <1>2. t \in Toast /\ t.born = moment /\ ~t.topic /\ t.n = said + 1 /\ said + 1 \in Nat
    <2>1. said + 1 \in Nat /\ moment \in Nat
      BY <1>1
    <2>2. t.born = moment /\ t.topic = FALSE /\ t.n = said + 1
      OBVIOUS
    <2>3. t \in Toast
      BY <2>1 DEF Toast
    <2> QED
      BY <2>1, <2>2, <2>3
  <1>3. toasts' = Insert(toasts, t) /\ said' = said + 1
    BY DEF SpeaksUp, Pushed
  <1> HIDE DEF t
  <1>4. /\ GoodList(toasts', said')
        /\ OnTopic(toasts') # {} <=> OnTopic(toasts) # {}
    BY <1>2, <1>3, InsertGood
  <1>5. flash' \in Nat /\ (flash' # 0 => beat < flash')
    <2>1. FlashTicks \in Nat /\ FlashTicks > 0
      BY NoticesAssumption
    <2>2. flash' = flash \/ flash' = moment + FlashTicks
      BY DEF SpeaksUp
    <2>3. flash # 0 => beat < flash
      BY DEF NoticesInv
    <2> QED
      BY <1>1, <2>1, <2>2, <2>3
  <1>6. UNCHANGED <<moment, alarm, beat, beats, heard>>
    BY DEF SpeaksUp
  <1> QED
    BY <1>1, <1>2, <1>3, <1>4, <1>5, <1>6, NoticesSaid

LEMMA NoticesStep ==
    ASSUME NoticesInv, [NoticesNext]_noticeVars
    PROVE  NoticesInv'
  <1>1. /\ toasts \in Seq(Toast) /\ Tidy(toasts, said) /\ moment \in Nat /\ beat \in Nat
        /\ beat <= moment /\ said \in Nat /\ flash \in Nat
        /\ (OnTopic(toasts) # {} <=> heard = "failure")
    BY DEF NoticesInv, OutageStands
  <1>2. CASE TimeGoesBy
    <2>1. PICK d \in 1 .. Stall : moment' = moment + d
      BY <1>2 DEF TimeGoesBy
    <2>2. moment' \in Nat /\ moment <= moment'
      BY <1>1, <2>1, NoticesAssumption
    <2>3. UNCHANGED <<alarm, beat, beats, toasts, said, flash, heard>>
      BY <1>2 DEF TimeGoesBy
    <2>4. \A i \in DOMAIN toasts : toasts[i].born \in Nat
      BY <1>1, ToastTyped
    <2>5. \A i \in DOMAIN toasts : toasts[i].born <= moment'
      BY <1>1, <2>2, <2>4 DEF NoticesInv
    <2> QED
      BY <1>1, <2>2, <2>3, <2>5 DEF NoticesInv, OutageStands, OnTopic, Tidy
  <1>3. CASE TickBeats
    BY <1>3, NoticesTick
  <1>4. ASSUME NEW kind \in {"outcome", "unknown command"}, SpeaksUp(kind)
        PROVE  NoticesInv'
    BY <1>4, SpeaksGood
  <1>5. ASSUME NEW reply \in {"page", "entry", "null"}, AniListAnswers(reply)
        PROVE  NoticesInv'
    <2> DEFINE keep == DOMAIN toasts \ OnTopic(toasts)
    <2>1. toasts' = Retained(toasts, keep) /\ heard' = "answer"
      BY <1>5 DEF AniListAnswers, Clears, Cleared
    <2>2. \A i \in keep, j \in DOMAIN toasts : ~toasts[i].topic /\ ~toasts[j].topic /\ i < j => j \in keep
      BY DEF OnTopic
    <2>3. OnTopic(toasts) \cap keep = {} /\ keep \in SUBSET (DOMAIN toasts)
      OBVIOUS
    <2> HIDE DEF keep
    <2>4. GoodList(toasts', said) /\ OnTopic(toasts') = {}
      BY <2>1, <2>2, <2>3, RetainGood
    <2>5. UNCHANGED <<moment, alarm, beat, beats, said, flash>>
      BY <1>5 DEF AniListAnswers
    <2>6. flash # 0 => beat < flash
      BY DEF NoticesInv
    <2> QED
      BY <1>1, <2>1, <2>4, <2>5, <2>6, NoticesSaid
  <1>6. CASE AniListFails
    <2>1. toasts' = Lasting(toasts) /\ heard' = "failure" /\ UNCHANGED <<moment, alarm, beat, beats, said, flash>>
      BY <1>6 DEF AniListFails
    <2>2. GoodList(toasts', said) /\ OnTopic(toasts') # {}
      <3>1. CASE OnTopic(toasts) = {}
        <4> DEFINE t == [n |-> 0, topic |-> TRUE, born |-> moment]
        <4>1. t \in Toast /\ t.born = moment /\ t.topic
          BY <1>1 DEF Toast
        <4>2. toasts' = Insert(toasts, t)
          BY <2>1, <3>1 DEF Lasting
        <4> HIDE DEF t
        <4> QED
          BY <1>1, <3>1, <4>1, <4>2, InsertGood
      <3>2. CASE OnTopic(toasts) # {}
        <4> DEFINE r == [i \in DOMAIN toasts |-> IF toasts[i].topic THEN [toasts[i] EXCEPT !.born = moment] ELSE toasts[i]]
        <4>1. toasts' = r
          BY <2>1, <3>2 DEF Lasting
        <4>2. /\ r \in Seq(Toast) /\ Len(r) = Len(toasts) /\ DOMAIN r = DOMAIN toasts
              /\ Tidy(r, said)
              /\ OnTopic(r) = OnTopic(toasts)
              /\ \A k \in DOMAIN toasts : /\ r[k].topic = toasts[k].topic
                                          /\ ~toasts[k].topic => r[k] = toasts[k]
                                          /\ toasts[k].topic => r[k].born = moment
          BY <1>1, RefreshedTidy
        <4> HIDE DEF r
        <4>3. /\ Len(toasts) <= Visible
              /\ \A i \in DOMAIN toasts : toasts[i].born <= moment
              /\ \A i \in DOMAIN toasts : ~toasts[i].topic => beat - toasts[i].born < Ttl
          BY DEF NoticesInv
        <4>4. \A i \in DOMAIN r : r[i].born <= moment /\ (~r[i].topic => beat - r[i].born < Ttl)
          <5> SUFFICES ASSUME NEW i \in DOMAIN r
                       PROVE  r[i].born <= moment /\ (~r[i].topic => beat - r[i].born < Ttl)
            OBVIOUS
          <5>1. i \in DOMAIN toasts /\ toasts[i].topic \in BOOLEAN
            BY <1>1, <4>2, ToastTyped
          <5>2. CASE toasts[i].topic
            <6>1. r[i].topic /\ r[i].born = moment
              BY <4>2, <5>1, <5>2
            <6> QED
              BY <1>1, <6>1
          <5>3. CASE ~toasts[i].topic
            BY <4>2, <4>3, <5>1, <5>3
          <5> QED
            BY <5>2, <5>3
        <4>5. GoodList(r, said)
          BY <4>2, <4>3, <4>4 DEF GoodList
        <4> QED
          BY <3>2, <4>1, <4>2, <4>5
      <3> QED
        BY <3>1, <3>2
    <2>3. flash # 0 => beat < flash
      BY DEF NoticesInv
    <2> QED
      BY <1>1, <2>1, <2>2, <2>3, NoticesSaid
  <1>7. CASE UNCHANGED noticeVars
    BY <1>7 DEF noticeVars, NoticesInv, OutageStands, OnTopic, Tidy
  <1> QED
    BY <1>2, <1>3, <1>4, <1>5, <1>6, <1>7 DEF NoticesNext, StaleAnswer

LEMMA NoticesInit_Good ==
    ASSUME NoticesInit
    PROVE  NoticesInv
  <1> DEFINE e == <<>>
  <1>1. e \in Seq(Toast) /\ Len(e) = 0 /\ DOMAIN e = {}
    OBVIOUS
  <1> HIDE DEF e
  <1>2. toasts = e
    BY DEF NoticesInit, e
  <1>3. Tidy(toasts, said)
    BY <1>1, <1>2 DEF Tidy
  <1>4. OutageStands
    BY <1>1, <1>2 DEF NoticesInit, OutageStands, OnTopic
  <1>5. Len(toasts) <= Visible
    BY <1>1, <1>2 DEF Visible
  <1> QED
    BY <1>1, <1>2, <1>3, <1>4, <1>5 DEF NoticesInit, NoticesInv

\* The newest are shown: the list has no gap below what was said last.
LEMMA TidyShowsNewest ==
    ASSUME NEW q \in Seq(Toast), NEW last \in Nat, Tidy(q, last)
    PROVE  LET shown == {q[i].n : i \in {j \in DOMAIN q : ~q[j].topic}}
           IN  shown = {} \/ \E k \in 1 .. last : shown = k .. last
  <1> DEFINE shown == {q[i].n : i \in {j \in DOMAIN q : ~q[j].topic}}
  <1>1. shown \subseteq 1 .. last
    BY DEF Tidy
  <1> SUFFICES ASSUME shown # {}
               PROVE  \E k \in 1 .. last : shown = k .. last
    OBVIOUS
  <1>2. PICK k \in shown : \A m \in shown : k <= m
    <2>1. shown \in SUBSET Nat
      BY <1>1
    <2> HIDE DEF shown
    <2> QED
      BY <2>1, LeastOf
  <1>3. PICK i \in DOMAIN q : ~q[i].topic /\ q[i].n = k
    BY <1>2
  <1>4. \A m \in k .. last : m \in shown
    BY <1>3 DEF Tidy
  <1>5. shown \subseteq k .. last
    BY <1>1, <1>2
  <1> QED
    BY <1>1, <1>2, <1>4, <1>5

\* Whatever is said, answered and missed: the outage stands exactly while AniList is out
\* of reach, nothing lingers, the newest toasts are those shown, and ticks keep
\* apart (toast.rs, clock.rs, app.rs).
THEOREM NoticesAreSound == NoticesSpec => []NoticesTypeOK /\ []NoticesSound
  <1>1. NoticesInit => NoticesInv
    BY NoticesInit_Good
  <1>2. NoticesInv /\ [NoticesNext]_noticeVars => NoticesInv'
    BY NoticesStep
  <1>3. NoticesInv => NoticesTypeOK
    BY DEF NoticesInv, NoticesTypeOK
  <1>4. NoticesInv => NoticesSound
    <2> SUFFICES ASSUME NoticesInv
                 PROVE  NoticesSound
      OBVIOUS
    <2>1. OutageStands /\ TicksApart
      BY DEF NoticesInv, TicksApart
    <2>2. NewestShown
      BY TidyShowsNewest DEF NoticesInv, NewestShown
    <2>3. Cardinality(OnTopic(toasts)) <= 1
      <3>1. CASE OnTopic(toasts) = {}
        BY <3>1, FS_EmptySet
      <3>2. CASE OnTopic(toasts) # {}
        <4>1. PICK i : i \in OnTopic(toasts)
          BY <3>2
        <4>2. OnTopic(toasts) = {i}
          BY <4>1 DEF NoticesInv, Tidy, OnTopic
        <4>3. Cardinality({i}) = 1
          BY FS_Singleton
        <4> QED
          BY <4>2, <4>3
      <3> QED
        BY <3>1, <3>2
    <2>4. NothingLingers
      BY <2>3 DEF NoticesInv, NothingLingers
    <2> QED
      BY <2>1, <2>2, <2>4 DEF NoticesSound
  <1> QED
    BY <1>1, <1>2, <1>3, <1>4, PTL DEF NoticesSpec

-----------------------------------------------------------------------------
(***************************************************************************)
(* The settings and their file.                                            *)
(***************************************************************************)
Whole(c) == c = [id \in Settings |-> c[id]]

TabKept(t) == t = [editing |-> t.editing, buffer |-> t.buffer, dirty |-> t.dirty]

LEMMA SettingsAre ==
    Settings = {"path", "quality", "translation", "offset", "skip", "provider", "covers", "kanji",
                "palette", "transparent", "landing", "titles", "sync", "updates"}
  BY DEF Settings, Defaults

LEMMA SetWhole ==
    ASSUME NEW c, Whole(c), NEW id \in Settings, NEW v
    PROVE  /\ Whole([c EXCEPT ![id] = v])
           /\ [c EXCEPT ![id] = v][id] = v
           /\ \A s \in Settings \ {id} : [c EXCEPT ![id] = v][s] = c[s]
  <1>1. DOMAIN c = Settings
    BY DEF Whole
  <1>2. [c EXCEPT ![id] = v] = [s \in Settings |-> IF s = id THEN v ELSE c[s]]
    BY <1>1
  <1> DEFINE d == [c EXCEPT ![id] = v]
  <1>3. \A s \in Settings : d[s] = IF s = id THEN v ELSE c[s]
    BY <1>2
  <1>4. d = [s \in Settings |-> d[s]]
    BY <1>2, <1>3
  <1> QED
    BY <1>3, <1>4 DEF Whole

\* The rows that are cycled or toggled are settings, and the path is none of them.
LEMMA RowsAreSettings ==
    ASSUME NEW id, NEW kind \in {"cycle", "toggle"}, Row(id, kind) \in ToSet(Rows)
    PROVE  id \in Settings \ {"path"}
  <1>1. PICK r \in 1 .. 15 : Row(id, kind) = Rows[r]
    BY DEF ToSet, Rows
  <1>2. id = Rows[r].id /\ kind = Rows[r].kind
    BY <1>1 DEF Row
  <1> QED
    BY <1>1, <1>2, SettingsAre DEF Rows, Row

-----------------------------------------------------------------------------
\* What is in the file is what was set, for all the user has not changed; a save under way
\* has the tab's edits and no other; and out of the tab nothing is owed without a word.
PrefInv ==
    /\ Whole(config) /\ Whole(stored.config) /\ TabKept(tab)
    /\ saving = "written" => draft = [kind |-> "whole", config |-> config]
    /\ stored.kind = "whole" => \A id \in Settings \ changed : stored.config[id] = config[id]
    /\ owed \subseteq changed /\ changed \subseteq Tried \cup {"translation"}
    /\ place = "elsewhere" => ~tab.dirty /\ ~tab.editing
    /\ saving # "no" => place = "settings" /\ ~tab.dirty /\ ~tab.editing
    /\ place # "off" /\ saving = "no" /\ ~tab.dirty =>
          /\ owed # {} => told = "not saved"
          /\ told = "saved" => \A id \in Settings \ {"translation"} : stored.config[id] = config[id]
    /\ PathNamed /\ GridOnTrack

TabPlaces == place \in {"settings", "elsewhere", "off"} /\ bound \in {"elsewhere", "off"}

\* What a step does to the file.
FileKept ==
    /\ stored.kind # "damaged" => stored'.kind # "damaged"
    /\ stored.kind = "whole" /\ stored'.kind = "whole" =>
          \A id \in Settings \ changed : stored'.config[id] = stored.config[id]

LEMMA PrefInitGood ==
    ASSUME PreferencesInit
    PROVE  PrefInv
  <1>1. Whole(Defaults)
    BY SettingsAre DEF Whole, Defaults
  <1>2. Whole(stored.config)
    BY StoredAssumption DEF PreferencesInit, Whole
  <1>3. Whole(config)
    BY <1>1, <1>2 DEF PreferencesInit, LoadedFrom
  <1>4. TabKept(tab)
    BY DEF PreferencesInit, FreshTab, TabKept
  <1>5. stored.kind = "whole" => config = stored.config
    BY DEF PreferencesInit, LoadedFrom
  <1>6. ~tab.dirty /\ ~tab.editing
    BY DEF PreferencesInit, FreshTab
  <1> QED
    BY <1>2, <1>3, <1>4, <1>5, <1>6 DEF PreferencesInit, PrefInv, PathNamed, GridOnTrack

\* The grid that is asked anew is of the track that is set.
LEMMA AskedAnew ==
    ASSUME GridOnTrack, NEW c, config' = c, AskAnew(c)
    PROVE  GridOnTrack'
  <1>1. CASE c.translation # config.translation /\ gridTrack # "none"
    BY <1>1 DEF AskAnew, GridOnTrack
  <1>2. CASE ~(c.translation # config.translation /\ gridTrack # "none")
    <2>1. gridTrack' = gridTrack /\ (gridTrack # "none" => Track(c) = Track(config))
      BY <1>2 DEF AskAnew, Track
    <2> QED
      BY <2>1 DEF GridOnTrack, Track
  <1> QED
    BY <1>1, <1>2

\* An edit of a row, or of the path.
LEMMA EditGood ==
    ASSUME PrefInv, NEW id \in Settings, NEW v, Edit(id, [config EXCEPT ![id] = v]), Listens, place = "settings",
           id = "path" => v # "", TabKept(tab'), tab'.dirty
    PROVE  PrefInv' /\ FileKept
  <1> DEFINE c == [config EXCEPT ![id] = v]
  <1>1. /\ Whole(c) /\ c[id] = v
        /\ \A s \in Settings \ {id} : c[s] = config[s]
    <2>1. Whole(config)
      BY DEF PrefInv
    <2>2. id \in Settings
      OBVIOUS
    <2> QED
      BY ONLY <2>1, <2>2, SetWhole
  <1>2. /\ config' = c /\ AskAnew(c) /\ id \in Tried
        /\ owed' = owed \cup {id} /\ changed' = changed \cup {id}
        /\ UNCHANGED <<saveVars, place, launches>>
    BY DEF Edit
  <1> HIDE DEF c
  <1>3. GridOnTrack'
    BY <1>2, AskedAnew DEF PrefInv
  <1>4. UNCHANGED <<stored, draft, folder, saving, bound, told, place>>
    BY <1>2 DEF saveVars
  <1>5. saving = "no" /\ place = "settings"
    BY DEF Listens
  <1>6. PathNamed'
    <2>1. "path" \in Settings
      BY SettingsAre
    <2>2. "path" \in changed' => config'["path"] # ""
      BY <1>1, <1>2, <2>1 DEF PrefInv, PathNamed
    <2> QED
      BY <2>2 DEF PathNamed
  <1>7. stored'.kind = "whole" => \A s \in Settings \ changed' : stored'.config[s] = config'[s]
    BY <1>1, <1>2, <1>4 DEF PrefInv
  <1>8. Whole(config') /\ Whole(stored'.config)
    BY <1>1, <1>2, <1>4 DEF PrefInv
  <1>9. owed' \subseteq changed' /\ changed' \subseteq Tried \cup {"translation"}
    BY <1>2 DEF PrefInv
  <1>10. FileKept
    BY <1>4 DEF FileKept
  <1>11. Whole(config)' /\ Whole(stored.config)' /\ TabKept(tab)'
    BY <1>8 DEF Whole, TabKept
  <1> QED
    BY <1>3, <1>4, <1>5, <1>6, <1>7, <1>9, <1>10, <1>11 DEF PrefInv

\* The keys that leave settings and file alone.
LEMMA KeysKeep ==
    ASSUME PrefInv, EditText \/ TypeText \/ DropText \/ EngageGrid \/ OpenTab
    PROVE  PrefInv' /\ FileKept
  <1>1. UNCHANGED <<config, stored, draft, saving, told, owed, changed>>
    BY DEF EditText, TypeText, DropText, EngageGrid, OpenTab, saveVars
  <1>2. TabKept(tab') /\ tab'.dirty = tab.dirty
    BY DEF EditText, TypeText, DropText, EngageGrid, OpenTab, PrefInv, TabKept
  <1>3. saving = "no" /\ place # "off"
    BY DEF EditText, TypeText, DropText, EngageGrid, OpenTab, OnRow, Listens
  <1>4. place' # "off" /\ (place' = "elsewhere" => place = "elsewhere" /\ ~tab'.editing)
    BY <1>3 DEF EditText, TypeText, DropText, EngageGrid, OpenTab, OnRow, Listens, PrefInv
  <1>5. GridOnTrack'
    BY <1>1 DEF EditText, TypeText, DropText, EngageGrid, OpenTab, PrefInv, GridOnTrack, Track
  <1>6. Whole(config)' /\ Whole(stored.config)' /\ TabKept(tab)'
    BY <1>1, <1>2 DEF PrefInv, Whole, TabKept
  <1>7. PathNamed'
    BY <1>1 DEF PrefInv, PathNamed
  <1> QED
    BY <1>1, <1>2, <1>3, <1>4, <1>5, <1>6, <1>7 DEF PrefInv, FileKept

LEMMA DubGood ==
    ASSUME PrefInv, DubCommand
    PROVE  PrefInv' /\ FileKept
  <1> DEFINE v == IF config.translation = "dub" THEN "sub" ELSE "dub"
             c == [config EXCEPT !["translation"] = v]
  <1>1. "translation" \in Settings /\ "path" \in Settings
    BY SettingsAre
  <1>2. /\ Whole(c) /\ \A s \in Settings \ {"translation"} : c[s] = config[s]
    <2> HIDE DEF v
    <2>1. Whole(config)
      BY DEF PrefInv
    <2> QED
      BY <1>1, <2>1, SetWhole
  <1>3. /\ config' = c /\ AskAnew(c) /\ changed' = changed \cup {"translation"}
        /\ UNCHANGED <<saveVars, tab, place, owed, launches>>
    BY DEF DubCommand
  <1> HIDE DEF c
  <1>4. GridOnTrack'
    BY <1>3, AskedAnew DEF PrefInv
  <1>5. UNCHANGED <<stored, draft, folder, saving, bound, told, place, tab, owed>>
    BY <1>3 DEF saveVars
  <1>6. saving = "no" /\ place # "off"
    BY DEF DubCommand, Listens
  <1>7. PathNamed'
    <2>1. "path" \in changed' => config'["path"] # ""
      BY <1>1, <1>2, <1>3 DEF PrefInv, PathNamed
    <2> QED
      BY <2>1 DEF PathNamed
  <1>8. stored'.kind = "whole" => \A s \in Settings \ changed' : stored'.config[s] = config'[s]
    BY <1>2, <1>3, <1>5 DEF PrefInv
  <1>9. place' # "off" /\ saving' = "no" /\ ~tab'.dirty =>
          /\ owed' # {} => told' = "not saved"
          /\ told' = "saved" => \A s \in Settings \ {"translation"} : stored'.config[s] = config'[s]
    BY <1>2, <1>3, <1>5, <1>6 DEF PrefInv
  <1>10. Whole(config)' /\ Whole(stored.config)' /\ TabKept(tab)'
    BY <1>2, <1>3, <1>5 DEF PrefInv, Whole, TabKept
  <1>11. owed' \subseteq changed' /\ changed' \subseteq Tried \cup {"translation"}
    BY <1>3, <1>5 DEF PrefInv
  <1>12. FileKept
    BY <1>5 DEF FileKept
  <1> QED
    BY <1>4, <1>5, <1>6, <1>7, <1>8, <1>9, <1>10, <1>11, <1>12 DEF PrefInv

LEMMA LeaveGood ==
    ASSUME PrefInv, NEW to \in {"elsewhere", "off"}, Leave(to)
    PROVE  PrefInv' /\ FileKept
  <1>1. UNCHANGED <<config, stored, draft, gridTrack, owed, changed>>
    BY DEF Leave
  <1>2. saving = "no" /\ place # "off" /\ ~tab.editing
    BY DEF Leave, Listens
  <1>3. TabKept(tab') /\ ~tab'.dirty /\ ~tab'.editing
    <2>1. tab' = [tab EXCEPT !.dirty = FALSE] /\ TabKept(tab)
      BY DEF Leave, PrefInv
    <2>2. tab' = [editing |-> tab.editing, buffer |-> tab.buffer, dirty |-> FALSE]
      BY <2>1 DEF TabKept
    <2> QED
      BY <1>2, <2>2 DEF TabKept
  <1>4. Whole(config)' /\ Whole(stored.config)' /\ TabKept(tab)' /\ PathNamed' /\ GridOnTrack'
    BY <1>1, <1>3 DEF PrefInv, Whole, TabKept, PathNamed, GridOnTrack, Track
  <1>5. CASE place = "settings" /\ tab.dirty /\ folder
    <2>1. saving' = "begun" /\ place' = "settings"
      BY <1>5 DEF Leave
    <2> QED
      BY <1>1, <1>3, <1>4, <2>1 DEF PrefInv, FileKept
  <1>6. CASE ~(place = "settings" /\ tab.dirty /\ folder)
    <2>1. saving' = saving /\ place' = to /\ told' = (IF place = "settings" /\ tab.dirty THEN "not saved" ELSE told)
      BY <1>6 DEF Leave
    <2>2. place' # "off" /\ saving' = "no" /\ ~tab'.dirty =>
          /\ owed' # {} => told' = "not saved"
          /\ told' = "saved" => \A id \in Settings \ {"translation"} : stored'.config[id] = config'[id]
      <3>1. CASE tab.dirty
        <4>1. place' # "off" => told' = "not saved"
          BY <2>1, <3>1 DEF Leave, PrefInv
        <4> QED
          BY <4>1
      <3>2. CASE ~tab.dirty
        BY <1>1, <1>2, <2>1, <3>2 DEF PrefInv
      <3> QED
        BY <3>1, <3>2
    <2> QED
      BY <1>1, <1>2, <1>3, <1>4, <2>1, <2>2 DEF PrefInv, FileKept
  <1> QED
    BY <1>5, <1>6

\* A save, step by step, and its end.
LEMMA SaveGood ==
    ASSUME PrefInv, SaveStep \/ SaveTakes \/ SaveFails \/ Dies
    PROVE  PrefInv' /\ FileKept
  <1>1. UNCHANGED <<config, tab, gridTrack, changed>>
    BY DEF SaveStep, SaveTakes, SaveFails, Dies
  <1>2. TabKept(tab)' /\ PathNamed' /\ GridOnTrack' /\ Whole(config)'
    BY <1>1 DEF PrefInv, TabKept, PathNamed, GridOnTrack, Track, Whole
  <1>3. CASE SaveTakes
    <2>1. draft = [kind |-> "whole", config |-> config] /\ stored' = draft
      BY <1>3 DEF SaveTakes, PrefInv
    <2>2. stored'.kind = "whole" /\ stored'.config = config
      BY <2>1
    <2>3. saving' = "no" /\ owed' = {} /\ ~tab.dirty /\ ~tab.editing
      BY <1>3 DEF SaveTakes, PrefInv
    <2>4. Whole(stored.config)'
      BY <2>2 DEF PrefInv, Whole
    <2>5. owed' \subseteq changed' /\ changed' \subseteq Tried \cup {"translation"}
      BY <1>1, <2>3 DEF PrefInv
    <2>6. FileKept
      BY <2>2 DEF FileKept, PrefInv
    <2> QED
      BY <1>1, <1>2, <2>2, <2>3, <2>4, <2>5, <2>6 DEF PrefInv
  <1>4. CASE ~SaveTakes
    <2>1. stored' = stored /\ owed' = owed
      BY <1>4 DEF SaveStep, SaveFails, Dies, Opens
    <2>2. Whole(stored.config)' /\ FileKept
      BY <2>1 DEF PrefInv, Whole, FileKept
    <2>3. CASE SaveStep
      <3>1. saving # "no" /\ saving' # "no" /\ place' = place
        BY <2>3 DEF SaveStep
      <3>2. saving' = "written" => draft' = [kind |-> "whole", config |-> config]
        BY <2>3 DEF SaveStep
      <3> QED
        BY <1>1, <1>2, <2>1, <2>2, <3>1, <3>2 DEF PrefInv
    <2>4. CASE SaveFails
      <3>1. saving # "no" /\ saving' = "no" /\ told' = "not saved"
        BY <2>4 DEF SaveFails
      <3> QED
        BY <1>1, <1>2, <2>1, <2>2, <3>1 DEF PrefInv
    <2>5. CASE Dies
      <3>1. saving' = "no" /\ place' = "off"
        BY <2>5 DEF Dies
      <3> QED
        BY <1>1, <1>2, <2>1, <2>2, <3>1 DEF PrefInv
    <2> QED
      BY <1>4, <2>3, <2>4, <2>5
  <1> QED
    BY <1>3, <1>4

LEMMA LaunchGood ==
    ASSUME PrefInv, Launches
    PROVE  PrefInv' /\ FileKept
  <1>1. /\ config' = LoadedFrom(stored) /\ tab' = FreshTab /\ place' = "elsewhere" /\ gridTrack' = "none"
        /\ told' = "nothing" /\ owed' = {} /\ changed' = {}
        /\ UNCHANGED <<stored, draft, saving>>
    BY DEF Launches
  <1>2. saving = "no"
    BY DEF Launches, PrefInv
  <1>3. Whole(Defaults)
    BY SettingsAre DEF Whole, Defaults
  <1>4. Whole(config') /\ (stored.kind = "whole" => config' = stored.config)
    BY <1>1, <1>3 DEF LoadedFrom, PrefInv
  <1>5. ~tab'.dirty /\ ~tab'.editing /\ TabKept(tab')
    BY <1>1 DEF FreshTab, TabKept
  <1>6. Whole(config)' /\ Whole(stored.config)' /\ TabKept(tab)'
    BY <1>1, <1>4, <1>5 DEF PrefInv, Whole, TabKept
  <1> QED
    BY <1>1, <1>2, <1>4, <1>5, <1>6 DEF PrefInv, FileKept, PathNamed, GridOnTrack

LEMMA PlacesStep ==
    ASSUME TabPlaces, [PreferencesNext]_prefVars
    PROVE  TabPlaces'
  <1>1. ASSUME NEW id \in Tried, NEW dir \in {-1, 1}, CycleRow(id, dir)
        PROVE  TabPlaces'
    BY <1>1 DEF CycleRow, Edit, saveVars, TabPlaces
  <1>2. ASSUME NEW id \in Tried, ToggleRow(id)
        PROVE  TabPlaces'
    BY <1>2 DEF ToggleRow, Edit, saveVars, TabPlaces
  <1>3. CASE CommitText
    BY <1>3 DEF CommitText, Edit, saveVars, TabPlaces
  <1>4. CASE EditText \/ TypeText \/ DropText \/ DubCommand \/ EngageGrid \/ OpenTab \/ UNCHANGED prefVars
    BY <1>4 DEF EditText, TypeText, DropText, DubCommand, EngageGrid, OpenTab, prefVars, saveVars, TabPlaces
  <1>5. ASSUME NEW to \in {"elsewhere", "off"}, Leave(to)
        PROVE  TabPlaces'
    BY <1>5 DEF Leave, TabPlaces
  <1>6. CASE SaveStep \/ SaveTakes \/ SaveFails \/ Dies \/ Launches
    BY <1>6 DEF SaveStep, SaveTakes, SaveFails, Dies, Launches, TabPlaces
  <1> QED
    BY <1>1, <1>2, <1>3, <1>4, <1>5, <1>6 DEF PreferencesNext

LEMMA PrefStep ==
    ASSUME PrefInv, TabPlaces, [PreferencesNext]_prefVars
    PROVE  PrefInv' /\ FileKept
  <1>1. TabKept(tab)
    BY DEF PrefInv
  <1>2. ASSUME NEW id \in Tried, NEW dir \in {-1, 1}, CycleRow(id, dir)
        PROVE  PrefInv' /\ FileKept
    <2>1. id \in Settings \ {"path"}
      BY <1>2, RowsAreSettings DEF CycleRow
    <2>2. PICK v : Edit(id, [config EXCEPT ![id] = v])
      BY <1>2 DEF CycleRow
    <2>3. tab' = [tab EXCEPT !.dirty = TRUE] /\ Listens /\ place = "settings"
      BY <1>2 DEF CycleRow, OnRow
    <2>4. TabKept(tab') /\ tab'.dirty
      BY <1>1, <2>3 DEF TabKept
    <2> QED
      BY <2>1, <2>2, <2>3, <2>4, EditGood
  <1>3. ASSUME NEW id \in Tried, ToggleRow(id)
        PROVE  PrefInv' /\ FileKept
    <2>1. id \in Settings \ {"path"}
      BY <1>3, RowsAreSettings DEF ToggleRow
    <2>2. PICK v : Edit(id, [config EXCEPT ![id] = v])
      BY <1>3 DEF ToggleRow
    <2>3. tab' = [tab EXCEPT !.dirty = TRUE] /\ Listens /\ place = "settings"
      BY <1>3 DEF ToggleRow, OnRow
    <2>4. TabKept(tab') /\ tab'.dirty
      BY <1>1, <2>3 DEF TabKept
    <2> QED
      BY <2>1, <2>2, <2>3, <2>4, EditGood
  <1>4. CASE CommitText
    <2>1. CASE Takes(tab.buffer)
      <3>1. Edit("path", [config EXCEPT !["path"] = tab.buffer]) /\ tab.buffer # ""
        BY <1>4, <2>1 DEF CommitText, Takes
      <3>2. tab' = [tab EXCEPT !.editing = FALSE, !.buffer = "", !.dirty = TRUE]
        BY <1>4, <2>1 DEF CommitText
      <3>3. TabKept(tab') /\ tab'.dirty
        BY <1>1, <3>2 DEF TabKept
      <3>4. Listens /\ place = "settings"
        <4>1. Listens /\ tab.editing
          BY <1>4 DEF CommitText
        <4>2. place \in {"settings", "elsewhere", "off"}
          BY DEF TabPlaces
        <4> QED
          BY <4>1, <4>2 DEF PrefInv, Listens
      <3>5. "path" \in Settings
        BY SettingsAre
      <3> QED
        BY <3>1, <3>3, <3>4, <3>5, EditGood
    <2>2. CASE ~Takes(tab.buffer)
      <3>1. /\ tab' = [tab EXCEPT !.editing = FALSE]
            /\ UNCHANGED <<saveVars, config, place, gridTrack, owed, changed, edits, launches>>
        BY <1>4, <2>2 DEF CommitText
      <3>2. TabKept(tab') /\ tab'.dirty = tab.dirty /\ ~tab'.editing
        BY <1>1, <3>1 DEF TabKept
      <3>3. Whole(config)' /\ Whole(stored.config)' /\ TabKept(tab)' /\ PathNamed' /\ GridOnTrack'
        BY <3>1, <3>2 DEF PrefInv, saveVars, Whole, TabKept, PathNamed, GridOnTrack, Track
      <3> QED
        BY <3>1, <3>2, <3>3 DEF PrefInv, saveVars, FileKept
    <2> QED
      BY <2>1, <2>2
  <1>5. CASE UNCHANGED prefVars
    BY <1>5 DEF prefVars, saveVars, PrefInv, FileKept, Whole, TabKept, PathNamed, GridOnTrack, Track
  <1> QED
    BY <1>2, <1>3, <1>4, <1>5, KeysKeep, DubGood, LeaveGood, SaveGood, LaunchGood DEF PreferencesNext

-----------------------------------------------------------------------------
\* A wheel has a stop, and no stop twice.
Turning(w) ==
    /\ Len(w) \in Nat \ {0} /\ DOMAIN w = 1 .. Len(w)
    /\ \A i, j \in DOMAIN w : w[i] = w[j] => i = j

Turned(w, v, dir) ==
    LET at == IF v \in ToSet(w) THEN CHOOSE i \in DOMAIN w : w[i] = v ELSE 1
    IN  w[((at - 1 + dir) % Len(w)) + 1]

LEMMA NextPlace ==
    ASSUME NEW n \in Nat \ {0}, NEW i \in 1 .. n
    PROVE  /\ ((i - 1 + 1) % n) + 1 = IF i = n THEN 1 ELSE i + 1
           /\ ((i - 1 + (-1)) % n) + 1 = IF i = 1 THEN n ELSE i - 1
  OBVIOUS

LEMMA TurnsOneStop ==
    ASSUME NEW w, Turning(w), NEW i \in DOMAIN w
    PROVE  /\ w[i] \in ToSet(w)
           /\ Turned(w, w[i], 1) = w[IF i = Len(w) THEN 1 ELSE i + 1]
           /\ Turned(w, w[i], -1) = w[IF i = 1 THEN Len(w) ELSE i - 1]
  <1>1. w[i] \in ToSet(w)
    BY DEF ToSet
  <1> DEFINE at == CHOOSE k \in DOMAIN w : w[k] = w[i]
  <1>2. at = i
    BY DEF Turning
  <1> HIDE DEF at
  <1>3. Len(w) \in Nat \ {0} /\ i \in 1 .. Len(w)
    BY DEF Turning
  <1>4. /\ Turned(w, w[i], 1) = w[((i - 1 + 1) % Len(w)) + 1]
        /\ Turned(w, w[i], -1) = w[((i - 1 + (-1)) % Len(w)) + 1]
    BY <1>1, <1>2 DEF Turned, at
  <1>5. /\ ((i - 1 + 1) % Len(w)) + 1 = IF i = Len(w) THEN 1 ELSE i + 1
        /\ ((i - 1 + (-1)) % Len(w)) + 1 = IF i = 1 THEN Len(w) ELSE i - 1
    BY <1>3, NextPlace
  <1> QED
    BY <1>1, <1>4, <1>5

\* A turn of a wheel can be taken back, and every stop is reached.
LEMMA TurnsBack ==
    ASSUME NEW w, Turning(w), NEW v \in ToSet(w)
    PROVE  /\ Turned(w, Turned(w, v, 1), -1) = v
           /\ v \in {Turned(w, u, 1) : u \in ToSet(w)}
  <1>1. PICK i \in DOMAIN w : v = w[i]
    BY DEF ToSet
  <1>2. Len(w) \in Nat \ {0} /\ i \in 1 .. Len(w) /\ DOMAIN w = 1 .. Len(w)
    BY DEF Turning
  <1> DEFINE next == IF i = Len(w) THEN 1 ELSE i + 1
             before == IF i = 1 THEN Len(w) ELSE i - 1
  <1>3. next \in DOMAIN w /\ before \in DOMAIN w
    BY <1>2
  <1>4. (IF next = 1 THEN Len(w) ELSE next - 1) = i /\ (IF before = Len(w) THEN 1 ELSE before + 1) = i
    BY <1>2
  <1>5. Turned(w, v, 1) = w[next]
    BY <1>1, TurnsOneStop
  <1> HIDE DEF next, before
  <1>6. Turned(w, w[next], -1) = w[i]
    BY <1>3, <1>4, TurnsOneStop
  <1>7. Turned(w, w[before], 1) = w[i] /\ w[before] \in ToSet(w)
    BY <1>3, <1>4, TurnsOneStop
  <1> QED
    BY <1>1, <1>5, <1>6, <1>7

\* A list led by one that is not in it.
LEMMA FirstOfAll ==
    ASSUME NEW first, NEW named, first \notin named, NEW list \in Seq(named),
           \A r, s \in DOMAIN list : list[r] = list[s] => r = s
    PROVE  Turning(<<first>> \o list)
  <1> DEFINE head == <<first>>
             w == head \o list
             S == named \cup {first}
  <1>1. head \in Seq(S) /\ Len(head) = 1 /\ head[1] = first
    OBVIOUS
  <1>2. list \in Seq(S) /\ Len(list) \in Nat /\ DOMAIN list = 1 .. Len(list)
    OBVIOUS
  <1>3. \A r \in DOMAIN list : list[r] # first
    BY <1>2
  <1> HIDE DEF S, head
  <1>4. /\ w \in Seq(S) /\ Len(w) = Len(head) + Len(list)
        /\ \A k \in 1 .. (Len(head) + Len(list)) :
              w[k] = IF k <= Len(head) THEN head[k] ELSE list[k - Len(head)]
    BY ONLY <1>1, <1>2, ConcatProperties
  <1> HIDE DEF w
  <1>5. Len(w) = 1 + Len(list) /\ DOMAIN w = 1 .. Len(w) /\ Len(w) \in Nat \ {0}
    BY <1>1, <1>2, <1>4
  <1>6. ASSUME NEW k \in DOMAIN w
        PROVE  IF k = 1 THEN w[k] = first ELSE k - 1 \in DOMAIN list /\ w[k] = list[k - 1]
    <2>1. k \in 1 .. (1 + Len(list))
      BY <1>5
    <2>2. w[k] = IF k <= 1 THEN head[k] ELSE list[k - 1]
      BY <1>1, <1>4, <2>1
    <2> QED
      BY <1>1, <1>2, <2>1, <2>2
  <1>7. ASSUME NEW i \in DOMAIN w, NEW j \in DOMAIN w, w[i] = w[j], i < j
        PROVE  FALSE
    <2>1. i \in Nat /\ j \in Nat /\ i >= 1 /\ j # 1
      BY <1>5, <1>7
    <2>2. j - 1 \in DOMAIN list /\ w[j] = list[j - 1] /\ w[j] # first
      BY <1>3, <1>6, <2>1
    <2>3. CASE i = 1
      BY <1>6, <1>7, <2>2, <2>3
    <2>4. CASE i # 1
      <3>1. i - 1 \in DOMAIN list /\ w[i] = list[i - 1]
        BY <1>6, <2>4
      <3>2. i - 1 = j - 1
        BY <1>7, <2>2, <3>1
      <3> QED
        BY <1>7, <2>1, <3>2
    <2> QED
      BY <2>3, <2>4
  <1>8. \A i, j \in DOMAIN w : w[i] = w[j] => i = j
    <2> SUFFICES ASSUME NEW i \in DOMAIN w, NEW j \in DOMAIN w, w[i] = w[j]
                 PROVE  i = j
      OBVIOUS
    <2>1. i \in Nat /\ j \in Nat
      BY <1>5
    <2> QED
      BY <1>7, <2>1
  <1>9. Turning(w)
    BY <1>5, <1>8 DEF Turning
  <1> QED
    BY <1>9 DEF w, head

LEMMA WheelsTurn ==
    ASSUME NEW id \in DOMAIN Wheel
    PROVE  Turning(Wheel[id])
  <1>1. id \in {"quality", "translation", "offset", "skip", "provider", "palette", "landing", "titles"}
    BY DEF Wheel
  <1>2. CASE id = "quality"
    <2>1. Wheel[id] = <<"worst", "480", "720", "1080", "best">>
      BY <1>2 DEF Wheel
    <2> QED
      BY <2>1 DEF Turning
  <1>3. CASE id = "translation"
    <2>1. Wheel[id] = <<"sub", "dub">>
      BY <1>3 DEF Wheel
    <2> QED
      BY <2>1 DEF Turning
  <1>4. CASE id = "offset"
    <2>1. Wheel[id] = <<"0", "3", "5", "10", "15", "30">>
      BY <1>4 DEF Wheel
    <2> QED
      BY <2>1 DEF Turning
  <1>5. CASE id = "skip"
    <2>1. Wheel[id] = <<"none", "intro", "outro", "both">>
      BY <1>5 DEF Wheel
    <2> QED
      BY <2>1 DEF Turning
  <1>6. CASE id = "provider"
    <2>1. Wheel[id] = <<"">> \o Registry
      BY <1>6 DEF Wheel
    <2> DEFINE nought == ""
               named == STRING \ {nought}
    <2>2. Registry \in Seq(named) /\ \A r, s \in DOMAIN Registry : Registry[r] = Registry[s] => r = s
      BY PreferencesAssumption
    <2>3. nought \notin named
      OBVIOUS
    <2>4. Wheel[id] = <<nought>> \o Registry
      BY <2>1
    <2> HIDE DEF named, nought
    <2>5. Turning(<<nought>> \o Registry)
      BY <2>2, <2>3, FirstOfAll
    <2> QED
      BY <2>4, <2>5
  <1>7. CASE id = "palette"
    <2>1. Wheel[id] = <<"terminal_ghost", "phosphor", "nord", "tokyonight">>
      BY <1>7 DEF Wheel
    <2> QED
      BY <2>1 DEF Turning
  <1>8. CASE id = "landing"
    <2>1. Wheel[id] = <<"history", "browse", "last_watched">>
      BY <1>8 DEF Wheel
    <2> QED
      BY <2>1 DEF Turning
  <1>9. CASE id = "titles"
    <2>1. Wheel[id] = <<"romaji", "english", "native">>
      BY <1>9 DEF Wheel
    <2> QED
      BY <2>1 DEF Turning
  <1> QED
    BY <1>1, <1>2, <1>3, <1>4, <1>5, <1>6, <1>7, <1>8, <1>9

LEMMA ShownDistinctly ==
    ASSUME NEW id, NEW u, NEW v, ShownAs(id, u) = ShownAs(id, v)
    PROVE  u = v
  <1>1. CASE (id # "provider" \/ u # "") /\ (id # "provider" \/ v # "")
    <2>1. <<u>> = <<v>>
      BY <1>1 DEF ShownAs
    <2> QED
      BY <2>1
  <1> DEFINE default == IF Registry = <<>> THEN <<>> ELSE <<Registry[1], "(default)">>
  <1>2. Len(default) # 1
    OBVIOUS
  <1>3. Len(<<u>>) = 1 /\ Len(<<v>>) = 1
    OBVIOUS
  <1> HIDE DEF default
  <1>4. CASE id = "provider" /\ u = "" /\ v # ""
    <2>1. default = <<v>>
      BY <1>4 DEF ShownAs, default
    <2> QED
      BY <1>2, <1>3, <2>1
  <1>5. CASE id = "provider" /\ u # "" /\ v = ""
    <2>1. default = <<u>>
      BY <1>5 DEF ShownAs, default
    <2> QED
      BY <1>2, <1>3, <2>1
  <1> QED
    BY <1>1, <1>4, <1>5

-----------------------------------------------------------------------------
\* Where x stands in list s.
Stands(x, s) == \E i \in DOMAIN s : s[i] = x

LEMMA JoinedStands ==
    ASSUME NEW S, NEW a \in Seq(S), NEW b \in Seq(S), NEW x
    PROVE  a \o b \in Seq(S) /\ (Stands(x, a) \/ Stands(x, b) => Stands(x, a \o b))
  <1> DEFINE c == a \o b
  <1>1. /\ c \in Seq(S) /\ Len(c) = Len(a) + Len(b)
        /\ \A k \in 1 .. (Len(a) + Len(b)) : c[k] = IF k <= Len(a) THEN a[k] ELSE b[k - Len(a)]
    BY ConcatProperties
  <1> HIDE DEF c
  <1>2. DOMAIN c = 1 .. (Len(a) + Len(b)) /\ Len(a) \in Nat /\ Len(b) \in Nat
    BY <1>1
  <1>3. ASSUME Stands(x, a)
        PROVE  Stands(x, c)
    <2>1. PICK i \in 1 .. Len(a) : a[i] = x
      BY <1>3 DEF Stands
    <2>2. i \in 1 .. (Len(a) + Len(b)) /\ i <= Len(a)
      BY <1>2
    <2>3. c[i] = x
      BY <1>1, <2>1, <2>2
    <2> QED
      BY <1>2, <2>2, <2>3 DEF Stands
  <1>4. ASSUME Stands(x, b)
        PROVE  Stands(x, c)
    <2>1. PICK i \in 1 .. Len(b) : b[i] = x
      BY <1>4 DEF Stands
    <2>2. Len(a) + i \in 1 .. (Len(a) + Len(b)) /\ ~(Len(a) + i <= Len(a)) /\ (Len(a) + i) - Len(a) = i
      BY <1>2
    <2>3. c[Len(a) + i] = x
      BY <1>1, <2>1, <2>2
    <2> QED
      BY <1>2, <2>2, <2>3 DEF Stands
  <1> QED
    BY <1>1, <1>3, <1>4 DEF c

\* A line of the tab is a row or an ornament.
Lines == {Rows[r].id : r \in DOMAIN Rows} \cup {"header", "rule", "note", "blank"}

RowsIn(notes, first, last) ==
    /\ Section(notes, first, last) \in Seq(Lines)
    /\ \A r \in first .. last : Stands(Rows[r].id, Section(notes, first, last))

LEMMA SectionStands ==
    ASSUME NEW notes \in Nat, NEW first \in Nat \ {0}, NEW last \in Nat,
           first <= last, last <= 15
    PROVE  RowsIn(notes, first, last)
  <1> DEFINE head == <<"header", "rule">>
             noted == [n \in 1 .. notes |-> "note"]
             ids == [r \in 1 .. (last - first + 1) |-> Rows[first + r - 1].id]
  <1>1. head \in Seq(Lines)
    BY DEF Lines
  <1>2. noted \in Seq(Lines)
    BY DEF Lines
  <1>3. DOMAIN Rows = 1 .. 15
    BY DEF Rows
  <1>4. \A r \in 1 .. (last - first + 1) : first + r - 1 \in DOMAIN Rows
    BY <1>3
  <1>5. \A r \in DOMAIN Rows : Rows[r].id \in Lines
    BY DEF Lines
  <1>6. ids \in [1 .. (last - first + 1) -> Lines]
    BY <1>4, <1>5
  <1>7. last - first + 1 \in Nat
    OBVIOUS
  <1>8. ids \in Seq(Lines) /\ DOMAIN ids = 1 .. (last - first + 1)
    BY <1>6, <1>7
  <1>9. Section(notes, first, last) = (head \o noted) \o ids
    BY DEF Section
  <1>10. ASSUME NEW r \in first .. last
         PROVE  Stands(Rows[r].id, ids)
    <2>1. r - first + 1 \in 1 .. (last - first + 1) /\ first + (r - first + 1) - 1 = r
      OBVIOUS
    <2>2. ids[r - first + 1] = Rows[r].id
      BY <2>1
    <2> HIDE DEF ids
    <2> QED
      BY <1>8, <2>1, <2>2 DEF Stands
  <1> HIDE DEF head, noted, ids
  <1>11. head \o noted \in Seq(Lines)
    BY <1>1, <1>2, JoinedStands
  <1> DEFINE top == head \o noted
  <1> HIDE DEF top
  <1>12. top \in Seq(Lines)
    BY <1>11 DEF top
  <1>13. top \o ids \in Seq(Lines) /\ \A r \in first .. last : Stands(Rows[r].id, top \o ids)
    BY <1>8, <1>10, <1>12, JoinedStands
  <1> QED
    BY <1>9, <1>13 DEF top, RowsIn

\* Every row is a line of the tab.
LEMMA RowsStand ==
    ASSUME NEW r \in DOMAIN Rows
    PROVE  Stands(Rows[r].id, TabLines) /\ TabLines \in Seq(Lines)
  <1> DEFINE player == Section(0, 1, 5)
             catalog == Section(2, 6, 6)
             interface == Section(0, 7, 12)
             sync == Section(1, 13, 14)
             update == Section(1, 15, 15)
             gap == <<"blank">>
             x == Rows[r].id
  <1>1. r \in 1 .. 15
    BY DEF Rows
  <1>2. gap \in Seq(Lines)
    BY DEF Lines
  <1>4. player \in Seq(Lines) /\ (r \in 1 .. 5 => Stands(x, player))
    <2>1. RowsIn(0, 1, 5)
      BY SectionStands
    <2> QED
      BY <2>1 DEF RowsIn
  <1>5. catalog \in Seq(Lines) /\ (r \in 6 .. 6 => Stands(x, catalog))
    <2>1. RowsIn(2, 6, 6)
      BY SectionStands
    <2> QED
      BY <2>1 DEF RowsIn
  <1>6. interface \in Seq(Lines) /\ (r \in 7 .. 12 => Stands(x, interface))
    <2>1. RowsIn(0, 7, 12)
      BY SectionStands
    <2> QED
      BY <2>1 DEF RowsIn
  <1>7. sync \in Seq(Lines) /\ (r \in 13 .. 14 => Stands(x, sync))
    <2>1. RowsIn(1, 13, 14)
      BY SectionStands
    <2> QED
      BY <2>1 DEF RowsIn
  <1>8. update \in Seq(Lines) /\ (r \in 15 .. 15 => Stands(x, update))
    <2>1. RowsIn(1, 15, 15)
      BY SectionStands
    <2> QED
      BY <2>1 DEF RowsIn
  <1>9. TabLines = player \o gap \o catalog \o gap \o interface \o gap \o sync \o gap \o update
    BY DEF TabLines
  <1> HIDE DEF player, catalog, interface, sync, update, gap, x
  <1> DEFINE l1 == player \o gap
             l2 == l1 \o catalog
             l3 == l2 \o gap
             l4 == l3 \o interface
             l5 == l4 \o gap
             l6 == l5 \o sync
             l7 == l6 \o gap
             l8 == l7 \o update
  <1>10. TabLines = l8
    BY <1>9
  <1> HIDE DEF l1, l2, l3, l4, l5, l6, l7, l8
  <1>11. l1 \in Seq(Lines) /\ (Stands(x, player) => Stands(x, l1))
    BY <1>2, <1>4, JoinedStands DEF l1
  <1>12. l2 \in Seq(Lines) /\ (Stands(x, l1) \/ Stands(x, catalog) => Stands(x, l2))
    BY <1>5, <1>11, JoinedStands DEF l2
  <1>13. l3 \in Seq(Lines) /\ (Stands(x, l2) => Stands(x, l3))
    BY <1>2, <1>12, JoinedStands DEF l3
  <1>14. l4 \in Seq(Lines) /\ (Stands(x, l3) \/ Stands(x, interface) => Stands(x, l4))
    BY <1>6, <1>13, JoinedStands DEF l4
  <1>15. l5 \in Seq(Lines) /\ (Stands(x, l4) => Stands(x, l5))
    BY <1>2, <1>14, JoinedStands DEF l5
  <1>16. l6 \in Seq(Lines) /\ (Stands(x, l5) \/ Stands(x, sync) => Stands(x, l6))
    BY <1>7, <1>15, JoinedStands DEF l6
  <1>17. l7 \in Seq(Lines) /\ (Stands(x, l6) => Stands(x, l7))
    BY <1>2, <1>16, JoinedStands DEF l7
  <1>18. l8 \in Seq(Lines) /\ (Stands(x, l7) \/ Stands(x, update) => Stands(x, l8))
    BY <1>8, <1>17, JoinedStands DEF l8
  <1>19. r \in 1 .. 5 \/ r \in 6 .. 6 \/ r \in 7 .. 12 \/ r \in 13 .. 14 \/ r \in 15 .. 15
    BY <1>1
  <1>20. Stands(x, l8)
    BY <1>4, <1>5, <1>6, <1>7, <1>8, <1>11, <1>12, <1>13, <1>14, <1>15, <1>16, <1>17, <1>18, <1>19
  <1> QED
    BY <1>10, <1>18, <1>20 DEF x

\* The wheels turn back and reach each stop, and the focused row is drawn.
LEMMA WheelsAreSound == WheelsSound
  <1>1. ASSUME NEW id \in DOMAIN Wheel, NEW v \in ToSet(Wheel[id])
        PROVE  /\ Step(id, Step(id, v, 1), -1) = v
               /\ v \in {Step(id, u, 1) : u \in ToSet(Wheel[id])}
               /\ \A u \in ToSet(Wheel[id]) : ShownAs(id, u) = ShownAs(id, v) => u = v
    <2> DEFINE w == Wheel[id]
    <2>1. \A u, dir : Step(id, u, dir) = Turned(w, u, dir)
      BY DEF Step, Turned
    <2>2. Turning(w)
      BY WheelsTurn
    <2> HIDE DEF w
    <2>3. v \in ToSet(w)
      BY DEF w
    <2>4. /\ Turned(w, Turned(w, v, 1), -1) = v
          /\ v \in {Turned(w, u, 1) : u \in ToSet(w)}
      BY <2>2, <2>3, TurnsBack
    <2>5. \A u : ShownAs(id, u) = ShownAs(id, v) => u = v
      BY ShownDistinctly
    <2> QED
      BY <2>1, <2>4, <2>5 DEF w
  <1>2. ASSUME NEW r \in DOMAIN Rows, NEW h \in TabHeight
        PROVE  TabShows(Rows[r].id, h)
    <2>1. PICK line \in DOMAIN TabLines : TabLines[line] = Rows[r].id
      BY RowsStand DEF Stands
    <2>2. line \in Nat \ {0}
      BY RowsStand
    <2>3. h \in Nat \ {0}
      BY PreferencesAssumption
    <2>4. Scroll(line, h) < line /\ line <= Scroll(line, h) + h
      BY <2>2, <2>3 DEF Scroll
    <2> QED
      BY <2>1, <2>4 DEF TabShows
  <1> QED
    BY <1>1, <1>2 DEF WheelsSound

-----------------------------------------------------------------------------
\* However the settings are edited, saved, lost and launched: the file is never torn, keeps
\* what the user did not touch, holds what he was told is saved, and the tab and the
\* grid show what is set (settings.rs, config.rs, app.rs).
THEOREM PreferencesAreSound == PreferencesSpec => []PreferencesTypeOK /\ PreferencesSound
  <1>1. PreferencesInit => PrefInv /\ TabPlaces
    BY PrefInitGood DEF PreferencesInit, TabPlaces
  <1>2. PrefInv /\ TabPlaces /\ [PreferencesNext]_prefVars => (PrefInv /\ TabPlaces)' /\ FileKept
    BY PrefStep, PlacesStep
  <1>3. PrefInv => PreferencesTypeOK
    BY DEF PrefInv, PreferencesTypeOK, Whole
  <1>4. PrefInv => EditsAnswered /\ PathNamed /\ GridOnTrack
    BY DEF PrefInv, EditsAnswered
  <1>5. FileKept => [stored.kind # "damaged" => stored'.kind # "damaged"]_<<stored>>
    BY DEF FileKept
  <1>6. FileKept => [stored.kind = "whole" /\ stored'.kind = "whole" =>
                        \A id \in Settings \ changed : stored'.config[id] = stored.config[id]]_<<stored>>
    BY DEF FileKept
  <1>7. PreferencesSpec => /\ []PreferencesTypeOK /\ [](EditsAnswered /\ PathNamed /\ GridOnTrack)
                           /\ NeverTorn /\ OthersVerbatim
    BY <1>1, <1>2, <1>3, <1>4, <1>5, <1>6, PTL DEF PreferencesSpec, NeverTorn, OthersVerbatim
  <1> QED
    BY <1>7, WheelsAreSound DEF PreferencesSound

-----------------------------------------------------------------------------
\* What stands on the screen at the user's word is true while it stands: the rows of a
\* search, what is said to him, and his settings (browse.rs, toast.rs, config.rs).
THEOREM ScreenIsTrue == SearchSpec /\ NoticesSpec /\ PreferencesSpec => ScreenSpeaks
  BY SearchesAreHonest, NoticesAreSound, PreferencesAreSound, PTL DEF ScreenSpeaks
====
