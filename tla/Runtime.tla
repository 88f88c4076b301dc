------------------------------ MODULE Runtime ------------------------------
(***************************************************************************)
(* The event loop and the teardown of the program (src/tui/mod.rs) over    *)
(* the worker accounting they rest on (src/tui/workers.rs): one queue, one *)
(* consumer, detached workers of several families, and drains that bound   *)
(* how long a quit waits for each.                                         *)
(*                                                                         *)
(* An event is only counted; what handlers do to the rest of the program   *)
(* is the other modules' subject, here they may start workers and quit.    *)
(* "work" stands for the families drained before the pool is dropped:      *)
(* search, covers, enrichment, episodes, feeds and probes.                 *)
(***************************************************************************)
EXTENDS Naturals, FiniteSets

CONSTANTS
    Threads,    \* threads the OS can give the program
    PassBudget, \* MAX_EVENTS_PER_PASS
    MaxQueue    \* bound of the queue, which the code leaves unbounded

ASSUME RuntimeAssumption ==
    /\ IsFiniteSet(Threads) /\ Cardinality(Threads) >= 2
    /\ PassBudget \in Nat \ {0} /\ MaxQueue \in Nat \ {0}

Families == {"input", "work", "sync", "encode"}
Drained == <<"input", "work", "flush", "release", "sync", "encode", "done">>

VARIABLES
    pc,       \* where the UI thread is: a step of the loop or of the teardown
    budget,   \* events this pass may still handle
    quit,
    queue,    \* events posted and not received
    thread,   \* thread[t]: the family it works for and how far it is
    count,    \* Drain.state: the inflight count of each family
    asleep,   \* the UI thread waits on the condition variable of the drain at pc
    clean     \* families whose drain has returned true

runtimeVars == <<pc, budget, quit, queue, thread, count, asleep, clean>>

\* running: may still touch the queue.  posted: past its last post.  finished:
\* the count has fallen, the notification has not been sent.
Thread == [family : Families, phase : {"running", "posted", "finished"}]
Idle == [family |-> "none", phase |-> "idle"]
Running(f) == [family |-> f, phase |-> "running"]

RuntimeTypeOK ==
    /\ pc \in {"wait", "burst", "clock", "draw"} \cup {Drained[i] : i \in DOMAIN Drained}
    /\ budget \in 0 .. PassBudget
    /\ quit \in BOOLEAN
    /\ queue \in 0 .. MaxQueue
    /\ thread \in [Threads -> Thread \cup {Idle}]
    /\ count \in [Families -> 0 .. Cardinality(Threads)]
    /\ asleep \in BOOLEAN
    /\ clean \subseteq Families

\* The input and encode threads start with the program.
RuntimeInit ==
    /\ pc = "wait" /\ budget = 0 /\ quit = FALSE /\ queue = 0
    /\ LET input == CHOOSE t \in Threads : TRUE
           encode == CHOOSE t \in Threads \ {input} : TRUE
       IN  thread = [t \in Threads |-> CASE t = input  -> Running("input")
                                        [] t = encode -> Running("encode")
                                        [] OTHER      -> Idle]
    /\ count = [f \in Families |-> IF f \in {"input", "encode"} THEN 1 ELSE 0]
    /\ asleep = FALSE /\ clean = {}

-----------------------------------------------------------------------------
(***************************************************************************)
(* Threads.                                                                *)
(***************************************************************************)

\* Mutated form: the worker counts itself in when it first runs.
SpawnUncounted(t, f) ==
    /\ thread[t] = Idle
    /\ thread' = [thread EXCEPT ![t] = Running(f)]
    /\ UNCHANGED count

\* Drain::spawn: begin on the UI thread, then the thread.
Spawn(t, f) ==
    /\ thread[t] = Idle
    /\ thread' = [thread EXCEPT ![t] = Running(f)]
    /\ count' = [count EXCEPT ![f] = @ + 1]

At(t, phase) == thread[t].phase = phase

Post ==
    queue' = IF pc = "done" \/ queue = MaxQueue THEN queue ELSE queue + 1

\* A worker posts its one answer, or panics and is contained.  The input thread
\* ends on the shutdown flag or on a terminal error, the encode thread when the
\* pool and with it the request queue is gone.
Answers(t) ==
    /\ At(t, "running")
    /\ CASE thread[t].family = "input"  -> TRUE
         [] thread[t].family = "encode" -> pc \in {"sync", "encode", "done"}
         [] OTHER                       -> TRUE
    /\ thread' = [thread EXCEPT ![t].phase = "posted"]
    /\ Post \/ UNCHANGED queue
    /\ UNCHANGED <<pc, budget, quit, count, asleep, clean>>

\* The guard drops: the count falls under the lock.
Finishes(t) ==
    /\ At(t, "posted")
    /\ count' = [count EXCEPT ![thread[t].family] = @ - 1]
    /\ thread' = [thread EXCEPT ![t].phase = "finished"]
    /\ UNCHANGED <<pc, budget, quit, queue, asleep, clean>>

\* Mutated form: only a drain that waits for nobody is woken.
WakesOthers(f) == asleep /\ f # pc

\* notify_all reaches the drain of the family.
Wakes(f) == asleep /\ f = pc

Notifies(t) ==
    /\ At(t, "finished")
    /\ asleep' = (asleep /\ ~Wakes(thread[t].family))
    /\ thread' = [thread EXCEPT ![t] = Idle]
    /\ UNCHANGED <<pc, budget, quit, queue, count, clean>>

\* Input and workers post while the program runs: keys, positions, retries.
Chatter(t) ==
    /\ At(t, "running")
    /\ queue < MaxQueue /\ pc # "done"
    /\ queue' = queue + 1
    /\ UNCHANGED <<pc, budget, quit, thread, count, asleep, clean>>

-----------------------------------------------------------------------------
(***************************************************************************)
(* The loop.                                                               *)
(***************************************************************************)
Goto(label) == pc' = label /\ UNCHANGED <<asleep, clean>>

\* What a handler may do here: nothing, start a worker, quit.  A refused
\* thread leaves the count as it was.
Handler ==
    \/ UNCHANGED <<quit, thread, count>>
    \/ \E t \in Threads, f \in {"work", "sync"} : Spawn(t, f) /\ UNCHANGED quit
    \/ quit' = TRUE /\ UNCHANGED <<thread, count>>

\* recv_timeout: an event, or the tick's deadline; a signal quits from outside.
Receive ==
    /\ pc = "wait"
    /\ IF quit
       THEN Goto("input") /\ UNCHANGED <<budget, quit, queue, thread, count>>
       ELSE /\ Goto("burst")
            /\ budget' = PassBudget
            /\ IF queue > 0 THEN Handler /\ queue' = queue - 1
               ELSE UNCHANGED <<quit, queue, thread, count>>

\* Mutated form: the pass goes on while there are events.
BudgetUnspent == budget

BudgetSpent == budget - 1

\* try_recv, up to the budget.
Burst ==
    /\ pc = "burst"
    /\ IF budget > 0 /\ ~quit /\ queue > 0
       THEN /\ Handler /\ queue' = queue - 1
            /\ budget' = BudgetSpent
            /\ UNCHANGED <<pc, asleep, clean>>
       ELSE Goto("clock") /\ UNCHANGED <<budget, quit, queue, thread, count>>

\* The tick, due or not, and the draw.
Clock ==
    /\ pc = "clock"
    /\ Goto("draw")
    /\ Handler
    /\ UNCHANGED <<budget, queue>>

\* A terminal that cannot be drawn to ends the loop.
Draw ==
    /\ pc = "draw"
    /\ Goto("wait") \/ Goto("input")
    /\ UNCHANGED <<budget, quit, queue, thread, count>>

\* SIGTERM, SIGHUP, SIGINT.
Signal ==
    /\ pc \in {"wait", "burst", "clock", "draw"}
    /\ quit' = TRUE
    /\ UNCHANGED <<pc, budget, queue, thread, count, asleep, clean>>

-----------------------------------------------------------------------------
(***************************************************************************)
(* The teardown.                                                           *)
(***************************************************************************)
Following(label) == Drained[1 + CHOOSE i \in DOMAIN Drained : Drained[i] = label]

DrainStays == UNCHANGED <<budget, quit, queue, thread, count>>

\* Drain::drain: the count is read under the lock, and the wait begins under it.
DrainChecks ==
    /\ pc \in Families /\ ~asleep
    /\ DrainStays
    /\ IF count[pc] = 0
       THEN pc' = Following(pc) /\ clean' = clean \cup {pc} /\ UNCHANGED asleep
       ELSE asleep' = TRUE /\ UNCHANGED <<pc, clean>>

\* Mutated form: a drain without a deadline.
DeadlineNever == FALSE /\ UNCHANGED runtimeVars

\* The deadline passes: the drain returns false and the teardown goes on.
Deadline ==
    /\ pc \in Families /\ asleep
    /\ DrainStays
    /\ pc' = Following(pc) /\ asleep' = FALSE /\ UNCHANGED clean

\* spawn_quit_flush, skipped while a sync runs or nobody is signed in.
QuitFlush ==
    /\ pc = "flush"
    /\ pc' = "release"
    /\ \/ \E t \in Threads : Spawn(t, "sync")
       \/ UNCHANGED <<thread, count>>
    /\ UNCHANGED <<budget, quit, queue, asleep, clean>>

\* drop(app): the pool goes, and the encode thread's queue with it.
Release ==
    /\ pc = "release"
    /\ pc' = "sync"
    /\ UNCHANGED <<budget, quit, queue, thread, count, asleep, clean>>

\* The process is gone, and its threads with it.
Gone == pc = "done" /\ UNCHANGED runtimeVars

UiStep == Receive \/ Burst \/ Clock \/ Draw \/ DrainChecks \/ QuitFlush \/ Release

ThreadStep == \E t \in Threads : Answers(t) \/ Finishes(t) \/ Chatter(t)

RuntimeNext ==
    \/ UiStep \/ Signal \/ Deadline \/ Gone
    \/ ThreadStep \/ \E t \in Threads : Notifies(t)

\* The UI thread runs, clocks go on, and a thread that is about to notify does;
\* workers owe nothing: a provider may hang past every deadline.
RuntimeFairness ==
    /\ WF_runtimeVars(UiStep)
    /\ WF_runtimeVars(Deadline)
    /\ WF_runtimeVars(\E t \in Threads : Notifies(t))

RuntimeSpec == RuntimeInit /\ [][RuntimeNext]_runtimeVars /\ RuntimeFairness

-----------------------------------------------------------------------------
(***************************************************************************)
(* Properties.                                                             *)
(***************************************************************************)
Alive(f) == {t \in Threads : /\ thread[t].family = f
                              /\ thread[t].phase \in {"running", "posted"}}

\* A drain that returned true was right and stays right: no thread of the
\* family can touch the queue any more (begin before spawn, finish after the
\* last post, nothing started behind the drain).
DrainSettles == \A f \in clean : Alive(f) = {}

\* A quit ends, whatever the workers do (the bounded drains of docs/port/04 3).
Ending == quit \/ pc \notin {"wait", "burst", "clock", "draw"}
QuitEnds == Ending ~> pc = "done"

\* A drain does not sleep through the end of what it waits for (the notify
\* under the drain's lock discipline): it wakes without its deadline.
Awaited == pc \in Families /\ asleep /\ count[pc] = 0
                /\ \A t \in Threads : ~At(t, "finished")
NoLostWakeup == ~Awaited

\* A bursting producer starves neither the tick nor the quit check
\* (MAX_EVENTS_PER_PASS).
TickNotStarved == []<>(pc \in {"clock", "done"})

\* A drain sleeps no longer than the work it waits for, and what it let go is over
\* (Drain::drain).
DrainsSound == DrainSettles /\ NoLostWakeup
=============================================================================
