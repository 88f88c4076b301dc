----------------------------- MODULE MCLibrary -----------------------------
(***************************************************************************)
(* TLC instances of Library.  The protocol's own state is finite; what     *)
(* makes the state space large is how often the environment acts, so each  *)
(* kind of outside step is drawn from a budget.                            *)
(***************************************************************************)
EXTENDS Library

CONSTANT Budget \* how often each kind of outside step may happen, in each instance of the run

VARIABLE left

mcVars == <<vars, left>>

MCInit == Init /\ left \in Budget

Spend(kind) == left[kind] > 0 /\ left' = [left EXCEPT ![kind] = @ - 1]

\* What the program does of itself.
SystemStep ==
    \/ \E p \in Runs : RunStep(p) /\ UNCHANGED uiVars
    \/ OnSyncFlushed \/ Launch \/ Exit \/ ReloadHistory

FlushDue == SyncTick /\ Spend("syncs")

\* The command line may pull again and again: what one pull leaves is the next one's.
PullAgain == left["pulls"] > 0 /\ CliSync /\ UNCHANGED left

EnvironmentStep ==
    \/ Spend("adds") /\ \E s \in Shows : Browse(s)
    \/ Spend("edits") /\ (UndoKey \/ \E s \in Shows : EditList(s))
    \/ Spend("deletes") /\ \E s \in Shows : Delete(s)
    \/ Spend("plays") /\ \E s \in Shows : Play(s)
    \/ UNCHANGED left /\ \E s \in Shows : playing = s /\ Watch(s)
    \/ Spend("cli") /\ CommandLine
    \/ UNCHANGED left /\ CliSyncEnds
    \/ Spend("remote") /\ RemoteClients /\ UNCHANGED uiVars
    \/ Spend("faults") /\ (SyncTickFails \/ \E p \in Runs : RunFault(p) /\ UNCHANGED uiVars)
    \/ Spend("stops") /\ Lifecycle

MCNext ==
    \/ SystemStep /\ UNCHANGED left
    \/ FlushDue
    \/ PullAgain
    \/ EnvironmentStep

MCSpec == MCInit /\ [][MCNext]_mcVars

\* The app's worker thread runs, its loop ticks and drains its queue; users, other
\* clients and faults owe nothing, nor does a command line that may be interrupted.
MCFairSpec ==
    /\ MCSpec
    /\ WF_mcVars(RunStep(Tui) /\ UNCHANGED uiVars /\ UNCHANGED left)
    /\ WF_mcVars((OnSyncFlushed \/ Launch \/ Exit \/ ReloadHistory) /\ UNCHANGED left)
    /\ WF_mcVars(FlushDue)

\* Bindings and adds; status keys, undos and recomputes; confirmed deletes; plays;
\* steps of the command line; runs the debounce or a sign-in starts; edits by other
\* clients; failed calls, refusals and store errors; quits, crashes and switches;
\* whether `sabigoku sync` may be run without end.
Spending(adds, edits, deletes, plays, cli, syncs, remote, faults, stops, pulls) ==
    [adds |-> adds, edits |-> edits, deletes |-> deletes, plays |-> plays, cli |-> cli,
     syncs |-> syncs, remote |-> remote, faults |-> faults, stops |-> stops, pulls |-> pulls]

\* The app alone with everything that can befall it; with the command line; with
\* time to come to rest; an edit under a pull; a delete and an add under a push.
OneShowBudget == {Spending(1, 1, 1, 1, 0, 1, 1, 1, 1, 0)}
TwoRunsBudget == {Spending(1, 1, 0, 0, 1, 1, 1, 1, 0, 0)}
SettlesBudget ==
    {Spending(1, 1, 0, 1, 0, 3, 0, 0, 0, 0), Spending(0, 1, 0, 0, 0, 1, 0, 0, 0, 1),
     Spending(1, 0, 0, 0, 0, 1, 0, 0, 0, 1)}
UndoBudget == {Spending(1, 1, 0, 0, 0, 0, 0, 0, 0, 0)}
ReAddBudget == {Spending(2, 1, 1, 0, 0, 2, 0, 0, 0, 0)}

Keys == {"watching", "completed"}
OneMedia == {[total |-> 1, airing |-> FALSE]}
FewPairs == {[status |-> "watching", progress |-> 1], [status |-> "completed", progress |-> 2]}
OneShow == {1}
TwoShows == {1, 2}
=============================================================================
