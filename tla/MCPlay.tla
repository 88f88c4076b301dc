------------------------------- MODULE MCPlay -------------------------------
(***************************************************************************)
(* TLC instances of PlaySession: answers and play outcomes are free, what  *)
(* the user and time do is drawn from budgets, and a step of the user that *)
(* could start a request waits while MaxInflight are outstanding.          *)
(***************************************************************************)
EXTENDS PlaySession

CONSTANTS
    MaxNavigate,  \* shows selected
    MaxEnter,     \* opens
    MaxReroute,   \* track flips and `v` presses
    MaxPlays,
    MaxDeletes,
    MaxExpiries,  \* rows that reach their TTL
    MaxInflight,
    Warm          \* start from every store, not only an empty one

VARIABLE left

mcVars == <<vars, left>>

Budget == [navigate |-> MaxNavigate, enter |-> MaxEnter, reroute |-> MaxReroute,
           plays |-> MaxPlays, deletes |-> MaxDeletes, expiries |-> MaxExpiries]

MCInit == Init /\ (known = {} \/ Warm) /\ left = Budget

Spend(kind) == left[kind] > 0 /\ left' = [left EXCEPT ![kind] = @ - 1]

Room == Cardinality(inflight) < MaxInflight

SystemStep == (OnEpisodeEvent \/ Tick) /\ UNCHANGED left

MCNext ==
    \/ SystemStep
    \/ (PlayEnds \/ ProviderFails) /\ UNCHANGED left
    \/ Spend("navigate") /\ Room /\ \E s \in Shows \cup {None} : Navigate(s)
    \/ Spend("enter") /\ Room /\ Enter
    \/ Spend("reroute") /\ Room /\ Reroute
    \/ Spend("plays") /\ Play
    \/ Spend("deletes") /\ \E s \in Shows : DeleteShow(s)
    \/ Spend("expiries") /\ Age

MCSpec == MCInit /\ [][MCNext]_mcVars

\* Workers answer and the loop ticks; the user and the player owe nothing.
MCFairSpec == MCSpec /\ WF_mcVars(SystemStep)

ThreeProviders == <<"megaplay", "senshi", "anineko">>
TwoProviders == <<"megaplay", "senshi">>
OneShow == {1}
TwoShows == {1, 2}
NoneKeyed == [s \in Shows |-> {}]
FirstKeyed == [s \in Shows |-> {Registry[1]}]
EndsKeyed == [s \in Shows |-> {Registry[1], Registry[Len(Registry)]}]
AllKeyed == [s \in Shows |-> Providers]
=============================================================================
