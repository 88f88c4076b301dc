------------------------------ MODULE MCPrewarm ------------------------------
(***************************************************************************)
(* TLC instances of Prewarm: answers and play outcomes are free, what the  *)
(* user and time do is drawn from budgets.                                 *)
(***************************************************************************)
EXTENDS Prewarm

CONSTANTS
    MaxNavigate,  \* shows selected
    MaxEnter,     \* opens
    MaxPlays,
    MaxPlans,     \* `P` presses
    MaxAccidents, \* respawns of mpv, rows that reach their TTL, spacings that end
    MaxInflight

VARIABLE left

mcVars == <<allVars, left>>

Budget == [navigate |-> MaxNavigate, enter |-> MaxEnter, plays |-> MaxPlays, plans |-> MaxPlans, accidents |-> MaxAccidents]

MCInit == WarmInit /\ known = {} /\ left = Budget

Spend(kind) == left[kind] > 0 /\ left' = [left EXCEPT ![kind] = @ - 1]

Room == Cardinality(inflight) < MaxInflight

Quiet == OpenedFollows /\ UNCHANGED warmVars

SystemStep ==
    /\ WarmEpisodeEvent \/ WarmTick \/ \E pr \in probes : ProbeAnswered(pr)
    /\ UNCHANGED left

MCNext ==
    \/ SystemStep
    \/ (FirstPosition \/ WarmProviderFails) /\ UNCHANGED left
    \/ PlayEnds /\ Quiet /\ UNCHANGED left
    \/ Spend("navigate") /\ Room /\ (\E s \in Shows \cup {None} : Navigate(s)) /\ Quiet
    \/ Spend("enter") /\ Room /\ Enter /\ Quiet
    \/ Spend("plays") /\ Play /\ Quiet
    \/ Spend("plans") /\ \E s \in Shows : Plan(s)
    \/ Spend("accidents") /\ (PlayRetries \/ SpacingPasses \/ (Age /\ Quiet))

MCSpec == MCInit /\ [][MCNext]_mcVars

\* Workers answer and the loop ticks; the user and the player owe nothing.
MCFairSpec == MCSpec /\ WF_mcVars(SystemStep)

TwoProviders == <<"megaplay", "senshi">>
TwoShows == {1, 2}
FirstKeyed == [s \in Shows |-> {Registry[1]}]
=============================================================================
