------------------------------ MODULE Prewarm ------------------------------
(***************************************************************************)
(* The sibling prewarm (src/tui/prewarm.rs) beside the sessions it warms   *)
(* for: after an add or once mpv is up, the providers nothing is known of  *)
(* are probed one by one, and what a probe learns is written behind the    *)
(* episode session's back.  One run at a time; a play being resolved or a  *)
(* walk being armed keeps a new one from starting, and a rescue cancels    *)
(* the one there is.                                                       *)
(*                                                                         *)
(* The hop gap is time: the tick may find it over or not.                  *)
(***************************************************************************)
EXTENDS PlaySession

CONSTANTS
    RingSlots,     \* shows the ring of attempted ids holds
    ProbesRefused  \* the OS may refuse a probe's thread

ASSUME RingAssumption == RingSlots \in Nat \ {0} /\ ProbesRefused \in BOOLEAN

VARIABLES
    opened,     \* the active play has shown a position: mpv is up
    run,        \* the run over a show's candidates, or None
    probes,     \* probes not answered yet
    attempted,  \* the ring, oldest first
    spaced      \* the last start is less than SPACING ago

warmVars == <<run, probes, attempted, spaced>>
allVars == <<vars, opened, warmVars>>

\* left: the registry places of the candidates not asked yet.
ProbeRun == [show : Shows, left : SUBSET DOMAIN Registry,
             inflight : BOOLEAN, yielding : BOOLEAN]
Probe == [show : Shows, provider : Providers, fresh : BOOLEAN]

ASSUME ProbeRunAssumption == None \notin ProbeRun

WarmTypeOK ==
    /\ TypeOK
    /\ opened \in BOOLEAN
    /\ run \in ProbeRun \cup {None}
    /\ probes \subseteq Probe
    /\ attempted \in Seq(Shows) /\ Len(attempted) <= RingSlots
    /\ spaced \in BOOLEAN

WarmInit ==
    /\ Init
    /\ opened = FALSE /\ run = None /\ probes = {} /\ attempted = <<>> /\ spaced = FALSE

-----------------------------------------------------------------------------
\* The providers without a binding and without a fresh absence, in construction order.
Candidates(s) ==
    {i \in DOMAIN Registry : binding[s][Registry[i]] = None /\ Registry[i] \notin absent[s]}

\* The run's next probe; a candidate whose thread is refused is skipped.
Spawned(r) ==
    \E i \in r.left :
        /\ ProbesRefused \/ \A j \in r.left : i <= j
        /\ run' = [r EXCEPT !.left = {j \in @ : j > i}, !.inflight = TRUE]
        /\ probes' = Bump(probes) \cup
                        {[show |-> r.show, provider |-> Registry[i], fresh |-> TRUE]}

\* No thread is to be had for any candidate that is left.
Exhausted(r) ==
    /\ ProbesRefused
    /\ run' = None
    /\ probes' = Bump(probes)

\* Mutated form: the ring grows by one.
MarkedGrows(s) == Append(attempted, s)

\* mark_attempted: the oldest show leaves a full ring.
Marked(s) == IF Len(attempted) < RingSlots THEN Append(attempted, s)
             ELSE Append(Tail(attempted), s)

Blocked(s, resolving) ==
    \/ run # None
    \/ resolving
    \/ ses.walk # None
    \/ Contains(attempted, s)
    \/ spaced

\* fire: the ring and the spacing are stamped only when a probe has started.
Fire(s, resolving) ==
    LET fresh == [show |-> s, left |-> Candidates(s), inflight |-> FALSE, yielding |-> FALSE]
    IN  IF Blocked(s, resolving) \/ Candidates(s) = {} THEN UNCHANGED warmVars
        ELSE \/ Spawned(fresh) /\ attempted' = Marked(s) /\ spaced' = TRUE
             \/ Exhausted(fresh) /\ UNCHANGED <<attempted, spaced>>

\* Mutated form: a cancelled run is forgotten with its probe still out.
CancelledOutright == None

\* cancel: what is in flight is honoured, nothing more is started.
Cancelled ==
    IF run # None /\ run.inflight THEN [run EXCEPT !.yielding = TRUE] ELSE None

YieldToWalk ==
    /\ run' = IF ses'.walk # None THEN Cancelled ELSE run
    /\ UNCHANGED <<probes, attempted, spaced>>

-----------------------------------------------------------------------------
\* Mutated form: a probe binds whatever it found.
MintableAlways(s, p, id) == TRUE

\* A pair that another show owns is not taken.
Mintable(s, p, id) == \A t \in Shows \ {s} : binding[t][p] # id

\* What a probe may find: a canonical key is right, a search is anybody's.
Findable(s, p) == IF p \in KeyedOn[s] THEN {s} ELSE Shows

\* Mutated form: a cancelled run waits for a next probe it will not start.
AfterAnswerKeptOn(r) == IF r.left = {} THEN None ELSE [r EXCEPT !.inflight = FALSE]

\* The run after an answer: over, or waiting for its next probe.
AfterAnswer(r) ==
    IF r.yielding \/ r.left = {} THEN None ELSE [r EXCEPT !.inflight = FALSE]

\* on_result: mint what it learned, then go on or end the run.
ProbeAnswered(pr) ==
    /\ probes' = probes \ {pr}
    /\ said' = {}
    /\ UNCHANGED <<lastUsed, cache, track, shown, ses, inflight, playVars, opened,
                   attempted, spaced>>
    /\ IF ~pr.fresh \/ run = None
       THEN UNCHANGED <<known, binding, absent, run>>
       ELSE /\ \/ \E id \in Findable(run.show, pr.provider) :
                     IF Mintable(run.show, pr.provider, id)
                     THEN Bind(run.show, pr.provider, id)
                     ELSE UNCHANGED <<known, binding, absent>>
               \/ MarkAbsent(run.show, pr.provider)
               \/ UNCHANGED <<known, binding, absent>>
            /\ run' = AfterAnswer(run)

\* The paced next probe, or the end of the run when no thread is to be had.
NextProbe ==
    /\ run # None /\ ~run.inflight /\ ~run.yielding
    /\ Spawned(run) \/ Exhausted(run)
    /\ UNCHANGED <<attempted, spaced>>

SpacingPasses ==
    /\ spaced
    /\ spaced' = FALSE
    /\ UNCHANGED <<vars, opened, run, probes, attempted>>

-----------------------------------------------------------------------------
(***************************************************************************)
(* The application's handlers, with what they do to the run.               *)
(***************************************************************************)

\* A new play is launching until its first position.
OpenedFollows == opened' = (opened /\ active' = active)

WarmEpisodeEvent == OnEpisodeEvent /\ OpenedFollows /\ YieldToWalk

\* Mutated form: a play's hop leaves the run alone.
WarmProviderFailsOn == ProviderFails /\ OpenedFollows /\ UNCHANGED warmVars

WarmProviderFails == ProviderFails /\ OpenedFollows /\ YieldToWalk

\* One tick: the settled `v`, then the run.
WarmTick ==
    /\ Tick \/ UNCHANGED vars
    /\ UNCHANGED opened
    /\ NextProbe \/ UNCHANGED warmVars

\* `P` on a card: the show joins the library and is warmed.
Plan(s) ==
    /\ known' = known \cup {s}
    /\ said' = {}
    /\ UNCHANGED <<binding, absent, lastUsed, cache, track, shown, ses, inflight,
                   playVars, opened>>
    /\ Fire(s, active # None /\ ~opened)

\* on_play_position: mpv is up, its show is warmed.
FirstPosition ==
    /\ active # None /\ ~opened
    /\ opened' = TRUE
    /\ UNCHANGED vars
    /\ IF active.show \in known THEN Fire(active.show, FALSE) ELSE UNCHANGED warmVars

\* on_retry: mpv is respawned, the play is launching again.
PlayRetries ==
    /\ active # None /\ opened
    /\ opened' = FALSE
    /\ UNCHANGED <<vars, warmVars>>

Elsewhere ==
    /\ \/ Age \/ Play \/ PlayEnds \/ Enter \/ Reroute
       \/ \E s \in Shows \cup {None} : Navigate(s)
       \/ \E s \in Shows : DeleteShow(s)
    /\ OpenedFollows
    /\ UNCHANGED warmVars

WarmNext ==
    \/ WarmEpisodeEvent \/ WarmProviderFails \/ WarmTick
    \/ \E pr \in probes : ProbeAnswered(pr)
    \/ \E s \in Shows : Plan(s)
    \/ FirstPosition \/ PlayRetries \/ SpacingPasses
    \/ Elsewhere

WarmSpec == WarmInit /\ [][WarmNext]_allVars

-----------------------------------------------------------------------------
(***************************************************************************)
(* Properties.                                                             *)
(***************************************************************************)

\* One probe at a time, whoever cancels and fires around it, and its answer
\* always finds the run that asked: the stale-token check is redundant
\* (on_result's comment).
SingleFlight ==
    /\ Cardinality(probes) <= 1
    /\ probes # {} <=> run # None /\ run.inflight
    /\ \A pr \in probes : pr.fresh /\ pr.show = run.show

ProbeSettles == run # None /\ run.inflight /\ (run' = None \/ ~run'.inflight)

\* A probe's answer takes no binding from another show (on_result, "a
\* background mint never steals").
NeverSteals ==
    [][ProbeSettles => \A s \in Shows \ {run.show} : binding'[s] = binding[s]]_allVars

\* A walk routes round a provider that failed it or failed a play (fail_over,
\* play_fail_over).
Rescuing == ses.walk # None /\ ses.walk.tried # {}

\* While such a walk is on no probe is started, whatever the user opens, adds or
\* plays: what is out may answer and is the last (cancel, blocked; docs/port/03 6.4,
\* "rescue owns the CDN budget").
RescueOwnsNetwork == [][Rescuing => probes' \subseteq probes]_allVars

\* A run ends, cancelled or not.
RunEnds == run # None ~> run = None

\* Probes run one at a time, keep out of a rescue's way and take no binding
\* (prewarm::on_result, cancel, blocked).
WarmSafe == []SingleFlight /\ NeverSteals /\ RescueOwnsNetwork

\* A probe run and a rescue both come to an end.
WarmEnds == RunEnds /\ RescueEnds
=============================================================================
