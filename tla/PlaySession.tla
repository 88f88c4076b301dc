---------------------------- MODULE PlaySession ----------------------------
(***************************************************************************)
(* The play session (src/tui/playback.rs) over the episode session, with   *)
(* the application glue between them (src/tui/app.rs): a play that a       *)
(* provider fails walks the session on to a sibling and plays the same     *)
(* episode there.                                                          *)
(*                                                                         *)
(* Checkpoints, retries and the finish write are Library's; here a play    *)
(* is who plays what, and how it ended.  Whether a sibling's listing has   *)
(* the episode is left open.                                               *)
(*                                                                         *)
(* shots and left are history variables: no guard reads them.              *)
(***************************************************************************)
EXTENDS EpisodeSession

VARIABLES
    active,        \* the play, or None
    continuation,  \* the armed continuation, or None
    shots,         \* history: providers this watch was launched on
    gone           \* history: since the continuation was armed its show left
                   \* the surface, or a settled `v` called its walk off

playVars == <<active, continuation, shots, gone>>
vars == <<sessionVars, playVars>>

Active == [show : Shows, provider : Providers, track : Tracks, id : Shows]
Continuation == [show : Shows, track : Tracks, tried : Seq(Providers)]

ASSUME PlayAssumption == None \notin Active \cup Continuation

TypeOK ==
    /\ SessionTypeOK
    /\ active \in Active \cup {None}
    /\ continuation \in Continuation \cup {None}
    /\ shots \subseteq Providers
    /\ gone \in BOOLEAN

Init ==
    /\ SessionInit
    /\ active = None /\ continuation = None /\ shots = {} /\ gone = FALSE

-----------------------------------------------------------------------------
Contains(seq, p) == \E i \in DOMAIN seq : seq[i] = p
TriedSet(c) == {c.tried[i] : i \in DOMAIN c.tried}
LastTried(c) == c.tried[Len(c.tried)]

\* A play of the grid on the surface: through its binding, or not at all.
PlayOfGrid ==
    [show |-> ses'.id, provider |-> ses'.serving, track |-> track',
     id |-> binding'[ses'.id][ses'.serving]]

\* Mutated form: only the last provider that failed is remembered.
BurnedLast(c) == LastTried(c) = ses'.serving

Burned(c) == Contains(c.tried, ses'.serving)

\* maybe_continue_play with nothing playing: wait for the walk, relaunch on a
\* sibling, or retire the continuation `c`.  A grid without a binding and a
\* refused thread leave it armed.
Continue(c) ==
    LET Lost == ses'.id # c.show \/ c.track # track' \/ ses'.noSource
        Waiting == ses'.loading \/ ses'.serving = None
        Retire == active' = None /\ continuation' = None /\ UNCHANGED shots
        Keep == active' = None /\ continuation' = c /\ UNCHANGED shots
        Bound == binding'[ses'.id][ses'.serving] # None
        Relaunch == active' = PlayOfGrid /\ continuation' = c
                    /\ shots' = shots \cup {ses'.serving}
        MissesEpisode == Retire
    IN  IF Lost THEN Retire
        ELSE IF Waiting THEN Keep
        ELSE IF Burned(c) THEN Retire
        ELSE MissesEpisode \/ (Bound /\ Relaunch) \/ ((~Bound \/ MaySpawnFail) /\ Keep)

\* on_episode_event: the session's handler, then the continuation.
OnEpisodeEvent ==
    /\ Answer
    /\ IF active = None /\ continuation # None THEN Continue(continuation)
       ELSE UNCHANGED <<active, continuation, shots>>
    /\ gone' = (gone /\ continuation' # None)

\* on_play: the user's own play retires any continuation.
Play ==
    /\ active = None
    /\ shown # None /\ ses.id = shown /\ ses.grid # None
    /\ binding[shown][ses.serving] # None
    /\ UNCHANGED sessionVars
    /\ \/ active' = PlayOfGrid /\ shots' = {ses.serving}
       \/ MaySpawnFail /\ active' = None /\ shots' = {}
    /\ continuation' = None /\ gone' = FALSE

\* on_finished without a failure a sibling could mend.
PlayEnds ==
    /\ active # None
    /\ active' = None /\ continuation' = None /\ gone' = FALSE
    /\ UNCHANGED <<sessionVars, shots>>

\* Mutated form: the continuation starts over with each failure.
ArmedAnew == [show |-> active.show, track |-> active.track, tried |-> <<active.provider>>]

\* arm_continuation: start it, or grow it by the provider that failed.
Armed ==
    IF continuation = None
    THEN [show |-> active.show, track |-> active.track, tried |-> <<active.provider>>]
    ELSE [continuation EXCEPT !.tried =
             IF Contains(@, active.provider) THEN @ ELSE Append(@, active.provider)]

\* Mutated form: the hop waits for an episode event even when its grid landed
\* from the cache.
ProviderFailsWaits ==
    /\ active # None
    /\ gone' = FALSE
    /\ UNCHANGED shots
    /\ LET c == Armed
       IN  IF ses.id # c.show \/ ses.serving # LastTried(c)
           THEN active' = None /\ continuation' = None /\ UNCHANGED sessionVars
           ELSE /\ UNCHANGED <<known, binding, absent, cache, track, shown>>
                /\ PlayFailOver(TriedSet(c))
                /\ active' = None /\ continuation' = c

\* on_finished with a provider's failure, then on_play_hop: unless the user
\* has gone elsewhere, fail over and try to relaunch at once.
ProviderFails ==
    /\ active # None
    /\ gone' = FALSE
    /\ LET c == Armed
       IN  IF ses.id # c.show \/ ses.serving # LastTried(c)
           THEN active' = None /\ continuation' = None /\ UNCHANGED <<sessionVars, shots>>
           ELSE /\ UNCHANGED <<known, binding, absent, cache, track, shown>>
                /\ PlayFailOver(TriedSet(c))
                /\ Continue(c)

\* Mutated form: the playing show is deleted like any other.
DeleteShowAnyway(s) == Delete(s) /\ UNCHANGED playVars

\* The confirmed delete refuses the show that plays.
DeleteShow(s) ==
    /\ active # None => active.show # s
    /\ Delete(s)
    /\ UNCHANGED playVars

Waits == continuation # None /\ active = None

Navigate(s) ==
    /\ Show(s)
    /\ UNCHANGED <<active, continuation, shots>>
    /\ gone' = (gone \/ Waits)

\* The tick; nothing follows up on a continuation here.
Tick ==
    /\ Settle
    /\ UNCHANGED <<active, continuation, shots>>
    /\ gone' = (gone \/ (Waits /\ ses.aim = ses.serving /\ ses.walk # None))

Reroute == (ToggleTrack \/ CycleProvider) /\ UNCHANGED playVars

Enter == Engage /\ UNCHANGED playVars

Age == Expiry /\ UNCHANGED playVars

Next ==
    \/ OnEpisodeEvent \/ Tick \/ Age
    \/ Play \/ PlayEnds \/ ProviderFails
    \/ Enter \/ Reroute
    \/ \E s \in Shows \cup {None} : Navigate(s)
    \/ \E s \in Shows : DeleteShow(s)

Spec == Init /\ [][Next]_vars

-----------------------------------------------------------------------------
(***************************************************************************)
(* Properties.                                                             *)
(***************************************************************************)

\* A continued play belongs to its continuation: the same show and track, on a
\* provider that has not failed it (on_finished, maybe_continue_play).
ContinuedPlay ==
    active # None /\ continuation # None =>
        /\ active.show = continuation.show
        /\ active.track = continuation.track
        /\ ~Contains(continuation.tried, active.provider)

\* A playing show keeps its row, or its finish would be written nowhere
\* (the refusal in on_confirm_key).
PlayRowKept == active # None => active.show \in known

Relaunched == active' # None /\ active' # active /\ continuation' # None

\* One user's play launches a provider once, however the failures, the walks
\* and the user's `v` interleave (docs/port/05, "one shot per provider").
OneShot == [][Relaunched => active'.provider \notin shots]_vars

\* A rescue ends: with a relaunch or with the continuation retired.
RescueEnds == (continuation # None /\ active = None)
                  ~> (continuation = None \/ active # None)

\* Nothing is relaunched once its show has left the surface or the user has
\* called its walk off (drop_continuation, drop_stale_walk).
NoGhostPlay == [][Relaunched => ~gone]_vars

\* A play and its continuations: one show, one track, each provider once, and a row
\* to record it in (fire_play_at, maybe_continue_play, on_confirm_key).
PlayHonest == [](ContinuedPlay /\ PlayRowKept) /\ OneShot
=============================================================================
