------------------------------ MODULE Notices ------------------------------
(***************************************************************************)
(* What the program tells the user (src/tui/toast.rs, clock.rs, app.rs):   *)
(* the toasts, which crowd each other out and grow old by the tick; the    *)
(* one about AniList, which stays until AniList answers; the flash of an   *)
(* unknown command; and the clock the ticks come from, which the program   *)
(* may reach late.  With the search and the settings: what stands on the   *)
(* screen at the user's word.                                              *)
(***************************************************************************)
EXTENDS Integers, Sequences, FiniteSets, SequencesExt, Search, Preferences

CONSTANTS
    Ttl,         \* 2.5 s, in ticks
    FlashTicks,  \* 0.8 s, in ticks
    Stall,       \* the longest the loop may be held up, in ticks
    LastMoment,  \* bound of the run: the last instant
    MaxSaid      \* bound of the run: transient toasts

\* MAX_VISIBLE
Visible == 3

ASSUME NoticesAssumption ==
    /\ {Ttl, FlashTicks, Stall} \subseteq Nat \ {0} /\ {LastMoment, MaxSaid} \subseteq Nat

VARIABLES
    moment,  \* the instant, in ticks
    alarm,   \* TickClock.next
    beat,    \* the instant of the last tick
    beats,   \* [last, before]: a tick and the one before it
    toasts,  \* Toasts.queue: [n, topic, born]; n numbers the transient ones
    said,    \* transient toasts so far
    flash,   \* command_flash; 0 when there is none
    heard    \* what the last answer of AniList that counted was

noticeVars == <<moment, alarm, beat, beats, toasts, said, flash, heard>>

NoticesInit ==
    /\ moment = 0 /\ alarm = 1 /\ beat = 0 /\ beats = [last |-> 0, before |-> -1]
    /\ toasts = <<>> /\ said = 0 /\ flash = 0 /\ heard = "nothing"

-----------------------------------------------------------------------------
\* Mutated form: whatever is oldest makes room.
RoomByAge(q) == IF Len(q) < Visible THEN q ELSE Tail(q)

\* insert: the oldest transient toast makes room, the standing one never.
RoomIn(q) ==
    LET transient == {i \in DOMAIN q : ~q[i].topic}
    IN IF Len(q) < Visible THEN q
       ELSE IF transient = {} THEN q
       ELSE RemoveAt(q, CHOOSE i \in transient : \A j \in transient : i <= j)

Insert(q, toast) == IF Len(RoomIn(q)) < Visible THEN Append(RoomIn(q), toast) ELSE q

\* Toasts::push
Pushed(q) == Insert(q, [n |-> said + 1, topic |-> FALSE, born |-> moment])

OnTopic(q) == {i \in DOMAIN q : q[i].topic}

\* push_persistent: the standing toast is refreshed in place.
Lasting(q) ==
    IF OnTopic(q) # {} THEN [i \in DOMAIN q |-> IF q[i].topic THEN [q[i] EXCEPT !.born = moment] ELSE q[i]]
    ELSE Insert(q, [n |-> 0, topic |-> TRUE, born |-> moment])

\* Vec::retain: of the first i toasts, those at the places to keep.
Retaining(q, keep) ==
    LET kept[i \in 0 .. Len(q)] ==
            IF i = 0 THEN <<>> ELSE IF i \in keep THEN Append(kept[i - 1], q[i]) ELSE kept[i - 1]
    IN  kept

Retained(q, keep) == Retaining(q, keep)[Len(q)]

\* clear_topic
Cleared(q) == Retained(q, DOMAIN q \ OnTopic(q))

\* Mutated form: the standing toast grows old with the others.
UnexpiredAll(q) == Retained(q, {i \in DOMAIN q : moment - q[i].born < Ttl})

\* Toasts::tick
Unexpired(q) == Retained(q, {i \in DOMAIN q : q[i].topic \/ moment - q[i].born < Ttl})

-----------------------------------------------------------------------------
\* Mutated form: the missed ticks are made up for.
NextAfterMissed == alarm + 1

\* should_tick schedules from now.
NextAlarm == moment + 1

\* The loop, held up by a handler or a draw; it wakes for an event or the alarm.
TimeGoesBy ==
    /\ moment < LastMoment
    /\ \E d \in 1 .. Stall : moment' = moment + d /\ moment' <= LastMoment
    /\ UNCHANGED <<alarm, beat, beats, toasts, said, flash, heard>>

\* App::on_tick, when the alarm is due.
TickBeats ==
    /\ moment >= alarm /\ alarm' = NextAlarm
    /\ beat' = moment /\ beats' = [last |-> moment, before |-> beats.last]
    /\ toasts' = Unexpired(toasts)
    /\ flash' = IF flash # 0 /\ moment >= flash THEN 0 ELSE flash
    /\ UNCHANGED <<moment, said, heard>>

\* A result, a failure or a play that ends says so, once.
SpeaksUp(kind) ==
    /\ said < MaxSaid /\ said' = said + 1 /\ toasts' = Pushed(toasts)
    /\ flash' = IF kind = "unknown command" THEN moment + FlashTicks ELSE flash
    /\ UNCHANGED <<moment, alarm, beat, beats, heard>>

\* Mutated form: an answer that has nothing new clears nothing.
ClearsOnNews(answer) == IF answer = "null" THEN toasts ELSE Cleared(toasts)

\* on_enrichment_refreshed, on_enrichment_null, and on_search_done when it is applied.
Clears(answer) == Cleared(toasts)

AniListAnswers(answer) ==
    /\ toasts' = Clears(answer) /\ heard' = "answer"
    /\ UNCHANGED <<moment, alarm, beat, beats, said, flash>>

\* on_enrichment_failed, and on_search_failed for the query that stands.
AniListFails ==
    /\ toasts' = Lasting(toasts) /\ heard' = "failure"
    /\ UNCHANGED <<moment, alarm, beat, beats, said, flash>>

\* The answer to a query that was typed over says nothing, either way.
StaleAnswer == UNCHANGED noticeVars

NoticesNext ==
    \/ TimeGoesBy \/ TickBeats
    \/ \E kind \in {"outcome", "unknown command"} : SpeaksUp(kind)
    \/ \E answer \in {"page", "entry", "null"} : AniListAnswers(answer)
    \/ AniListFails \/ StaleAnswer

NoticesSpec == NoticesInit /\ [][NoticesNext]_noticeVars

-----------------------------------------------------------------------------
NoticesTypeOK ==
    /\ beat <= moment /\ alarm <= moment + 1 /\ Len(toasts) <= Visible
    /\ \A i \in DOMAIN toasts : toasts[i].born <= moment

\* The user is told that AniList is out of reach exactly as long as the last answer
\* that counted was a failure, whatever else is said in between (ANILIST_TOPIC).
OutageStands == OnTopic(toasts) # {} <=> heard = "failure"

\* There is one such toast, and no transient one outlives its time past a tick, nor
\* does the flash (Toasts::tick, on_tick).
NothingLingers ==
    /\ Cardinality(OnTopic(toasts)) <= 1
    /\ \A i \in DOMAIN toasts : ~toasts[i].topic => beat - toasts[i].born < Ttl
    /\ flash # 0 => beat < flash

\* Of the transient toasts those shown are the newest, whatever went before its time
\* to make room: the last thing said is never the one missing (insert).
NewestShown ==
    LET shown == {toasts[i].n : i \in {j \in DOMAIN toasts : ~toasts[j].topic}}
    IN shown = {} \/ \E k \in 1 .. said : shown = k .. said

\* However late the loop is, ticks do not come in a burst (TickClock).
TicksApart == beats.before >= 0 => beats.last > beats.before

NoticesSound == OutageStands /\ NothingLingers /\ NewestShown /\ TicksApart

\* What a search shows is of its query; what is said of AniList, of outcomes and of
\* unknown commands is true as long as it stands; what the settings show is what the
\* file keeps (browse.rs, toast.rs, config.rs).
ScreenSpeaks == SearchHonest /\ []NoticesSound /\ PreferencesSound
=============================================================================
