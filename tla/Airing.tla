------------------------------- MODULE Airing -------------------------------
(***************************************************************************)
(* Time in src/domain.rs: the civil date and the cour of a day, the number *)
(* of episodes a record of AniList lets the grid list, and the status a     *)
(* play leaves.  A day passes at a time, an episode airs now and then, and *)
(* the record the program holds may be an old one.                         *)
(***************************************************************************)
EXTENDS Integers, FiniteSets

CONSTANTS
    FirstDays,   \* dates to start from: [day, year, month, dom]
    Span,        \* bound of the run: days that pass
    Length,      \* episodes of the show
    HintLimit      \* MAX_EPISODE_HINT

ASSUME AiringAssumption == Span \in Nat /\ Length \in Nat \ {0} /\ HintLimit \in Nat \ {0}

VARIABLES
    day,     \* days since 1970-01-01
    date,    \* the date on a calendar: [year, month, dom]
    aired,   \* episodes aired
    record,  \* what the program holds of AniList: [status, total, next]
    seen,    \* the user's progress
    standing \* the list status of the show

airingVars == <<day, date, aired, record, seen, standing>>

-----------------------------------------------------------------------------
(***************************************************************************)
(* The calendar.                                                           *)
(***************************************************************************)

\* Mutated form: centuries are leap years.
YearOfEraJulian(doe) == (doe - doe \div 1460) \div 365

YearOfEra(doe) == (doe - doe \div 1460 + doe \div 36524 - doe \div 146096) \div 365

\* civil_from_days
Civil(z) ==
    LET shifted == z + 719468
        doe == shifted % 146097
        yoe == YearOfEra(doe)
        doy == doe - (365 * yoe + yoe \div 4 - yoe \div 100)
        mp == (5 * doy + 2) \div 153
        month == IF mp < 10 THEN mp + 3 ELSE mp - 9
    IN  [year |-> yoe + (shifted \div 146097) * 400 + (IF month <= 2 THEN 1 ELSE 0),
         month |-> month, dom |-> doy - (153 * mp + 2) \div 5 + 1]

\* The days to start from have the dates of the calendar.
ASSUME FirstDaysAssumption == \A f \in FirstDays :
    f.day \in Int /\ Civil(f.day) = [year |-> f.year, month |-> f.month, dom |-> f.dom]

Seasons == <<"winter", "spring", "summer", "fall">>

\* Season::from_month
FromMonth(m) ==
    CASE m \in 3 .. 5 -> "spring" [] m \in 6 .. 8 -> "summer"
      [] m \in 9 .. 11 -> "fall" [] OTHER -> "winter"

\* Mutated form: December is the winter of its own year.
CourNoRoll(z) == [season |-> FromMonth(Civil(z).month), year |-> Civil(z).year]

\* current_cour: December is the winter of the next year.
CurrentCour(z) ==
    [season |-> FromMonth(Civil(z).month),
     year |-> Civil(z).year + (IF Civil(z).month = 12 THEN 1 ELSE 0)]

-----------------------------------------------------------------------------
(***************************************************************************)
(* Episodes.  0 is no number.                                              *)
(***************************************************************************)
NoNumber == 0

Settled == {"FINISHED", "CANCELLED"}

\* Mutated form: a show is airing only while its status says so.
StillAiringListed(status) == status \in {"RELEASING"}

\* is_still_airing: all but the settled ones, an unknown status included.
IsStillAiring(status) == status \notin Settled

Least(x, y) == IF x < y THEN x ELSE y

\* expected_episode_count: unknown is Unlisted, which lists what the provider has.
Unlisted == -1

ExpectedRaw(r) ==
    IF ~IsStillAiring(r.status) \/ r.next = NoNumber
    THEN IF r.total = NoNumber THEN Unlisted ELSE r.total
    ELSE IF r.next <= 1 THEN Unlisted
    ELSE IF r.total = NoNumber THEN r.next - 1 ELSE Least(r.next - 1, r.total)

Expected(r) == IF ExpectedRaw(r) = Unlisted THEN Unlisted ELSE Least(ExpectedRaw(r), HintLimit)

\* ListStatus::after_play
StatusAfter(status, progress, r) ==
    IF status = "completed" THEN "completed"
    ELSE IF IsStillAiring(r.status) THEN "watching"
    ELSE IF r.total > 0 /\ progress >= r.total THEN "completed"
    ELSE "watching"

-----------------------------------------------------------------------------
\* What AniList may say today: the total unknown, planned or aired so far, the next
\* episode left out, the status left out.
Records ==
    IF aired = Length
    THEN [status : {"FINISHED", "none"}, total : {NoNumber, Length}, next : {NoNumber}]
    ELSE [status : {"RELEASING", "HIATUS", "NOT_YET_RELEASED", "none"},
          total : {NoNumber, aired, Length}, next : {NoNumber, aired + 1}]

Announced == [status |-> "NOT_YET_RELEASED", total |-> NoNumber, next |-> 1]

AiringTypeOK ==
    /\ aired \in 0 .. Length /\ seen \in 0 .. aired
    /\ record.total \in 0 .. Length /\ record.next \in 0 .. Length
    /\ standing \in {"planning", "watching", "completed"}

AiringInit ==
    /\ \E f \in FirstDays : day = f.day /\ date = [year |-> f.year, month |-> f.month, dom |-> f.dom]
    /\ aired = 0 /\ seen = 0 /\ standing = "planning"
    /\ record = Announced

LeapYear(y) == y % 4 = 0 /\ (y % 100 # 0 \/ y % 400 = 0)

DaysOf(m, y) ==
    CASE m = 2 -> IF LeapYear(y) THEN 29 ELSE 28
      [] m \in {4, 6, 9, 11} -> 30
      [] OTHER -> 31

\* The calendar turns a page; the two clocks of the model meet in no definition, so
\* days pass before the first episode and episodes air on a first day.
DayPasses ==
    /\ aired = 0 /\ record = Announced
    /\ \A f \in FirstDays : day # f.day + Span
    /\ day' = day + 1
    /\ date' = IF date.dom < DaysOf(date.month, date.year) THEN [date EXCEPT !.dom = @ + 1]
               ELSE IF date.month < 12 THEN [year |-> date.year, month |-> date.month + 1, dom |-> 1]
               ELSE [year |-> date.year + 1, month |-> 1, dom |-> 1]
    /\ UNCHANGED <<aired, record, seen, standing>>

FirstDay == \E f \in FirstDays : day = f.day

EpisodeAirs == FirstDay /\ aired < Length /\ aired' = aired + 1 /\ UNCHANGED <<day, date, record, seen, standing>>

Refreshed == FirstDay /\ record' \in Records /\ UNCHANGED <<day, date, aired, seen, standing>>

\* A play of any episode that has aired.
Played ==
    /\ FirstDay /\ \E e \in 1 .. aired : seen' = IF e > seen THEN e ELSE seen
    /\ standing' = StatusAfter(standing, seen', record)
    /\ UNCHANGED <<day, date, aired, record>>

AiringNext == DayPasses \/ EpisodeAirs \/ Refreshed \/ Played

AiringSpec == AiringInit /\ [][AiringNext]_airingVars

-----------------------------------------------------------------------------
\* civil_from_days is the calendar, day by day, over leap years, centuries and the
\* turn of an era.
DateTrue == Civil(day) = date

NextSeason(s) == Seasons[((CHOOSE i \in 1 .. 4 : Seasons[i] = s) % 4) + 1]

\* The cour stays or moves to the next one, and its year moves with winter and only
\* then: no cour is skipped, repeated or put in the wrong year (current_cour).
CoursInOrder ==
    [][day' # day /\ CurrentCour(day') # CurrentCour(day) =>
          /\ CurrentCour(day').season = NextSeason(CurrentCour(day).season)
          /\ CurrentCour(day').year = CurrentCour(day).year
                + (IF CurrentCour(day').season = "winter" THEN 1 ELSE 0)]_airingVars

\* The record was read when so many episodes had aired; it never makes the grid hide
\* one of those (expected_episode_count: over-listing is all right).
NoneHidden ==
    [][record' # record /\ Expected(record') # Unlisted =>
          Expected(record') >= Least(aired, HintLimit)]_airingVars

\* A play completes a show only when all of it has aired and been seen, although the
\* total may be that of the episodes aired so far (after_play, is_still_airing).
CompletedIsOver == standing = "completed" => aired = Length /\ seen = Length

\* The four together.
AiringSound == [](DateTrue /\ CompletedIsOver) /\ CoursInOrder /\ NoneHidden
=============================================================================
