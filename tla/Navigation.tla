----------------------------- MODULE Navigation -----------------------------
(***************************************************************************)
(* The keys and the surfaces (src/tui/app.rs, src/tui/view/history.rs):    *)
(* views, panes, modes and the zoom; the History list with its filter and  *)
(* its cursor; the one detail surface the views share; the armed delete,   *)
(* the single undo, the startup landing; all of it against results that    *)
(* land between two keys.  Settings stand as one value and its dirty flag. *)
(***************************************************************************)
EXTENDS Integers, Sequences, FiniteSets, SequencesExt

CONSTANTS
    Anime,     \* the shows
    Listed,    \* the shows the searches and the feeds answer with
    MaxSteps   \* bound of the run: keys and results

Nobody == 0
Views == {"browse", "history", "discover", "settings", "detail"}
ListViews == Views \ {"detail"}

ASSUME NavigationAssumption ==
    Anime \subseteq Nat \ {0} /\ IsFiniteSet(Anime) /\ Listed \subseteq Anime

VARIABLES
    screen,   \* [view, pane, mode, wide, origin]
    saved,    \* the shows of the library
    nav,      \* HistoryState: the nav order, the cursor, whether a filter stands
    picked,  \* the selected Browse result
    card,     \* the selected Discover card
    surface,  \* DetailState.shown
    session,  \* the episode session: [for, state, own]; own: started by the landing
    late,     \* shows whose superseded walk still owes an answer
    asking,   \* confirm_delete
    undoable, \* the row of the captured undo
    landing,  \* [sized, demote]: the first size is known; resume_demote
    airing,   \* the show that plays
    settings, \* [dirty, editing]
    steps     \* keys and results so far

listVars == <<saved, nav, picked, card>>
shownVars == <<surface, session, late>>
safetyVars == <<asking, undoable, landing, airing>>
navVars == <<screen, saved, nav, picked, card, surface, session, late, asking, undoable,
             landing, airing, settings, steps>>

NoSession == [for |-> Nobody, state |-> "idle", own |-> FALSE]

\* HistoryState::selected
Selected(n) == IF n.cursor \in 1 .. Len(n.order) THEN n.order[n.cursor] ELSE Nobody
Focused == screen.pane = "detail" /\ screen.view \in {"browse", "history"}
OnDetail == screen.view = "detail" \/ Focused
OnHistoryList == screen.view = "history" /\ screen.pane = "list"
Keys == asking = Nobody
NormalKeys == Keys /\ screen.mode = "normal" /\ ~settings.editing

NavTypeOK ==
    /\ screen.view \in Views /\ screen.origin \in {"browse", "history", "discover"}
    /\ screen.pane = "detail" => screen.wide /\ screen.view \in {"browse", "history", "detail"}
    /\ asking # Nobody => OnHistoryList /\ screen.mode = "normal"
    /\ settings.editing => screen.view = "settings"
    /\ \A i \in 1 .. Len(nav.order) : nav.order[i] \in saved
    /\ nav.cursor \in 1 .. (IF nav.order = <<>> THEN 1 ELSE Len(nav.order))

\* App::new: the initial load; the landing waits for the first size.
NavInit ==
    /\ screen = [view |-> "history", pane |-> "list", mode |-> "normal", wide |-> FALSE, origin |-> "browse"]
    /\ saved \in SUBSET Anime
    /\ nav \in {[order |-> o, cursor |-> 1, filtered |-> FALSE] : o \in SetToSeqs(saved)}
    /\ picked = Nobody /\ card = Nobody /\ surface = Nobody /\ session = NoSession /\ late = {}
    /\ asking = Nobody /\ undoable = Nobody /\ airing = Nobody
    /\ landing = [sized |-> FALSE, demote |-> Nobody]
    /\ settings = [dirty |-> FALSE, editing |-> FALSE] /\ steps = 0

-----------------------------------------------------------------------------
(***************************************************************************)
(* The detail surface and the History list.                                *)
(***************************************************************************)

\* Mutated form: the grid outlives the selection.
SessionKept(s) == session

\* set_target voids the session of another show.
SessionFor(s) == IF s # Nobody /\ s = surface THEN session ELSE NoSession

\* A walk that is reset still has its answer to come.
Superseded(new) ==
    IF session.state = "walking" /\ new # session THEN late \cup {session.for} ELSE late

Target(s) ==
    /\ surface' = s /\ session' = SessionFor(s) /\ late' = Superseded(SessionFor(s))

\* set_target and engage in one handler; the listing may be cached.
TargetAndEngage(s, byLanding) ==
    /\ surface' = s
    /\ IF s = Nobody THEN session' = NoSession
       ELSE IF SessionFor(s).state # "idle" THEN session' = SessionFor(s)
       ELSE \E how \in {"walking", "grid"} : session' = [for |-> s, state |-> how, own |-> byLanding]
    /\ late' = Superseded(session')

\* Mutated form: the cursor keeps its place, whatever is there.
AnchoredByPlace(order, n) == IF n.cursor <= Len(order) THEN n.cursor ELSE IF order = <<>> THEN 1 ELSE Len(order)

\* rebuild_with: the cursor follows the identity, and clamps when it is gone.
Anchored(order, n) ==
    IF Selected(n) # Nobody /\ Contains(order, Selected(n))
    THEN CHOOSE i \in 1 .. Len(order) : order[i] = Selected(n)
    ELSE IF n.cursor <= Len(order) THEN n.cursor ELSE IF order = <<>> THEN 1 ELSE Len(order)

\* The nav order holds kept, in some order of its groups.
Ordered(kept) ==
    \E o \in SetToSeqs(kept) : nav' = [nav EXCEPT !.order = o, !.cursor = Anchored(o, nav)]

\* HistoryState::load: the rows that matched match again, unless renamed.
Reordered(rows, renamed) ==
    \E kept \in SUBSET rows :
        /\ IF nav.filtered THEN (ToSet(nav.order) \ renamed) \cap rows \subseteq kept ELSE kept = rows
        /\ Ordered(kept)

\* push_history_selection, push_browse_selection: only where a detail shows.
Push(view, s) == IF screen.wide \/ view = "detail" THEN Target(s) ELSE UNCHANGED shownVars

-----------------------------------------------------------------------------
(***************************************************************************)
(* Moving between the surfaces.                                            *)
(***************************************************************************)

\* Mutated form: the other ways out of Settings do not save.
PersistedKept == settings

\* persist_settings on the way out.
Persisted == [settings EXCEPT !.dirty = FALSE]

\* switch_view by letter, or by an F-key, which closes any prompt.
SwitchView(v) ==
    /\ Keys /\ ~settings.editing /\ screen.view # v
    /\ screen' = [screen EXCEPT !.view = v, !.pane = "list", !.mode = "normal"]
    /\ settings' = IF screen.view = "settings" THEN Persisted ELSE settings
    /\ CASE v = "browse" -> Push(v, picked) /\ UNCHANGED nav
         [] v = "history" -> Reordered(saved, {}) /\ Push(v, Selected(nav'))
         [] OTHER -> UNCHANGED <<shownVars, nav>>
    /\ UNCHANGED <<saved, picked, card, safetyVars>>

MovesTo(s) ==
    /\ screen' = s
    /\ UNCHANGED <<listVars, safetyVars, settings>>

Zoomed == [screen EXCEPT !.view = "detail",
                 !.origin = IF screen.view \in {"history", "discover"} THEN screen.view ELSE "browse"]

\* Mutated form: the pane is restored where there is no room for it.
DemotedAlways == [screen EXCEPT !.view = screen.origin, !.pane = "detail"]

Demoted == [screen EXCEPT !.view = screen.origin,
                !.pane = IF screen.origin # "discover" /\ screen.wide THEN "detail" ELSE "list"]

\* on_escape, on_h, on_space: one layer, never the base view.
Back ==
    /\ NormalKeys
    /\ \/ Focused /\ MovesTo([screen EXCEPT !.pane = "list"])
       \/ screen.view = "detail" /\ MovesTo(Demoted)
    /\ UNCHANGED shownVars

\* on_space on the pane.
Zoom == NormalKeys /\ Focused /\ MovesTo(Zoomed) /\ UNCHANGED shownVars

\* on_enter, on_l, on_space: from a list to where its grid is visible.
Drill ==
    /\ NormalKeys /\ screen.pane = "list"
    /\ \/ /\ screen.view = "history" /\ screen.wide
          /\ MovesTo([screen EXCEPT !.pane = "detail"]) /\ TargetAndEngage(Selected(nav), FALSE)
       \/ /\ screen.view = "history" /\ ~screen.wide
          /\ MovesTo(Zoomed) /\ TargetAndEngage(Selected(nav), FALSE)
       \/ /\ screen.view = "browse" /\ screen.wide
          /\ MovesTo([screen EXCEPT !.pane = "detail"]) /\ TargetAndEngage(picked, FALSE)
       \/ /\ screen.view = "discover"
          /\ MovesTo(Zoomed) /\ TargetAndEngage(IF card = Nobody THEN surface ELSE card, FALSE)

\* on_j, on_k, on_jump on a list, a Discover move, a Browse row.
MoveCursor ==
    /\ NormalKeys /\ screen.pane = "list"
    /\ \/ /\ screen.view = "history" /\ nav.order # <<>>
          /\ \E c \in 1 .. Len(nav.order) : nav' = [nav EXCEPT !.cursor = c]
          /\ Push("history", Selected(nav')) /\ UNCHANGED <<picked, card>>
       \/ /\ screen.view = "browse" /\ picked' \in Listed /\ picked # Nobody
          /\ Push("browse", picked') /\ UNCHANGED <<nav, card>>
       \/ screen.view = "discover" /\ card' \in Listed /\ card # Nobody /\ UNCHANGED <<shownVars, nav, picked>>
    /\ UNCHANGED <<screen, saved, safetyVars, settings>>

\* open_search, open_command; `/` in Discover jumps to Browse.
OpenPrompt ==
    /\ NormalKeys
    /\ \/ screen.view \in {"browse", "history"} /\ screen' = [screen EXCEPT !.mode = "search"] /\ UNCHANGED shownVars
       \/ /\ screen.view = "discover" /\ Push("browse", picked)
          /\ screen' = [screen EXCEPT !.view = "browse", !.pane = "list", !.mode = "search"]
       \/ screen' = [screen EXCEPT !.mode = "command"] /\ UNCHANGED shownVars
    /\ UNCHANGED <<listVars, safetyVars, settings>>

\* on_search_char, on_search_backspace in History: the list narrows at once and
\* nothing is pushed.
EditFilter ==
    /\ Keys /\ screen.mode = "search" /\ screen.view = "history"
    /\ \E kept \in SUBSET saved, f \in BOOLEAN : \E o \in SetToSeqs(kept) :
          /\ ~f => kept = saved
          /\ nav' = [order |-> o, cursor |-> Anchored(o, nav), filtered |-> f]
    /\ UNCHANGED <<screen, saved, picked, card, shownVars, safetyVars, settings>>

\* close_search, lock_search, a command that does nothing here.
ClosePrompt ==
    /\ Keys /\ screen.mode # "normal"
    /\ \/ /\ screen' = [screen EXCEPT !.mode = "normal"]
          /\ IF screen.mode = "search" /\ screen.view = "history"
             THEN \E o \in SetToSeqs(saved) : nav' = [order |-> o, cursor |-> 1, filtered |-> FALSE]
             ELSE UNCHANGED nav
       \/ screen.mode = "search" /\ screen' = [screen EXCEPT !.mode = "normal", !.pane = "list"] /\ UNCHANGED nav
    /\ UNCHANGED <<saved, picked, card, shownVars, safetyVars, settings>>

\* `:dub`, or the Settings row: an engaged show is resolved again.
ToggleTrack ==
    /\ Keys
    /\ \/ screen.mode = "command" /\ screen' = [screen EXCEPT !.mode = "normal"] /\ UNCHANGED settings
       \/ /\ NormalKeys /\ screen.view = "settings" /\ settings' = [settings EXCEPT !.dirty = TRUE] /\ UNCHANGED screen
    /\ IF session.state # "idle" /\ session.for = surface
       THEN \E how \in {"walking", "grid"} :
               /\ session' = [for |-> surface, state |-> how, own |-> FALSE]
               /\ late' = Superseded(NoSession)
       ELSE UNCHANGED <<session, late>>
    /\ UNCHANGED <<listVars, surface, safetyVars>>

\* SettingsState::on_key, on_edit_key.
EditSettings ==
    /\ Keys /\ screen.view = "settings" /\ screen.mode = "normal"
    /\ settings' = IF settings.editing THEN [dirty |-> settings.dirty, editing |-> FALSE]
                   ELSE [settings EXCEPT !.editing = TRUE]
    /\ UNCHANGED <<screen, listVars, shownVars, safetyVars>>

CommitEdit ==
    /\ Keys /\ settings.editing /\ settings' = [dirty |-> TRUE, editing |-> FALSE]
    /\ UNCHANGED <<screen, listVars, shownVars, safetyVars>>

-----------------------------------------------------------------------------
(***************************************************************************)
(* Keys that change the library.                                           *)
(***************************************************************************)

\* reload_history: every armed confirm is off, the preview follows.
ReloadHistory(rows) ==
    /\ saved' = rows /\ Reordered(rows, {})
    /\ IF screen.view = "history" THEN Push("history", Selected(nav')) ELSE UNCHANGED shownVars

\* on_status_key captures the undo, on_recompute voids it, on_undo spends it.
StatusKeys ==
    /\ NormalKeys /\ OnHistoryList /\ Selected(nav) # Nobody
    /\ undoable' \in {Selected(nav), Nobody}
    /\ ReloadHistory(saved)
    /\ UNCHANGED <<screen, picked, card, asking, landing, airing, settings>>

UndoKey ==
    /\ NormalKeys /\ OnHistoryList /\ undoable # Nobody /\ undoable' = Nobody
    /\ ReloadHistory(saved)
    /\ UNCHANGED <<screen, picked, card, asking, landing, airing, settings>>

\* on_plan saves the card or the result.
PlanKey ==
    /\ NormalKeys
    /\ \E s \in {picked, card} \ {Nobody} :
          /\ \/ screen.view = "discover" /\ s = card
             \/ screen.view = "browse" /\ screen.pane = "list" /\ s = picked
          /\ saved' = saved \cup {s}
    /\ UNCHANGED <<screen, nav, picked, card, shownVars, safetyVars, settings>>

ArmDelete ==
    /\ NormalKeys /\ OnHistoryList /\ Selected(nav) # Nobody /\ asking' = Selected(nav)
    /\ UNCHANGED <<screen, listVars, shownVars, undoable, landing, airing, settings>>

\* Mutated form: the undo outlives the row.
UndoAfterKept(s) == undoable

\* A stale undo pointing at the deleted row is cleared.
UndoAfter(s) == IF undoable = s THEN Nobody ELSE undoable

\* Mutated form: the show that plays goes too.
RefusesNoDelete(s) == FALSE

RefusesDelete(s) == s = airing

\* on_confirm_key: `y` deletes, unless the show plays; any other key disarms.
ConfirmKey ==
    /\ asking # Nobody /\ asking' = Nobody
    /\ \/ /\ ~RefusesDelete(asking) /\ undoable' = UndoAfter(asking) /\ ReloadHistory(saved \ {asking})
       \/ UNCHANGED <<undoable, saved, nav, shownVars>>
    /\ UNCHANGED <<screen, picked, card, landing, airing, settings>>

\* on_play, where the grid of the surface is in reach; the row is then minted.
PlayKey ==
    /\ NormalKeys /\ OnDetail /\ session.state = "grid" /\ surface # Nobody /\ airing = Nobody
    /\ airing' = surface
    /\ UNCHANGED <<screen, listVars, shownVars, asking, undoable, landing, settings>>

\* on_play_finished with something to record: the row is written and read back.
PlayFinishes ==
    /\ airing # Nobody /\ airing' = Nobody
    /\ \/ ReloadHistory(saved \cup {airing}) /\ asking' = Nobody
       \/ UNCHANGED <<saved, nav, shownVars, asking>>
    /\ UNCHANGED <<screen, picked, card, undoable, landing, settings>>

-----------------------------------------------------------------------------
(***************************************************************************)
(* What lands between two keys.                                            *)
(***************************************************************************)

Resized(w) == [screen EXCEPT !.wide = w, !.pane = IF w THEN @ ELSE "list"]

\* on_resize
Resize ==
    /\ \E w \in BOOLEAN : screen' = Resized(w)
    /\ UNCHANGED <<listVars, shownVars, safetyVars, settings>>

\* The first size, ticked before any key (run): start_screen may ask for the
\* last watched show (open_resume_landing).
FirstSize ==
    /\ ~landing.sized
    /\ \E w \in BOOLEAN :
       \/ /\ screen' = Resized(w) /\ landing' = [landing EXCEPT !.sized = TRUE]
          /\ UNCHANGED <<nav, shownVars>>
       \/ \E c \in 1 .. Len(nav.order) :
          /\ screen' = IF w THEN [Resized(w) EXCEPT !.pane = "detail"]
                       ELSE [Resized(w) EXCEPT !.view = "detail", !.origin = "history"]
          /\ nav' = [nav EXCEPT !.cursor = c] /\ TargetAndEngage(nav.order[c], TRUE)
          /\ landing' = [sized |-> TRUE, demote |-> IF session'.state = "grid" THEN Nobody ELSE nav.order[c]]
    /\ UNCHANGED <<saved, picked, card, asking, undoable, airing, settings>>

\* A search page 1 or a feed page: the list replaced, the selection pushed.
PageLands ==
    /\ \/ picked' \in Listed \cup {Nobody} /\ Push(screen.view, picked') /\ UNCHANGED card
       \/ card = Nobody /\ card' \in Listed /\ UNCHANGED <<picked, shownVars>>
    /\ UNCHANGED <<screen, saved, nav, safetyVars, settings>>

\* on_enrichment_refreshed reads the list back, with other titles for one show,
\* and disarms nothing.
EnrichmentLands ==
    /\ \E s \in saved : Reordered(saved, {s})
    /\ UNCHANGED <<screen, saved, picked, card, shownVars, safetyVars, settings>>

\* demote_resume_landing
LandingDemotes ==
    /\ screen' = [screen EXCEPT !.view = IF @ = "detail" THEN "history" ELSE @, !.pane = "list"]
    /\ landing' = [landing EXCEPT !.demote = Nobody]

\* on_episode_event for the live walk: the grid, or no source.
WalkLands ==
    /\ session.state = "walking"
    /\ \E end \in {"grid", "dead"} :
          /\ session' = [session EXCEPT !.state = end]
          /\ IF landing.demote # session.for THEN UNCHANGED <<screen, landing>>
             ELSE IF end = "dead" THEN LandingDemotes
             ELSE landing' = [landing EXCEPT !.demote = Nobody] /\ UNCHANGED screen
    /\ UNCHANGED <<listVars, surface, late, asking, undoable, airing, settings>>

\* on_episode_event for a superseded walk: dropped by its token, but the landing
\* is looked at all the same.
LateLands ==
    /\ \E s \in late :
          /\ late' = late \ {s}
          /\ landing' = IF landing.demote = s /\ session.state = "grid" THEN [landing EXCEPT !.demote = Nobody] ELSE landing
    /\ UNCHANGED <<screen, listVars, surface, session, asking, undoable, airing, settings>>

\* One key or one event; the loop handles one at a time.
Handles ==
    \/ \E v \in ListViews : SwitchView(v)
    \/ Back \/ Zoom \/ Drill \/ MoveCursor \/ OpenPrompt \/ EditFilter \/ ClosePrompt
    \/ ToggleTrack \/ EditSettings \/ CommitEdit
    \/ StatusKeys \/ UndoKey \/ PlanKey \/ ArmDelete \/ ConfirmKey \/ PlayKey
    \/ PlayFinishes \/ Resize \/ PageLands \/ EnrichmentLands \/ WalkLands \/ LateLands

NavNext ==
    /\ steps < MaxSteps /\ steps' = steps + 1
    /\ \/ FirstSize
       \/ landing.sized /\ Handles

NavSpec == NavInit /\ [][NavNext]_navVars

-----------------------------------------------------------------------------
(***************************************************************************)
(* Properties.                                                             *)
(***************************************************************************)

\* Without a filter the confirm names the show under the cursor for as long as it
\* is armed, also when a result re-reads the list under it
\* (on_enrichment_refreshed, rebuild_with).
ConfirmUnderCursor == asking # Nobody /\ ~nav.filtered => asking = Selected(nav)

\* The captured undo always has its row (on_confirm_key).
UndoHasRow == undoable # Nobody => undoable \in saved

\* A grid or a walk belongs to the show on the surface: play can not launch
\* another (set_target, ROD-329).
SessionOfSurface == session.state # "idle" => session.for = surface

\* The show that plays is not deleted under the player (on_confirm_key).
PlayingKept == [][airing # Nobody /\ airing \in saved => airing \in saved']_navVars

\* Settings that are left are saved, by whichever key they are left (switch_view).
SettingsSaved == settings.dirty => screen.view = "settings"

\* What the source says of the landing: only the walk the landing itself opened
\* may fall back to the list (open_resume_landing).
OwnWalkDemotes ==
    [][landing.demote # Nobody /\ landing'.demote = Nobody /\ session'.state = "dead" => session.own]_navVars

\* A key acts on what the user sees: the row the confirm names, the session of the
\* surface, an undo that has its row, the show that plays, the settings that were
\* left (the handlers of App).
KeysActOnWhatIsSeen ==
    /\ [](ConfirmUnderCursor /\ UndoHasRow /\ SessionOfSurface /\ SettingsSaved)
    /\ PlayingKept
=============================================================================
