----------------------------- MODULE Preferences -----------------------------
(***************************************************************************)
(* The settings (src/tui/view/settings.rs, config.rs, app.rs): a file      *)
(* read at launch, whatever state it is in; rows that are cycled, toggled  *)
(* or typed into; and a save on the way out of the tab that may fail, or   *)
(* be cut short by a crash. The engaged grid follows the translation.      *)
(***************************************************************************)
EXTENDS Integers, Sequences, FiniteSets, SequencesExt

CONSTANTS
    Registry,   \* the providers, in construction order
    Tried,      \* the settings the user touches in the run
    Stored,     \* config.toml at the first launch: [kind, config]
    TabHeight,  \* heights of the Settings tab
    MaxEdits,   \* bound of the run: edits and commands
    MaxLaunches

ASSUME PreferencesAssumption ==
    /\ TabHeight \subseteq Nat \ {0} /\ MaxEdits \in Nat /\ MaxLaunches \in Nat
    /\ Registry \in Seq(STRING \ {""})
    /\ \A r, s \in DOMAIN Registry : Registry[r] = Registry[s] => r = s

Row(id, kind) == [id |-> id, kind |-> kind]

\* ROWS
Rows ==
    <<Row("path", "text"), Row("quality", "cycle"), Row("translation", "cycle"),
      Row("offset", "cycle"), Row("skip", "cycle"), Row("provider", "cycle"),
      Row("covers", "toggle"), Row("kanji", "toggle"), Row("palette", "cycle"),
      Row("transparent", "toggle"), Row("landing", "cycle"), Row("titles", "cycle"),
      Row("connect", "action"), Row("sync", "toggle"), Row("updates", "toggle")>>

\* *_PRESETS; unset is a stop of the provider wheel.
Wheel ==
    [quality |-> <<"worst", "480", "720", "1080", "best">>, translation |-> <<"sub", "dub">>,
     offset |-> <<"0", "3", "5", "10", "15", "30">>, skip |-> <<"none", "intro", "outro", "both">>,
     provider |-> <<"">> \o Registry,
     palette |-> <<"terminal_ghost", "phosphor", "nord", "tokyonight">>,
     landing |-> <<"history", "browse", "last_watched">>, titles |-> <<"romaji", "english", "native">>]

\* Config::default
Defaults ==
    [path |-> "mpv", quality |-> "best", translation |-> "sub", offset |-> "5", skip |-> "both",
     provider |-> "", covers |-> "on", kanji |-> "on", palette |-> "terminal_ghost",
     transparent |-> "off", landing |-> "last_watched", titles |-> "romaji",
     sync |-> "on", updates |-> "on"]

Settings == DOMAIN Defaults

\* A setting the file leaves out has its default.
ASSUME StoredAssumption == \A file \in Stored : file.config = [id \in Settings |-> file.config[id]]

VARIABLES
    config,     \* App.config
    stored,     \* config.toml: missing, damaged or whole
    draft,      \* config.toml.tmp
    folder,     \* whether the config directory is there
    tab,        \* SettingsState: [editing, buffer, dirty]
    place,      \* the Settings tab, elsewhere, or not running
    saving,     \* the step of the save under way: no, opened, written
    bound,      \* where the save's caller goes next
    gridTrack,  \* the track the engaged grid was asked for, or none
    told,       \* the last toast about the settings
    owed,       \* settings edited since a save took
    changed,    \* settings changed since the launch
    edits, launches

saveVars == <<stored, draft, folder, saving, bound, told>>
prefVars == <<config, tab, place, gridTrack, owed, changed, edits, launches, saveVars>>

Unwritten == [kind |-> "missing", config |-> Defaults]
Torn == [kind |-> "damaged", config |-> Defaults]

\* Config::load: anything but a whole file is the defaults.
LoadedFrom(file) == IF file.kind = "whole" THEN file.config ELSE Defaults

FreshTab == [editing |-> FALSE, buffer |-> "", dirty |-> FALSE]

PreferencesInit ==
    /\ stored \in Stored /\ folder \in BOOLEAN /\ (~folder => stored.kind = "missing")
    /\ config = LoadedFrom(stored) /\ draft = Unwritten
    /\ tab = FreshTab /\ place = "elsewhere" /\ saving = "no" /\ bound = "elsewhere"
    /\ gridTrack = "none" /\ told = "nothing" /\ owed = {} /\ changed = {}
    /\ edits = 0 /\ launches = 1

-----------------------------------------------------------------------------
\* Mutated form: unset is no stop of the wheel.
StepPastUnset(id, v, dir) ==
    LET w == SelectSeq(Wheel[id], LAMBDA stop : stop # "")
        at == IF v \in ToSet(w) THEN CHOOSE i \in DOMAIN w : w[i] = v ELSE 1
    IN w[((at - 1 + dir) % Len(w)) + 1]

\* cycle_preset, cycle_provider: an unknown value stands at the first stop.
Step(id, v, dir) ==
    LET w == Wheel[id]
        at == IF v \in ToSet(w) THEN CHOOSE i \in DOMAIN w : w[i] = v ELSE 1
    IN w[((at - 1 + dir) % Len(w)) + 1]

\* toggle
Flipped(v) == IF v = "on" THEN "off" ELSE "on"

\* value: unset shows the leader, marked as the default.
ShownAs(id, v) ==
    IF id # "provider" \/ v # "" THEN <<v>>
    ELSE IF Registry = <<>> THEN <<>> ELSE <<Registry[1], "(default)">>

\* Translation::parse, with sub for what it does not know.
Track(c) == IF c.translation = "dub" THEN "dub" ELSE "sub"

Listens == place # "off" /\ saving = "no"
OnRow == Listens /\ place = "settings" /\ ~tab.editing
Counted == edits < MaxEdits /\ edits' = edits + 1

\* on_settings_config_changed, toggle_translation: an engaged grid is asked anew.
AskAnew(c) == gridTrack' = IF c.translation # config.translation /\ gridTrack # "none" THEN Track(c) ELSE gridTrack

Edit(id, c) ==
    /\ Counted /\ id \in Tried /\ config' = c /\ AskAnew(c)
    /\ owed' = owed \cup {id} /\ changed' = changed \cup {id}
    /\ UNCHANGED <<saveVars, place, launches>>

\* on_key of the focused row, whichever the cursor keys led to.
CycleRow(id, dir) ==
    /\ OnRow /\ Row(id, "cycle") \in ToSet(Rows) /\ (id = "provider" => Registry # <<>>)
    /\ Edit(id, [config EXCEPT ![id] = Step(id, @, dir)]) /\ tab' = [tab EXCEPT !.dirty = TRUE]

ToggleRow(id) ==
    /\ OnRow /\ Row(id, "toggle") \in ToSet(Rows)
    /\ Edit(id, [config EXCEPT ![id] = Flipped(@)]) /\ tab' = [tab EXCEPT !.dirty = TRUE]

EditText ==
    /\ OnRow /\ "path" \in Tried
    /\ tab' = [tab EXCEPT !.editing = TRUE, !.buffer = config.path]
    /\ UNCHANGED <<saveVars, config, place, gridTrack, owed, changed, edits, launches>>

\* on_edit_key: esc drops the buffer, every other key but enter only changes it.
TypeText ==
    /\ Listens /\ tab.editing
    /\ \E text \in {"", "vlc"} : tab' = [tab EXCEPT !.buffer = text]
    /\ UNCHANGED <<saveVars, config, place, gridTrack, owed, changed, edits, launches>>

DropText ==
    /\ Listens /\ tab.editing /\ tab' = [tab EXCEPT !.editing = FALSE, !.buffer = ""]
    /\ UNCHANGED <<saveVars, config, place, gridTrack, owed, changed, edits, launches>>

\* Mutated form: an empty buffer is a path like any other.
TakesBlank(text) == TRUE

Takes(text) == text # ""

CommitText ==
    /\ Listens /\ tab.editing
    /\ IF Takes(tab.buffer)
       THEN Edit("path", [config EXCEPT !.path = tab.buffer])
            /\ tab' = [tab EXCEPT !.editing = FALSE, !.buffer = "", !.dirty = TRUE]
       ELSE /\ tab' = [tab EXCEPT !.editing = FALSE]
            /\ UNCHANGED <<saveVars, config, place, gridTrack, owed, changed, edits, launches>>

\* toggle_translation, of the command `:dub`: for the session, not for the file.
DubCommand ==
    LET c == [config EXCEPT !.translation = IF @ = "dub" THEN "sub" ELSE "dub"]
    IN /\ Listens /\ ~tab.editing /\ Counted /\ config' = c /\ AskAnew(c)
       /\ changed' = changed \cup {"translation"}
       /\ UNCHANGED <<saveVars, tab, place, owed, launches>>

\* engage_detail and its end, with the episode session (Walk has its steps).
EngageGrid ==
    /\ Listens /\ place = "elsewhere" /\ gridTrack' = IF gridTrack = "none" THEN Track(config) ELSE "none"
    /\ UNCHANGED <<saveVars, config, tab, place, owed, changed, edits, launches>>

-----------------------------------------------------------------------------
OpenTab ==
    /\ Listens /\ place = "elsewhere" /\ place' = "settings"
    /\ UNCHANGED <<saveVars, config, tab, gridTrack, owed, changed, edits, launches>>

\* persist_settings, from switch_view or on_quit: what is dirty is saved.
Leave(to) ==
    /\ Listens /\ ~tab.editing
    /\ to = "off" \/ place = "settings"
    /\ tab' = [tab EXCEPT !.dirty = FALSE]
    /\ IF place = "settings" /\ tab.dirty /\ folder
       THEN saving' = "begun" /\ bound' = to /\ UNCHANGED <<place, told>>
       ELSE /\ place' = to
            /\ told' = IF place = "settings" /\ tab.dirty THEN "not saved" ELSE told
            /\ UNCHANGED <<saving, bound>>
    /\ UNCHANGED <<config, stored, draft, folder, gridTrack, owed, changed, edits, launches>>

\* Mutated form: the file is written in place.
OpensInPlace(d, s) == draft' = d /\ stored' = Torn

\* The file a save opens, which empties it.
Opens(d, s) == draft' = Torn /\ stored' = s

\* Config::save
SaveStep ==
    /\ \/ saving = "begun" /\ saving' = "opened" /\ Opens(draft, stored)
       \/ saving = "opened" /\ saving' = "written"
          /\ draft' = [kind |-> "whole", config |-> config] /\ UNCHANGED stored
    /\ UNCHANGED <<config, folder, tab, place, bound, gridTrack, told, owed, changed, edits, launches>>

SaveTakes ==
    /\ saving = "written" /\ saving' = "no" /\ stored' = draft /\ draft' = Unwritten
    /\ place' = bound /\ bound' = "elsewhere" /\ told' = "saved" /\ owed' = {}
    /\ UNCHANGED <<config, folder, tab, gridTrack, changed, edits, launches>>

SaveFails ==
    /\ saving # "no" /\ saving' = "no" /\ place' = bound /\ bound' = "elsewhere" /\ told' = "not saved"
    /\ UNCHANGED <<config, stored, draft, folder, tab, gridTrack, owed, changed, edits, launches>>

\* Ctrl-C, or a crash, which a save under way does not stop either.
Dies ==
    /\ place # "off" /\ place' = "off" /\ saving' = "no" /\ bound' = "elsewhere"
    /\ UNCHANGED <<config, stored, draft, folder, tab, gridTrack, told, owed, changed, edits, launches>>

Launches ==
    /\ place = "off" /\ launches < MaxLaunches /\ launches' = launches + 1
    /\ config' = LoadedFrom(stored) /\ tab' = FreshTab /\ place' = "elsewhere"
    /\ gridTrack' = "none" /\ told' = "nothing" /\ owed' = {} /\ changed' = {}
    /\ UNCHANGED <<stored, draft, folder, saving, bound, edits>>

PreferencesNext ==
    \/ \E id \in Tried : ToggleRow(id) \/ \E dir \in {-1, 1} : CycleRow(id, dir)
    \/ EditText \/ TypeText \/ DropText \/ CommitText
    \/ DubCommand \/ EngageGrid \/ OpenTab
    \/ \E to \in {"elsewhere", "off"} : Leave(to)
    \/ SaveStep \/ SaveTakes \/ SaveFails \/ Dies \/ Launches

PreferencesSpec == PreferencesInit /\ [][PreferencesNext]_prefVars

-----------------------------------------------------------------------------
Section(notes, first, last) ==
    <<"header", "rule">> \o [n \in 1 .. notes |-> "note"]
    \o [r \in 1 .. (last - first + 1) |-> Rows[first + r - 1].id]

\* layout: Player, Catalog, Interface, AniList Sync, Updates, with the notes the
\* cursor passes over.
TabLines ==
    Section(0, 1, 5) \o <<"blank">> \o Section(2, 6, 6) \o <<"blank">>
    \o Section(0, 7, 12) \o <<"blank">> \o Section(1, 13, 14) \o <<"blank">> \o Section(1, 15, 15)

\* Mutated form: the window ends above the focused line.
ScrollShort(line, height) == IF line > height + 1 THEN line - height - 1 ELSE 0

\* The window of draw, for a focused line.
Scroll(line, height) == IF line > height THEN line - height ELSE 0

TabShows(id, height) ==
    \E line \in DOMAIN TabLines :
        TabLines[line] = id /\ LET top == Scroll(line, height) IN top < line /\ line <= top + height

-----------------------------------------------------------------------------
PreferencesTypeOK ==
    /\ DOMAIN config = Settings /\ (tab.editing => place # "elsewhere")
    /\ owed \subseteq changed /\ changed \subseteq Tried \cup {"translation"}

\* No crash and no failed save makes of a file that could be read one that cannot:
\* it would load as the defaults, and be saved over (Config::save).
NeverTorn == [][stored.kind # "damaged" => stored'.kind # "damaged"]_<<stored>>

\* A save changes the settings the user changed and no other: a value the program
\* does not know stays as it was written (Config, "kept verbatim").
OthersVerbatim ==
    [][stored.kind = "whole" /\ stored'.kind = "whole" =>
        \A id \in Settings \ changed : stored'.config[id] = stored.config[id]]_<<stored>>

\* An edit is saved when its tab is left, or the user was told that it is not; and
\* what he was told is saved is in the file, but for the track of the session.
EditsAnswered ==
    place = "elsewhere" =>
        /\ ~tab.dirty /\ ~tab.editing
        /\ owed # {} => told = "not saved"
        /\ told = "saved" => \A id \in Settings \ {"translation"} : stored.config[id] = config[id]

\* The player has a name, whatever was typed.
PathNamed == "path" \in changed => config.path # ""

\* An engaged grid is one of the track in the settings, however it was switched.
GridOnTrack == gridTrack # "none" => gridTrack = Track(config)

\* A wheel reaches each of its stops, turns back to where it was, and shows two
\* stops differently; and whatever row has the focus is drawn.
WheelsSound ==
    /\ \A id \in DOMAIN Wheel : \A v \in ToSet(Wheel[id]) :
          /\ Step(id, Step(id, v, 1), -1) = v
          /\ v \in {Step(id, u, 1) : u \in ToSet(Wheel[id])}
          /\ \A u \in ToSet(Wheel[id]) : ShownAs(id, u) = ShownAs(id, v) => u = v
    /\ \A r \in DOMAIN Rows, h \in TabHeight : TabShows(Rows[r].id, h)

PreferencesSound ==
    /\ NeverTorn /\ OthersVerbatim
    /\ [](EditsAnswered /\ PathNamed /\ GridOnTrack)
    /\ WheelsSound
=============================================================================
