------------------------------- MODULE Login -------------------------------
(***************************************************************************)
(* Connecting an AniList account (src/login.rs, src/loopback.rs,           *)
(* src/auth.rs, the connect modal of src/tui/app.rs and `sabigoku login`   *)
(* of src/main.rs): a loopback server per login that a browser calls back, *)
(* the verification of the token, the save of the token file that both     *)
(* processes share, and the modal that is closed by the answer or by esc.  *)
(***************************************************************************)
EXTENDS Integers, FiniteSets

CONSTANTS
    AppLogins,    \* logins the application may open, one after another
    CliLogins     \* runs of `sabigoku login`

ASSUME LoginAssumption ==
    AppLogins \cap CliLogins = {} /\ AppLogins \cup CliLogins \subseteq Nat \ {0}

Logins == AppLogins \cup CliLogins

VARIABLES
    worker,       \* worker[l]: where its loopback worker or process is
    port,         \* the login whose listener holds the redirect port, or 0
    canceled,     \* logins whose cancel flag is set
    modal,        \* the login of the open modal, or 0
    token,        \* token[l]: whose token it was handed: "none", "own", "stranger"
    verified,     \* logins whose token AniList has confirmed
    tmpFile,      \* auth.toml.tmp: the login that created it, or 0
    authFile,     \* auth.toml: likewise
    whole,        \* logins whose record is written to the end
    toldModal,         \* results posted and not yet handled
    signedIn,     \* the login of the record held in memory, or 0
    leaving       \* the application is in its teardown

disk == <<tmpFile, authFile, whole>>
modalVars == <<modal, canceled, signedIn, leaving>>
loginVars == <<worker, port, token, verified, disk, toldModal, modalVars>>

Failures == {"NoToken", "Rejected", "NetworkError", "SaveFailed"}

LoginTypeOK ==
    /\ worker \in [Logins -> {"idle", "waiting", "verifying", "saving", "creating",
                              "writing", "swapping", "gone"}]
    /\ port \in Logins \cup {0}
    /\ token \in [Logins -> {"none", "own", "stranger"}]
    /\ canceled \subseteq AppLogins /\ modal \in AppLogins \cup {0}
    /\ whole \subseteq verified /\ verified \subseteq Logins
    /\ {tmpFile, authFile, signedIn} \subseteq Logins \cup {0}
    /\ toldModal \subseteq AppLogins \X (Failures \cup {"Ok"})
    /\ leaving \in BOOLEAN

LoginInit ==
    /\ worker = [l \in Logins |-> "idle"]
    /\ token = [l \in Logins |-> "none"]
    /\ port = 0 /\ canceled = {} /\ modal = 0
    /\ verified = {} /\ whole = {} /\ tmpFile = 0 /\ authFile = 0
    /\ toldModal = {} /\ signedIn = 0 /\ leaving = FALSE

-----------------------------------------------------------------------------
(***************************************************************************)
(* complete_login, on the worker's thread or in the other process.         *)
(***************************************************************************)
LoginAt(l, place) == worker[l] = place /\ UNCHANGED modalVars

LoginGoes(l, place) == worker' = [worker EXCEPT ![l] = place]

\* The result is posted and the listener closed; a command line prints it.
Ends(l, result) ==
    /\ LoginGoes(l, "gone")
    /\ port' = IF port = l THEN 0 ELSE port
    /\ toldModal' = IF l \in AppLogins THEN toldModal \cup {<<l, result>>} ELSE toldModal

\* Mutated form: the state of a callback is not compared.
OwnStateAny(whose) == TRUE

\* complete_from_query: the state of a callback is the nonce of the login, so
\* the token it carries is the one this login asked for.
OwnState(whose) == whose = "own"

\* serve, handle: the callback of this login ends the wait; the relay page, a
\* silent peer and a callback with another state do not.
AcceptsDial(l, whose) ==
    /\ LoginAt(l, "waiting") /\ port = l /\ l \notin canceled
    /\ OwnState(whose)
    /\ \/ LoginGoes(l, "verifying") /\ token' = [token EXCEPT ![l] = whose] /\ UNCHANGED <<port, toldModal>>
       \/ Ends(l, "NoToken") /\ UNCHANGED token
    /\ UNCHANGED <<verified, disk>>

\* paste_login: no state to compare, a person chose the line.
Pastes(l) ==
    /\ LoginAt(l, "waiting") /\ port # l
    /\ \/ LoginGoes(l, "verifying") /\ token' = [token EXCEPT ![l] = "own"] /\ UNCHANGED <<port, toldModal>>
       \/ Ends(l, "NoToken") /\ UNCHANGED token
    /\ UNCHANGED <<verified, disk>>

\* accept fails, or the worker has no client.
ListenerFails(l) ==
    /\ LoginAt(l, "waiting") /\ port = l
    /\ Ends(l, "NetworkError")
    /\ UNCHANGED <<token, verified, disk>>

\* Mutated form: the file is written before the answer.
VerifiesEarly(l) ==
    /\ LoginAt(l, "verifying")
    /\ LoginGoes(l, "saving")
    /\ UNCHANGED <<port, token, toldModal, verified, disk>>

\* Viewer: the token's account, a confirmed refusal, or no answer.
Verifies(l) ==
    /\ LoginAt(l, "verifying")
    /\ \/ LoginGoes(l, "saving") /\ verified' = verified \cup {l} /\ UNCHANGED <<port, toldModal>>
       \/ \E r \in {"Rejected", "NetworkError"} : Ends(l, r) /\ UNCHANGED verified
    /\ UNCHANGED <<token, disk>>

\* Auth::save, write_new_0600: a stale temporary is removed ...
Saves(l) ==
    /\ LoginAt(l, "saving")
    /\ LoginGoes(l, "creating") /\ tmpFile' = 0
    /\ UNCHANGED <<port, token, toldModal, verified, authFile, whole>>

\* ... a new one created, which fails if another save has created its own ...
Creates(l) ==
    /\ LoginAt(l, "creating")
    /\ IF tmpFile = 0
       THEN LoginGoes(l, "writing") /\ tmpFile' = l /\ UNCHANGED <<port, toldModal>>
       ELSE Ends(l, "SaveFailed") /\ UNCHANGED tmpFile
    /\ UNCHANGED <<token, verified, authFile, whole>>

\* ... written, wherever its name is by now, unless the disk refuses ...
WritesToken(l) ==
    /\ LoginAt(l, "writing")
    /\ \/ LoginGoes(l, "swapping") /\ whole' = whole \cup {l} /\ UNCHANGED <<port, toldModal>>
       \/ Ends(l, "SaveFailed") /\ UNCHANGED whole
    /\ UNCHANGED <<token, verified, tmpFile, authFile>>

\* ... and renamed over the token file, if the name is still there.
Swaps(l) ==
    /\ LoginAt(l, "swapping")
    /\ IF tmpFile = 0
       THEN Ends(l, "SaveFailed") /\ UNCHANGED <<authFile, tmpFile>>
       ELSE Ends(l, "Ok") /\ authFile' = tmpFile /\ tmpFile' = 0
    /\ UNCHANGED <<token, verified, whole>>

-----------------------------------------------------------------------------
(***************************************************************************)
(* The connect modal.                                                      *)
(***************************************************************************)

\* Mutated form: the modal is raised before the thread is there.
ConnectRefusedRaised(l) == modal' = l

\* No thread: a toast, and the listener is dropped with the closure.
ConnectRefused(l) == modal' = 0

\* open_connect: nothing opens while another listener holds the port.
OpenConnect(l) ==
    /\ ~leaving /\ modal = 0 /\ worker[l] = "idle" /\ port = 0
    /\ \/ modal' = l /\ LoginGoes(l, "waiting") /\ port' = l
       \/ ConnectRefused(l) /\ LoginGoes(l, "gone") /\ UNCHANGED port
    /\ UNCHANGED <<canceled, signedIn, leaving, token, verified, disk, toldModal>>

\* `sabigoku login`: without the port, or when told to, it asks for a paste.
RunLogin(l) ==
    /\ worker[l] = "idle"
    /\ LoginGoes(l, "waiting")
    /\ port' \in (IF port = 0 THEN {0, l} ELSE {port})
    /\ UNCHANGED <<modalVars, token, verified, disk, toldModal>>

\* esc: the flag is set and the port dialled once.
CancelConnect ==
    /\ ~leaving /\ modal # 0
    /\ canceled' = canceled \cup {modal} /\ modal' = 0
    /\ UNCHANGED <<signedIn, leaving, worker, port, token, verified, disk, toldModal>>

\* Mutated form: the flag is set and nothing wakes the accept.
WakesNever(l) == FALSE

\* The dial is accepted, or whatever connects before it.
LoginWakes(l) == l \in canceled

Unblocks(l) ==
    /\ LoginAt(l, "waiting") /\ LoginWakes(l)
    /\ LoginGoes(l, "gone") /\ port' = 0
    /\ UNCHANGED <<token, verified, disk, toldModal>>

\* on_connect_result: it closes the modal that is open, whosever it is, and the
\* record is read again.
ConnectAnswered ==
    /\ ~leaving
    /\ \E r \in toldModal : toldModal' = toldModal \ {r}
    /\ modal' = 0
    /\ signedIn' = IF authFile \in whole THEN authFile ELSE 0
    /\ UNCHANGED <<canceled, leaving, worker, port, token, verified, disk>>

\* Mutated form: the teardown waits for a server nobody calls.
ShutdownConnectNever == UNCHANGED canceled

\* shutdown_connect.
ShutdownConnect == canceled' = canceled \cup ({modal} \ {0})

LeaveApp ==
    /\ ~leaving /\ leaving' = TRUE
    /\ ShutdownConnect
    /\ UNCHANGED <<modal, signedIn, worker, port, token, verified, disk, toldModal>>

\* Ctrl-C in the other process.
KillLogin(l) ==
    /\ worker[l] \notin {"idle", "gone"}
    /\ LoginGoes(l, "gone") /\ port' = IF port = l THEN 0 ELSE port
    /\ UNCHANGED <<modalVars, token, verified, disk, toldModal>>

LoginWork(l) ==
    \/ Unblocks(l) \/ Verifies(l) \/ Saves(l) \/ Creates(l) \/ WritesToken(l) \/ Swaps(l)

LoginNext ==
    \/ \E l \in Logins : LoginWork(l) \/ ListenerFails(l) \/ Pastes(l)
    \/ \E l \in Logins, whose \in {"own", "stranger"} : AcceptsDial(l, whose)
    \/ \E l \in AppLogins : OpenConnect(l)
    \/ \E l \in CliLogins : RunLogin(l) \/ KillLogin(l)
    \/ CancelConnect \/ ConnectAnswered \/ LeaveApp

\* The threads run; a browser may never call back, the user may never press a key.
LoginFairness ==
    /\ \A l \in Logins : WF_loginVars(LoginWork(l))
    /\ WF_loginVars(ConnectAnswered)

LoginSpec == LoginInit /\ [][LoginNext]_loginVars /\ LoginFairness

-----------------------------------------------------------------------------
(***************************************************************************)
(* Properties.                                                             *)
(***************************************************************************)

\* The token file holds no token that AniList has not confirmed and none that
\* another's callback brought, whatever saves race (complete_login: the file is
\* never written before the verify succeeds).
OnlyVerified == authFile # 0 => authFile \in verified /\ token[authFile] = "own"

\* A login that is cancelled, by esc or by the teardown, gives its port back
\* although no browser ever calls.
CancelFrees == port \in canceled ~> port \notin canceled

\* A modal never outlives its worker for good (the stranded spinner).
ModalStranded == modal # 0 /\ worker[modal] = "gone"
ModalAnswered == ModalStranded ~> ~ModalStranded \/ leaving

\* The teardown cancels the login of the open modal, so that its drain ends.
QuitUnblocks == leaving /\ modal # 0 ~> modal # 0 /\ worker[modal] = "gone"
=============================================================================
