------------------------------ MODULE MCThreads ------------------------------
(***************************************************************************)
(* TLC instances of the machines that wait for a thread, a process, the    *)
(* network, the disk or the clock. They share no state with one another:   *)
(* a behaviour picks one part and runs it, the others stay parked in an    *)
(* initial state.                                                          *)
(***************************************************************************)
EXTENDS Runtime, Login, Search, Adapters, Mpv, Enrichment, Covers, Update, Relay, Catalog,
        Notices, Preferences

VARIABLE part

PosterX == [id |-> 1, url |-> "x"]
PosterY == [id |-> 2, url |-> "y"]
SomePosters == {PosterX, PosterY, [PosterY EXCEPT !.url = NoUrl]}

threadVars == <<runtimeVars, loginVars, searchVars, adapterVars, mpvVars, enrichVars,
                coversVars, updateVars, relayVars, catalogVars, skipVars, noticeVars, prefVars, part>>

ThreadsInit ==
    /\ part \in {"runtime", "login", "search", "adapters", "mpv", "enrichment", "covers",
                "update", "relay", "catalog", "skip", "notices", "preferences"}
    /\ RuntimeInit /\ LoginInit /\ SearchInit /\ MpvInit /\ EnrichInit /\ CoversInit
    /\ AdaptersInit
    /\ UpdateInit /\ (part # "update" => binary = Releases[1])
    /\ RelayInit /\ (part # "relay" => web = <<1, 1>>)
    /\ CatalogInit /\ (part # "catalog" => tokenOk /\ account = [m \in Media |-> Missing])
    /\ SkipInit /\ (part # "skip" => answer = <<>> /\ mode = "none")
    /\ NoticesInit
    /\ PreferencesInit /\ (part # "preferences" => stored = Unwritten /\ ~folder)
    /\ part # "adapters" => /\ call = [who |-> "senshi", op |-> "search", track |-> "sub"]
                            /\ site = [stocked |-> FALSE, eps |-> 1, dubbed |-> {}]

PartSteps ==
    \/ part = "runtime" /\ RuntimeNext
    \/ part = "login" /\ LoginNext
    \/ part = "search" /\ SearchNext
    \/ part = "adapters" /\ Answered
    \/ part = "mpv" /\ MpvNext
    \/ part = "enrichment" /\ EnrichNext
    \/ part = "covers" /\ CoversNext
    \/ part = "update" /\ UpdateNext
    \/ part = "relay" /\ RelayNext
    \/ part = "catalog" /\ CatalogNext
    \/ part = "skip" /\ SkipNext
    \/ part = "notices" /\ NoticesNext
    \/ part = "preferences" /\ PreferencesNext

OthersRest ==
    /\ part # "runtime" => UNCHANGED runtimeVars
    /\ part # "login" => UNCHANGED loginVars
    /\ part # "search" => UNCHANGED searchVars
    /\ part # "adapters" => UNCHANGED adapterVars
    /\ part # "mpv" => UNCHANGED mpvVars
    /\ part # "enrichment" => UNCHANGED enrichVars
    /\ part # "covers" => UNCHANGED coversVars
    /\ part # "update" => UNCHANGED updateVars
    /\ part # "relay" => UNCHANGED relayVars
    /\ part # "catalog" => UNCHANGED catalogVars
    /\ part # "skip" => UNCHANGED skipVars
    /\ part # "notices" => UNCHANGED noticeVars
    /\ part # "preferences" => UNCHANGED prefVars

ThreadsNext == PartSteps /\ OthersRest /\ UNCHANGED part

\* The fairness of the modules, folded: a part never changes, so one weak fairness
\* of the union stands for one of each part.  The logins are listed one by one.
Fair1 ==
    \/ part = "runtime" /\ UiStep
    \/ part = "login" /\ ConnectAnswered
    \/ part = "search" /\ FireSearch
    \/ part = "adapters" /\ Answered
    \/ part = "mpv" /\ WorkerStep
    \/ part = "enrichment" /\ SettleFires
    \/ part = "covers" /\ WindowCloses
    \/ part = "update" /\ WriterStep("cli")
    \/ part = "relay" /\ RelayWork
    \/ part = "catalog" /\ CatalogWork
Fair2 ==
    \/ part = "runtime" /\ Deadline
    \/ part = "login" /\ LoginWork(1)
    \/ part = "search" /\ asked # <<>> /\ (SearchDone(1) \/ SearchFailed(1))
    \/ part = "mpv" /\ WatcherStep
    \/ part = "enrichment" /\ MaybeEnrich
    \/ part = "covers" /\ SyncFetches
    \/ part = "update" /\ Installs
Fair3 ==
    \/ part = "runtime" /\ \E t \in Threads : Notifies(t)
    \/ part = "login" /\ LoginWork(2)
    \/ part = "mpv" /\ AcceptLoop
    \/ part = "enrichment" /\ EnrichAnswers
    \/ part = "covers" /\ DrawerPosts
Fair4 ==
    \/ part = "mpv" /\ HandlerEnds
    \/ part = "enrichment" /\ EnrichHandled
    \/ part = "covers" /\ DrawerEnds
Fair5 ==
    \/ part = "covers" /\ CoverArrives
Fair6 ==
    \/ part = "covers" /\ DrawCover
Fair7 ==
    \/ part = "covers" /\ Encode
Fair8 ==
    \/ part = "covers" /\ ApplyResponse

\* The variables of the part that runs: no other changes.
partVars ==
    CASE part = "runtime" -> <<runtimeVars>>
      [] part = "login" -> <<loginVars>>
      [] part = "search" -> <<searchVars>>
      [] part = "adapters" -> <<adapterVars>>
      [] part = "mpv" -> <<mpvVars>>
      [] part = "enrichment" -> <<enrichVars>>
      [] part = "covers" -> <<coversVars>>
      [] part = "update" -> <<updateVars>>
      [] part = "relay" -> <<relayVars>>
      [] part = "catalog" -> <<catalogVars>>
      [] part = "skip" -> <<skipVars>>
      [] part = "notices" -> <<noticeVars>>
      [] part = "preferences" -> <<prefVars>>

Fairly(A) == UNCHANGED part /\ A

ThreadsSpec ==
    /\ ThreadsInit /\ [][ThreadsNext]_threadVars
    /\ WF_partVars(Fairly(Fair1))
    /\ WF_partVars(Fairly(Fair2))
    /\ WF_partVars(Fairly(Fair3))
    /\ WF_partVars(Fairly(Fair4))
    /\ WF_partVars(Fairly(Fair5))
    /\ WF_partVars(Fairly(Fair6))
    /\ WF_partVars(Fairly(Fair7))
    /\ WF_partVars(Fairly(Fair8))

-----------------------------------------------------------------------------
\* What the parts promise to end, in one formula for all of them, for the part never
\* changes: QuitEnds, QuitUnblocks, SearchSettles, CallEnds, PlayReturns, UpdateEnds,
\* RequestEnds, PostEnds, and CoverSettles of the first poster.
Begun ==
    \/ part = "runtime" /\ Ending
    \/ part = "login" /\ leaving /\ modal # 0
    \/ part = "search" /\ SpinsOverQuery
    \/ part = "adapters" /\ reply = Unanswered
    \/ part = "mpv" /\ MpvGone
    \/ part = "covers" /\ CoverDue(PosterX)
    \/ part = "update" /\ cli.step = "installing"
    \/ part = "relay" /\ line = "busy"
    \/ part = "catalog" /\ post # NoPost
Ended ==
    \/ part = "runtime" /\ pc = "done"
    \/ part = "login" /\ modal # 0 /\ worker[modal] = "gone"
    \/ part = "search" /\ ~SpinsOverQuery
    \/ part = "adapters" /\ reply # Unanswered
    \/ part = "mpv" /\ phase \in {"backoff", "done"}
    \/ part = "covers" /\ CoverMet(PosterX)
    \/ part = "update" /\ cli.step = "idle"
    \/ part = "relay" /\ line # "busy"
    \/ part = "catalog" /\ post = NoPost
WhatBeginsEnds == Begun ~> Ended

\* What must not be left standing: TickNotStarved, CancelFrees, AskedWhenStale, and
\* CoverSettles of the second poster.
Stranded ==
    \/ part = "runtime" /\ pc \notin {"clock", "done"}
    \/ part = "login" /\ port \in canceled
    \/ part = "enrichment" /\ Unchecked
    \/ part = "covers" /\ CoverDue(PosterY)
Relieved ==
    \/ part = "runtime" /\ pc \in {"clock", "done"}
    \/ part = "login" /\ port \notin canceled
    \/ part = "enrichment" /\ (~Unchecked \/ settling \/ spent.fetches = MaxFetches)
    \/ part = "covers" /\ CoverMet(PosterY)
NothingStranded == Stranded ~> Relieved

\* What is wrong for a moment and comes right: ModalAnswered, PosterHeals.
Wrong ==
    \/ part = "login" /\ ModalStranded
    \/ part = "covers" /\ ~PosterOwn
Right ==
    \/ part = "login" /\ (~ModalStranded \/ leaving)
    \/ part = "covers" /\ PosterOwn
WrongComesRight == Wrong ~> Right

\* The three together: nothing the program waits for, owes or shows wrongly stays so.
WaitsEnd == WhatBeginsEnds /\ NothingStranded /\ WrongComesRight

\* The type invariants of the parts.
ThreadsTypeOK ==
    /\ RuntimeTypeOK /\ LoginTypeOK /\ SearchTypeOK /\ AdaptersTypeOK
    /\ MpvTypeOK /\ EnrichTypeOK /\ CoversTypeOK /\ UpdateTypeOK /\ RelayTypeOK
    /\ CatalogTypeOK /\ SkipTypeOK /\ NoticesTypeOK /\ PreferencesTypeOK

-----------------------------------------------------------------------------
SomePages == [q \in {"a", "b"} |-> IF q = "a" THEN 3 ELSE 1]

Says(x, t, c, s) == [text |-> x, total |-> t, cover |-> c, status |-> s]
SomeSays == {Says("old", "12", "abs", "RELEASING"), Says("none", "none", "rel", "RELEASING")}
SomeTtl == [s \in {"RELEASING", "none"} |-> 1]

SomeReleases == <<[core |-> 1, pre |-> FALSE], [core |-> 2, pre |-> FALSE]>>

\* Two servers, a redirect from one to the other, to a private address, to a relative
\* place and in a circle; playlists with references of every kind.
Absolute(u) == [kind |-> "absolute", at |-> u]
Rooted(d, f) == [kind |-> "rooted", dir |-> d, file |-> f]
Relative(f) == [kind |-> "relative", file |-> f]
Network(u) == [kind |-> "network", at |-> u, dir |-> "//host", file |-> u.file]
Inline == [kind |-> "inline", file |-> "data:"]
HostNamed(n) == [form |-> "name", public |-> TRUE, name |-> n]
UrlAt(h, d, f) == [scheme |-> "http", user |-> FALSE, host |-> h, dir |-> d, file |-> f]
PrivateHost == [form |-> "v4in6", public |-> FALSE, name |-> "home"]
MasterUrl == UrlAt(HostNamed("a"), "d", "m")
OtherUrl == UrlAt(HostNamed("b"), "e", "m")
Astray == {UrlAt(HostNamed(n), "//host", f) : n \in {"a", "b"}, f \in {"m", "s"}} \cup
          {UrlAt(HostNamed("a"), "d", "data:"), UrlAt(HostNamed("b"), "e", "data:")}
Pieces == {UrlAt(HostNamed(n), d, "s") : n \in {"a", "b"}, d \in {"", "d", "e"}} \cup {UrlAt(PrivateHost, "d", "s"), UrlAt(PrivateHost, "d", "m")}
SomeUrls == {MasterUrl, OtherUrl, UrlAt(HostNamed("a"), "", "m"), UrlAt(HostNamed("b"), "", "m")} \cup Pieces \cup Astray
RefIn(t, r) == [tag |-> t, ref |-> r]
ToList(l) == [kind |-> "playlist", lines |-> l]
ToUrl(r) == [kind |-> "moved", to |-> r]
SomeLists ==
    <<ToList(<<RefIn(FALSE, Relative("s"))>>),
      ToList(<<RefIn(TRUE, Rooted("e", "s")), RefIn(FALSE, Relative("s"))>>),
      ToList(<<RefIn(FALSE, Absolute(UrlAt(PrivateHost, "d", "s")))>>)>>
\* References join_url takes for others: another host without a scheme, a key in place.
OddList == ToList(<<RefIn(TRUE, Inline), RefIn(FALSE, Network(UrlAt(HostNamed("b"), "e", "s")))>>)
\* What the first server answers for the master url, and what the second does.
AtFirst == SomeLists \o <<ToUrl(Absolute(OtherUrl)), ToUrl(Absolute(UrlAt(PrivateHost, "d", "m"))),
                         ToUrl(Relative("s")), ToUrl(Absolute(MasterUrl)), ToUrl(Network(OtherUrl)), OddList>>
AtSecond == SomeLists \o <<ToUrl(Absolute(MasterUrl))>>
SomeWebs ==
    [w \in (DOMAIN AtFirst) \X (DOMAIN AtSecond) |->
        [u \in SomeUrls |-> CASE u = MasterUrl -> AtFirst[w[1]]
                          [] u = OtherUrl -> AtSecond[w[2]]
                          [] u \notin {MasterUrl, OtherUrl} ->
                                [kind |-> IF u.file = "m" THEN "gone" ELSE "media"]]]
SomeMasters == {MasterUrl}
SomeForeigns ==
    {Missing, [status |-> "CURRENT", progress |-> 1], [status |-> "NEWER", progress |-> 0]}
SkipRow(t, a, b) == [type |-> t, from |-> a, to |-> b]
SomeSkips ==
    {SkipRow("op", 0, 5), SkipRow("op", 2, 3), SkipRow("op", 3, 8), SkipRow("ed", 6, 11)}

SomeProviders == <<"p", "q">>
SomeStored ==
    {Unwritten, Torn, [kind |-> "whole", config |-> [Defaults EXCEPT !.quality = "4k", !.translation = "dub"]]}

SomeDecoys == BoundedSeq({"G", "x"}, 3)

=============================================================================
